-------------------------------- MODULE Images --------------------------------
(***************************************************************************)
(* The image store and the two routes that serve from it.                  *)
(*                                                                         *)
(* A user uploads a logo or a photo; the handler checks the file, makes    *)
(* the versions to keep (three png sizes of a raster image, the file       *)
(* itself of an svg) and saves them in one transaction.  The new image's   *)
(* id is then written to an employer's logo.                               *)
(*                                                                         *)
(* The job board serves the logos of employers that once had a job on the *)
(* board.  Whether an image is such a logo is remembered for a day; one    *)
(* request at a time asks the database about an image, the others wait.    *)
(*                                                                         *)
(* Time passes in ticks; a request may see the end of one tick, not two.   *)
(***************************************************************************)
EXTENDS Integers, Sequences, SequencesExt

CONSTANTS
  Users, Employers, Readers, Ids,
  Day,    \* how many ticks an answer is remembered
  None

ASSUME DayAssumption == Day \in Nat \ {0}

VARIABLES
  upload,     \* the upload each user's browser waits for
  image,      \* the committed rows of tables image and image_version
  logo,       \* each employer's logo
  listed,     \* the employers one of whose jobs was published
  memo,       \* is_image_public's remembered answers
  request,    \* each reader's request to the job board's route
  sincePublic \* ticks since each image was last public (history)

vars == <<upload, image, logo, listed, memo, request, sincePublic>>

Sizes == <<"small", "medium", "large">>
AnySize == ToSet(Sizes)
Versions == AnySize \cup {"svg"}
Long == Day + 2   \* longer than any answer is used

(* What a file's bytes are: one of the raster formats, the same cut short  *)
(* after its header, an svg document, or anything else.                    *)
Bytes == {"png", "gif", "cut png", "svg", "other"}
File == [bytes : Bytes, ext : {"png", "gif", "svg"}, square : BOOLEAN]

ASSUME NoneAssumption == None \notin Bytes \cup Ids

Missing == [v \in Versions |-> None]
Contents == [Versions -> Bytes \cup {None}]

Uploads == [id : Ids, data : Contents, left : Seq(Versions), bytes : Bytes]
NoRequest == [step |-> "idle", id |-> None, public |-> FALSE, late |-> FALSE]

TypeOK ==
  /\ upload \in [Users -> Uploads \cup {None}]
  /\ image \in [Ids -> Contents \cup {None}]
  /\ logo \in [Employers -> Ids \cup {None}]
  /\ listed \subseteq Employers
  /\ memo \in [Ids -> [public : BOOLEAN, age : 0..Day] \cup {None}]
  /\ request \in [Readers -> [step : {"idle", "query", "store", "serve"},
                              id : Ids \cup {None}, public : BOOLEAN,
                              late : BOOLEAN]]
  /\ sincePublic \in [Ids -> 0..Long]

Init ==
  /\ upload = [u \in Users |-> None]
  /\ image = [i \in Ids |-> None]
  /\ logo = [e \in Employers |-> None]
  /\ listed = {}
  /\ memo = [i \in Ids |-> None]
  /\ request = [r \in Readers |-> NoRequest]
  /\ sincePublic = [i \in Ids |-> Long]
-----------------------------------------------------------------------------
(* Uploads.                                                                *)

(* The format the upload handler sees in a file: the header tells a raster *)
(* image, and a document is an svg only if its name says so too.           *)
FormatOf(file) ==
  CASE file.bytes \in {"png", "cut png"} -> "png"
    [] file.bytes = "gif" -> "gif"
    [] file.bytes = "svg" /\ file.ext = "svg" -> "svg"
    [] OTHER -> None

Accepted(file) ==
  /\ FormatOf(file) # None
  /\ file.ext = FormatOf(file)
  /\ file.ext # "svg" => file.square

(* The store looks only at the name to tell an svg, which it keeps as it   *)
(* is; of any other file it makes three pngs, if it can be decoded.        *)
VersionsOf(file) == IF file.ext = "svg" THEN <<"svg">> ELSE Sizes
VersionData(bytes, v) == IF v = "svg" THEN bytes ELSE "png"
Decodes(file) == file.ext = "svg" \/ file.bytes \in {"png", "gif"}

Unused == {i \in Ids : /\ image[i] = None
                       /\ \A u \in Users : upload[u] = None \/ upload[u].id # i}

(* A file passes the handler's checks, its versions are made, and the      *)
(* transaction that saves them begins with the image's own row.            *)
Begin(u, file) ==
  /\ upload[u] = None
  /\ Accepted(file) /\ Decodes(file)
  /\ \E i \in Unused :
       upload' = [upload EXCEPT ![u] =
         [id |-> i, data |-> Missing, left |-> VersionsOf(file),
          bytes |-> file.bytes]]
  /\ UNCHANGED <<image, logo, listed, memo, request, sincePublic>>

(* A variant with a bug: each version is saved on its own.                 *)
InsertVersionAtOnce(u) ==
  /\ upload[u] # None
  /\ upload[u].left # <<>>
  /\ LET v == Head(upload[u].left)
         data == [upload[u].data EXCEPT ![v] = VersionData(upload[u].bytes, v)]
     IN  /\ upload' = [upload EXCEPT ![u].data = data, ![u].left = Tail(@)]
         /\ image' = [image EXCEPT ![upload[u].id] = data]
  /\ UNCHANGED <<logo, listed, memo, request, sincePublic>>

InsertVersion(u) ==
  /\ upload[u] # None
  /\ upload[u].left # <<>>
  /\ LET v == Head(upload[u].left) IN
       upload' = [upload EXCEPT
         ![u].data[v] = VersionData(upload[u].bytes, v), ![u].left = Tail(@)]
  /\ UNCHANGED <<image, logo, listed, memo, request, sincePublic>>

Commit(u) ==
  /\ upload[u] # None
  /\ upload[u].left = <<>>
  /\ image' = [image EXCEPT ![upload[u].id] = upload[u].data]
  /\ upload' = [upload EXCEPT ![u] = None]
  /\ UNCHANGED <<logo, listed, memo, request, sincePublic>>

(* A statement fails, or the browser leaves: the transaction rolls back.   *)
Abandon(u) ==
  /\ upload[u] # None
  /\ upload' = [upload EXCEPT ![u] = None]
  /\ UNCHANGED <<image, logo, listed, memo, request, sincePublic>>
-----------------------------------------------------------------------------
(* Which images are public.                                                *)

Public(i) == \E e \in listed : logo[e] = i

(* The answer to a request for version v of image i: its format and data.  *)
NotFound == [format |-> None, data |-> None]
Answer(i, v) ==
  IF image[i] = None THEN NotFound
  ELSE IF v \in Versions /\ image[i][v] # None
    THEN [format |-> "png", data |-> image[i][v]]
  ELSE IF image[i]["svg"] # None
    THEN [format |-> "svg", data |-> image[i]["svg"]]
  ELSE NotFound

(* An image that a step makes private has been public up to now.           *)
Noted(isPublic(_)) ==
  sincePublic' = [i \in Ids |-> IF isPublic(i) \/ Public(i) THEN 0 ELSE sincePublic[i]]

(* A member of e's team saves the employer with the id of an upload.       *)
SetLogo(e) ==
  /\ \E i \in {j \in Ids : image[j] # None} \cup {None} : logo' = [logo EXCEPT ![e] = i]
  /\ LET PublicNext(i) == \E f \in listed : logo'[f] = i IN Noted(PublicNext)
  /\ UNCHANGED <<upload, image, listed, memo, request>>

(* A moderator approves a job of e: its first publication is for ever.     *)
Publish(e) ==
  /\ listed' = listed \cup {e}
  /\ LET PublicNext(i) == \E f \in listed' : logo[f] = i IN Noted(PublicNext)
  /\ UNCHANGED <<upload, image, logo, memo, request>>
-----------------------------------------------------------------------------
(* Requests to the job board's route.                                      *)

Known(i) == memo[i] # None /\ memo[i].age < Day
Asking(i) == \E r \in Readers : request[r].id = i /\ request[r].step \in {"query", "store"}

Stop(r) == request' = [request EXCEPT ![r] = NoRequest]

(* Where a request for image i goes once memo was looked up.               *)
AfterLookUp(i) ==
  IF ~Known(i) THEN [NoRequest EXCEPT !.step = "query", !.id = i]
  ELSE IF memo[i].public THEN [NoRequest EXCEPT !.step = "serve", !.id = i]
  ELSE NoRequest

(* Variants with a bug: an answer that is used is remembered for longer,   *)
(* a permission or a refusal.                                              *)
CheckRenewing(r, i) ==
  /\ request[r].step = "idle" /\ ~Asking(i)
  /\ request' = [request EXCEPT ![r] = AfterLookUp(i)]
  /\ memo' = IF Known(i) /\ memo[i].public THEN [memo EXCEPT ![i].age = 0] ELSE memo
  /\ UNCHANGED <<upload, image, logo, listed, sincePublic>>

CheckRenewingRefusals(r, i) ==
  /\ request[r].step = "idle" /\ ~Asking(i)
  /\ request' = [request EXCEPT ![r] = AfterLookUp(i)]
  /\ memo' = IF Known(i) /\ ~memo[i].public THEN [memo EXCEPT ![i].age = 0] ELSE memo
  /\ UNCHANGED <<upload, image, logo, listed, sincePublic>>

(* With an answer at hand the request goes on or is refused; otherwise it  *)
(* asks the database, unless another request is asking.                    *)
Check(r, i) ==
  /\ request[r].step = "idle" /\ ~Asking(i)
  /\ request' = [request EXCEPT ![r] = AfterLookUp(i)]
  /\ UNCHANGED <<upload, image, logo, listed, memo, sincePublic>>

Query(r) ==
  /\ request[r].step = "query"
  /\ request' = [request EXCEPT ![r].step = "store",
                                ![r].public = Public(request[r].id)]
  /\ UNCHANGED <<upload, image, logo, listed, memo, sincePublic>>

Store(r) ==
  /\ request[r].step = "store"
  /\ memo' = [memo EXCEPT ![request[r].id] = [public |-> request[r].public, age |-> 0]]
  /\ IF request[r].public
       THEN request' = [request EXCEPT ![r].step = "serve"]
       ELSE Stop(r)
  /\ UNCHANGED <<upload, image, logo, listed, sincePublic>>

(* The database fails, or the reader leaves: nothing is remembered.        *)
Lose(r) ==
  /\ request[r].step \in {"query", "store"}
  /\ Stop(r)
  /\ UNCHANGED <<upload, image, logo, listed, memo, sincePublic>>

Serve(r) ==
  /\ request[r].step = "serve"
  /\ Stop(r)
  /\ UNCHANGED <<upload, image, logo, listed, memo, sincePublic>>

Tick ==
  /\ \A r \in Readers : ~request[r].late
  /\ request' = [r \in Readers |->
                  [request[r] EXCEPT !.late = request[r].step # "idle"]]
  /\ memo' = [i \in Ids |-> IF Known(i) THEN [memo[i] EXCEPT !.age = @ + 1] ELSE memo[i]]
  /\ sincePublic' = [i \in Ids |-> IF Public(i) \/ sincePublic[i] = Long
                                   THEN sincePublic[i] ELSE sincePublic[i] + 1]
  /\ UNCHANGED <<upload, image, logo, listed>>

(* The server stops and starts again: only the database is left.           *)
Restart ==
  /\ upload' = [u \in Users |-> None]
  /\ request' = [r \in Readers |-> NoRequest]
  /\ memo' = [i \in Ids |-> None]
  /\ UNCHANGED <<image, logo, listed, sincePublic>>
-----------------------------------------------------------------------------
Uploading(u) ==
  (\E file \in File : Begin(u, file)) \/ InsertVersion(u) \/ Commit(u) \/ Abandon(u)

Answering(r) == Query(r) \/ Store(r) \/ Lose(r) \/ Serve(r)

Next ==
  \/ \E u \in Users : Uploading(u)
  \/ \E e \in Employers : SetLogo(e) \/ Publish(e)
  \/ \E r \in Readers : Answering(r) \/ \E i \in Ids : Check(r, i)
  \/ Tick \/ Restart

Spec == Init /\ [][Next]_vars

(* Time passes, and a request that waits for the database or for the       *)
(* reader ends.  Nobody has to make a request or to upload.                *)
FairSpec ==
  Spec /\ WF_vars(Tick) /\ \A r \in Readers : WF_vars(Answering(r))
-----------------------------------------------------------------------------
(* An image in the store answers a request for any of the sizes pages ask  *)
(* for: a crash or a failure while it was saved left none of it.           *)
StoredIsComplete ==
  \A i \in Ids, v \in AnySize : image[i] # None => Answer(i, v) # NotFound

(* The content type sent with an image is that of its bytes, though the    *)
(* upload handler and the store tell an svg in two different ways.         *)
TypedAsStored ==
  \A i \in Ids, v \in AnySize : Answer(i, v).format = Answer(i, v).data

(* Browsers are told to keep an image for a month and never to ask again:  *)
(* what was answered once for an id and a version is answered ever after.  *)
AnswersAreImmutable ==
  [][\A i \in Ids, v \in AnySize :
       Answer(i, v) # NotFound => Answer(i, v)' = Answer(i, v)]_vars

(* Uploads that fail half-way, restarts and checks that look at other      *)
(* things than the store does: those who ask see an image in all sizes or  *)
(* not at all, as what it is, and for ever the same.                       *)
StoreAbstract == INSTANCE ImageStore WITH
  answers <- [i \in Ids |-> {Answer(i, v) : v \in AnySize}]
ImplementsStore == StoreAbstract!Spec

(* The job board serves an image only if it is public or was within the    *)
(* last day, but for the time two requests take: the one that asked and    *)
(* the one that is served, however they, logo changes and restarts         *)
(* interleave.                                                             *)
PublicWithinADay ==
  \A r \in Readers : request[r].step = "serve" => sincePublic[request[r].id] < Long

(* An image that stays public is in the end no longer refused, although    *)
(* a refusal from before it was public may be remembered.                  *)
StaleRefusalsEnd ==
  \A i \in Ids : <>[]Public(i) => <>[](Known(i) => memo[i].public)
=============================================================================
