------------------------------ MODULE Uploads -------------------------------
(* The saved buckets and what is uploaded to one (destinations.go,           *)
(* upload.go, s3client.go).  Neither reads the other's state; each has its   *)
(* Init and Next.                                                            *)
EXTENDS Naturals, Sequences, FiniteSets, SequencesExt

CONSTANTS
  Nil, Names,
  Graphs,                              \* the names that graphs name
  MaxIds,                              \* bound on the ids given out: they are random, never the same twice
  MaxSaves,                            \* bound on the accounts saved
  MaxReads,                            \* bound on readings of the list at once
  Files,                               \* the files of the folder, in the order of the walk
  Assembled, Copied,                   \* the keys of the object assembled of them, and of the copy
  MaxAttempts, PageSize, ChunkSize,
  MaxJobs, MaxEdits, MaxOthers         \* bounds: jobs, edits, changes by another client

VARIABLES
  listed,                              \* destinations.json: of each id its name and account, or Nil
  secrets,                             \* the secret files: the account each is for, 0 for none
  accounts,                            \* how many accounts were ever saved
  born,                                \* how many ids were given out
  list,                                \* the list the pane shows
  listing,                             \* what it says of itself
  lists,                               \* its readings on their way: for whom, and what each was answered
  form,                                \* the open form: its id (New, or Nil for none), the draft's account, its call
  opening,                             \* a run's Open: the row it found, then the client it made
  torn,                                \* <<"save", id>> and <<"delete", id>>: those that stopped halfway
  savesCrossed,                        \* a save came between the two reads of an Open, or was of a draft that
                                       \* another save had made old
  listOvertaken,                       \* a reading was answered after a later one
  elsewhere,                           \* ids that the phone deleted
  folder,                              \* the version of each file, 0 where it is gone
  objects,                             \* the bucket
  halfBuilt,                           \* its multipart uploads: the parts each has
  bucketJob,                           \* what is being done: its plan, how far it is and how it ended
  request,                             \* the request under way
  stored,                              \* of each file the version whose PUT was last acknowledged, 0 for none
  touched,                             \* the keys another client changed
  edited,                              \* the files that changed since the plan
  jobs, edits                          \* counted for the bounds

(* The saved buckets: destinations.json with one secret file for each, the  *)
(* Settings pane that saves and deletes them and shows the list it last     *)
(* read, a phone that deletes one, and a run that opens one by name.  An    *)
(* account stands for all that one secret signs: endpoint, bucket and key.  *)
destinationVars == <<listed, secrets, accounts, born, list, listing, lists, form, opening,
                     torn, savesCrossed, listOvertaken, elsewhere>>

Ids == 1 .. MaxIds
New == 0
Accounts == 1 .. MaxSaves
Row == [name : Names, account : Accounts]
Shown == [row : Row, secretSet : BOOLEAN]
NoForm == [id |-> Nil, account |-> 0, call |-> Nil]
NoClient == [at |-> "none", id |-> Nil, account |-> 0, secret |-> 0]

DestTypeOK ==
  /\ listed \in [Ids -> Row \cup {Nil}] /\ secrets \in [Ids -> {0} \cup Accounts]
  /\ accounts \in {0} \cup Accounts /\ born \in 0 .. MaxIds /\ list \in [Ids -> Shown \cup {Nil}]
  /\ listing \in BOOLEAN
  /\ lists \in [1 .. MaxReads -> [of : {"pane", "form"},
                                 is : [Ids -> Shown \cup {Nil}]] \cup {Nil}]
  /\ form \in [id : Ids \cup {New, Nil}, account : {0} \cup Accounts,
              call : {"save", "remove", "done", "reading", Nil}]
  /\ opening \in [at : {"none", "found", "open"}, id : Ids \cup {Nil},
                  account : {0} \cup Accounts, secret : {0} \cup Accounts]
  /\ torn \subseteq {"save", "delete"} \X Ids /\ elsewhere \subseteq Ids
  /\ savesCrossed \in BOOLEAN /\ listOvertaken \in BOOLEAN

DestInit ==
  /\ listed = [d \in Ids |-> Nil] /\ secrets = [d \in Ids |-> 0] /\ accounts = 0 /\ born = 0
  /\ list = [d \in Ids |-> Nil] /\ lists = [r \in 1 .. MaxReads |-> Nil]
  /\ listing = FALSE /\ form = NoForm /\ opening = NoClient
  /\ torn = {} /\ savesCrossed = FALSE /\ listOvertaken = FALSE /\ elsewhere = {}

-----------------------------------------------------------------------------
(* The service.  Each call holds its lock throughout.                       *)

\* List, which says of each whether a secret is stored.
List == [d \in Ids |-> IF listed[d] = Nil THEN Nil
                       ELSE [row |-> listed[d], secretSet |-> secrets[d] # 0]]

\* Save's refusals: a name another has, an id that is gone, no secret at all.
NameFree(name, d) == \A e \in Ids \ {d} : listed[e] # Nil => listed[e].name # name
\* A bug: a new destination needs no secret.
SavesBare(d, name, typed) == NameFree(name, d) /\ (form.id # New => listed[d] # Nil)

Saves(d, name, typed) ==
  /\ NameFree(name, d)
  /\ form.id # New => listed[d] # Nil
  /\ typed \/ secrets[d] # 0

\* The secret is written first; the list may then fail to be, once here.
StoreSecret(d, typed) ==
  secrets' = IF typed THEN [secrets EXCEPT ![d] = accounts + 1] ELSE secrets

StoreRow(d, name, typed) ==
  listed' = [listed EXCEPT ![d] =
               [name |-> name, account |-> IF typed THEN accounts + 1 ELSE form.account]]

\* The id is the form's, or one that never was.
IdOf(d) == d = IF form.id = New THEN born + 1 ELSE form.id

Ended(call) == form' = [form EXCEPT !.call = call]

SaveDestination ==
  /\ form.call = "save"
  /\ \E d \in Ids, name \in Names, typed \in BOOLEAN :
       /\ IdOf(d) /\ Saves(d, name, typed) /\ (typed => accounts < MaxSaves)
       /\ StoreSecret(d, typed)
       /\ accounts' = IF typed THEN accounts + 1 ELSE accounts
       /\ born' = IF form.id = New THEN d ELSE born
       /\ savesCrossed' = \/ savesCrossed
                          \/ opening.at = "found" /\ opening.id = d
                          \/ ~typed /\ listed[d].account # form.account
       /\ \/ StoreRow(d, name, typed) /\ Ended("done") /\ UNCHANGED torn
          \/ /\ torn = {} /\ UNCHANGED listed /\ Ended(Nil)
             /\ torn' = IF typed THEN torn \cup {<<"save", d>>} ELSE torn
  /\ UNCHANGED <<list, listing, lists, opening, listOvertaken, elsewhere>>

\* A refusal leaves the form open.
SaveRefused ==
  /\ form.call = "save" /\ Ended(Nil)
  /\ UNCHANGED <<listed, secrets, accounts, born, list, listing, lists, opening, torn, savesCrossed,
                 listOvertaken, elsewhere>>

\* Delete takes the secret first, so that what fails can be tried again.
Delete(d, through) ==
  /\ secrets' = [secrets EXCEPT ![d] = 0]
  /\ listed' = IF through THEN [listed EXCEPT ![d] = Nil] ELSE listed
  /\ torn' = IF through \/ listed[d] = Nil THEN torn ELSE torn \cup {<<"delete", d>>}

DeleteDestination ==
  /\ form.call = "remove"
  /\ \E through \in BOOLEAN :
       (through \/ torn = {}) /\ Delete(form.id, through) /\ Ended(IF through THEN "done" ELSE Nil)
  /\ UNCHANGED <<accounts, born, list, listing, lists, opening, savesCrossed, listOvertaken, elsewhere>>

\* A phone may delete, once here, and tells no one; it may neither save nor test.
PhoneDeletes(d) ==
  /\ listed[d] # Nil /\ elsewhere = {} /\ Delete(d, TRUE) /\ elsewhere' = elsewhere \cup {d}
  /\ UNCHANGED <<accounts, born, list, listing, lists, form, opening, savesCrossed, listOvertaken>>

\* Open finds the row by its name, and reads the secret in another hold of the lock.
Lookup(name) ==
  /\ opening = NoClient
  /\ \E d \in Ids :
       /\ listed[d] # Nil /\ listed[d].name = name
       /\ opening' = [NoClient EXCEPT !.at = "found", !.id = d, !.account = listed[d].account]
  /\ UNCHANGED <<listed, secrets, accounts, born, list, listing, lists, form, torn, savesCrossed, listOvertaken,
                 elsewhere>>

OpenDestination ==
  /\ opening.at = "found"
  /\ opening' = IF secrets[opening.id] = 0 THEN NoClient
                ELSE [opening EXCEPT !.at = "open", !.secret = secrets[opening.id]]
  /\ UNCHANGED <<listed, secrets, accounts, born, list, listing, lists, form, torn, savesCrossed, listOvertaken,
                 elsewhere>>

CloseClient ==
  /\ opening.at = "open" /\ opening' = NoClient
  /\ UNCHANGED <<listed, secrets, accounts, born, list, listing, lists, form, torn, savesCrossed, listOvertaken,
                 elsewhere>>

-----------------------------------------------------------------------------
(* The pane.                                                                *)

\* refresh, when the pane opens or a call is done: the backend's answer is taken now
\* and arrives when it does.
Refresh(of) ==
  /\ IF of = "pane" THEN form.call = Nil /\ form' = NoForm
     ELSE form.call = "done" /\ Ended("reading")
  /\ \E r \in 1 .. MaxReads :
       /\ lists[r] = Nil /\ \A q \in 1 .. r - 1 : lists[q] # Nil
       /\ lists' = [lists EXCEPT ![r] = [of |-> of, is |-> List]]
  /\ listing' = TRUE
  /\ UNCHANGED <<listed, secrets, accounts, born, list, opening, torn, savesCrossed, listOvertaken, elsewhere>>

Without(r) == [q \in 1 .. MaxReads |->
                 IF q < r THEN lists[q] ELSE IF q = MaxReads THEN Nil ELSE lists[q + 1]]

\* Any answer ends the loading; the one a call awaits closes its form.  A form whose row
\* comes back is drawn anew.
Redrawn(shown) ==
  IF form.id \in Ids /\ list[form.id] = Nil /\ shown[form.id] # Nil
  THEN [form EXCEPT !.account = shown[form.id].row.account] ELSE form

Answered(r) ==
  /\ lists[r] # Nil /\ list' = lists[r].is /\ listing' = FALSE
  /\ listOvertaken' = (listOvertaken \/ r > 1)
  /\ lists' = Without(r)
  /\ form' = IF lists[r].of = "form" THEN NoForm ELSE Redrawn(lists[r].is)
  /\ UNCHANGED <<listed, secrets, accounts, born, opening, torn, savesCrossed, elsewhere>>

\* The draft is the row as it is shown.  A click on another row while a call runs is left
\* out: the form it opens is closed by that call's end.
OpenForm(opened) ==
  /\ form.call = Nil /\ form' = opened
  /\ UNCHANGED <<listed, secrets, accounts, born, list, listing, lists, opening, torn, savesCrossed,
                 listOvertaken, elsewhere>>

EditForm(d) ==
  /\ ~listing /\ list[d] # Nil /\ form.id # d
  /\ OpenForm([id |-> d, account |-> list[d].row.account, call |-> Nil])

AddForm == form.id = Nil /\ OpenForm([NoForm EXCEPT !.id = New])

\* A form is drawn in its row: one whose row is gone is open and nowhere.
Drawn == form.id = New \/ (form.id \in Ids /\ list[form.id] # Nil)

CloseForm == Drawn /\ OpenForm(NoForm)

\* Save and Delete: while the call runs, the form's controls are off.
Submit ==
  /\ Drawn /\ form.call = Nil
  /\ Ended("save") \/ (form.id # New /\ Ended("remove"))
  /\ UNCHANGED <<listed, secrets, accounts, born, list, listing, lists, opening, torn, savesCrossed,
                 listOvertaken, elsewhere>>

DestNext ==
  \/ SaveDestination \/ SaveRefused \/ DeleteDestination
  \/ OpenDestination \/ CloseClient \/ AddForm \/ CloseForm \/ Submit
  \/ \E d \in Ids : PhoneDeletes(d) \/ EditForm(d)
  \/ \E name \in Graphs : Lookup(name)
  \/ \E of \in {"pane", "form"} : Refresh(of)
  \/ \E r \in 1 .. MaxReads : Answered(r)

-----------------------------------------------------------------------------
(* A graph names one destination (destinations.go:204-205).                  *)
NamesAreUnique ==
  \A d, e \in Ids : d # e /\ listed[d] # Nil /\ listed[e] # Nil
                      => listed[d].name # listed[e].name

(* A secret goes with its destination: one without the other is the trace of *)
(* a save that failed after its first write, or of a delete that can be      *)
(* tried again (destinations.go:352-353, 385-386).                           *)
SecretsHaveOwners ==
  \A d \in Ids :
    /\ secrets[d] # 0 /\ listed[d] = Nil => <<"save", d>> \in torn
    /\ secrets[d] = 0 /\ listed[d] # Nil => <<"delete", d>> \in torn

(* A run signs a bucket's requests with that bucket's secret, except when a  *)
(* save came between Open's two reads, stopped halfway, or kept the stored   *)
(* secret with a draft older than it (destinations.go:206-272, 348-358).     *)
SignsWithItsOwn ==
  opening.at = "open" =>
    opening.secret = opening.account \/ savesCrossed \/ <<"save", opening.id>> \in torn

(* Nothing is optimistic: once the readings are in, the pane shows what is   *)
(* stored, but for what the phone deleted, what stopped halfway and a        *)
(* reading overtaken by a later one (useDestinationsStore.ts:49-53).         *)
ListIsStored ==
  (\A r \in 1 .. MaxReads : lists[r] = Nil) /\ ~listOvertaken
    /\ form.call # "done" =>
    \A d \in Ids : \/ list[d] = List[d] \/ d \in elsewhere
                   \/ {<<"save", d>>, <<"delete", d>>} \cap torn # {}

DestinationsAreSound ==
  NamesAreUnique /\ SecretsHaveOwners /\ SignsWithItsOwn /\ ListIsStored

-----------------------------------------------------------------------------
(* A bucket and the jobs that use it: the upload of a folder, the copy of   *)
(* an object, the assembly of one from parts, and the removal of all that a *)
(* listing names.  Every request is tried four times; an attempt may fail   *)
(* before or after the bucket acted on it.  A content is the sequence of    *)
(* the file versions it consists of, empty where there is no object.        *)
bucketVars == <<folder, objects, halfBuilt, bucketJob, request, stored, touched, edited, jobs, edits>>

ObjectNames == ToSet(Files)
Keys == Files \o <<Assembled, Copied>>
KeySet == ToSet(Keys)

\* Versions 1 and 2 are of one size, 4 is over the limit of a single PUT.
Versions == 1 .. 4
SizeOf(v) == (v + 1) \div 2 + (IF v = 4 THEN 1 ELSE 0)
MaxSize == 2
ContentSize(c) == FoldLeft(LAMBDA n, p : n + SizeOf(p[2]), 0, c)
Torn == <<"torn", 1>>

Idle == [is |-> "none", plan |-> [k \in ObjectNames |-> 0], at |-> 1, skipped |-> {}, sent |-> {},
         listed |-> <<>>, steady |-> {}, built |-> 0, cancelled |-> FALSE, end |-> Nil]
NoCall == [op |-> Nil, key |-> Nil, signed |-> 0, tries |-> 0, is |-> Nil, got |-> <<>>]

BucketTypeOK ==
  /\ folder \in [ObjectNames -> {0} \cup Versions]
  /\ \A k \in KeySet : \A i \in DOMAIN objects[k] : objects[k][i] \in ObjectNames \X Versions \cup {Torn}
  /\ \A i \in DOMAIN halfBuilt : Len(halfBuilt[i]) <= Len(Files)
  /\ bucketJob.is \in {"none", "upload", "copy", "assemble", "remove"} /\ bucketJob.end \in {Nil, "ok", "failed"}
  /\ bucketJob.skipped \subseteq ObjectNames /\ bucketJob.sent \subseteq ObjectNames
  /\ request.tries \in 0 .. MaxAttempts /\ request.is \in {Nil, "sent", "ok", "failed"}
  /\ stored \in [ObjectNames -> {0} \cup Versions] /\ touched \subseteq KeySet /\ edited \subseteq ObjectNames

BucketInit ==
  /\ folder = [f \in ObjectNames |-> 1] /\ objects = [k \in KeySet |-> <<>>] /\ halfBuilt = <<>>
  /\ bucketJob = Idle /\ request = NoCall /\ stored = [f \in ObjectNames |-> 0]
  /\ touched = {} /\ edited = {} /\ jobs = 0 /\ edits = 0

-----------------------------------------------------------------------------
(* A request.                                                               *)

Send(op, key, signed) ==
  request' = [op |-> op, key |-> key, signed |-> signed, tries |-> 1, is |-> "sent", got |-> <<>>]

End(how) == request' = [request EXCEPT !.is = how]

\* roundTrip: a connection error, a timeout and a 5xx are tried again, four times in
\* all; a cancelled job's are not, its abort excepted.
Again ==
  IF request.tries = MaxAttempts \/ (bucketJob.cancelled /\ request.op # "abort") THEN End("failed")
  ELSE request' = [request EXCEPT !.tries = @ + 1]

\* Each attempt reads the body anew, to the length and under the hash of the first
\* reading: the bucket takes it only if it is still what was signed.
Acceptable == request.op = "put" => folder[request.key] = request.signed
\* A bug: the hash is of what the attempt reads, however much that is.
AcceptableUnsigned == TRUE

\* What is read of a file that has shrunk ends early, which is retried; a file that
\* is gone is not; any other change is refused for its hash.
Shrunk == request.op = "put" /\ folder[request.key] # 0 /\ SizeOf(folder[request.key]) < SizeOf(request.signed)

Parts == Len(Files)
Gone(k) == [objects EXCEPT ![k] = <<>>]

\* The keys of this chunk of the listing that the job removes.
Chunk == {bucketJob.listed[i] : i \in DOMAIN bucketJob.listed \cap (bucketJob.at .. bucketJob.at + ChunkSize - 1)}

\* What the bucket does of an attempt it accepts.  An object appears when its PUT or
\* its multipart upload is complete, never before.
Apply ==
  \/ request.op \in {"head", "list"} /\ UNCHANGED <<objects, halfBuilt>>
  \/ /\ request.op = "put"
     /\ objects' = [objects EXCEPT ![request.key] =
                      IF folder[request.key] = request.signed THEN <<<<request.key, request.signed>>>>
                      ELSE <<Torn>>]
     /\ UNCHANGED halfBuilt
  \/ /\ request.op = "copy" /\ objects[Files[1]] # <<>>
     /\ objects' = [objects EXCEPT ![Copied] = objects[Files[1]]] /\ UNCHANGED halfBuilt
  \/ request.op = "create" /\ halfBuilt' = Append(halfBuilt, <<>>) /\ UNCHANGED objects
  \/ /\ request.op = "part" /\ objects[request.key] # <<>>
     /\ halfBuilt' = [halfBuilt EXCEPT ![bucketJob.built] =
                        IF Len(@) < bucketJob.at THEN @ \o objects[request.key]
                        ELSE ReplaceAt(@, bucketJob.at, objects[request.key][1])]
     /\ UNCHANGED objects
  \/ /\ request.op = "complete" /\ halfBuilt[bucketJob.built] # <<>>
     /\ objects' = [objects EXCEPT ![Assembled] = halfBuilt[bucketJob.built]]
     /\ halfBuilt' = [halfBuilt EXCEPT ![bucketJob.built] = <<>>]
  \/ /\ request.op = "abort" /\ halfBuilt' = [halfBuilt EXCEPT ![bucketJob.built] = <<>>]
     /\ UNCHANGED objects
  \/ /\ request.op = "delete" /\ UNCHANGED halfBuilt
     /\ objects' = [k \in KeySet |-> IF k \in Chunk THEN <<>> ELSE objects[k]]

\* The page of a listing that begins after what was listed, in the order of the keys.
Page ==
  LET Past(k) == bucketJob.listed = <<>> \/ \E i, j \in DOMAIN Keys :
                           Keys[i] = Last(bucketJob.listed) /\ Keys[j] = k /\ i < j
      there == SelectSeq(Keys, LAMBDA k : objects[k] # <<>> /\ Past(k))
  IN  [more |-> Len(there) > PageSize,
       keys |-> IF Len(there) > PageSize THEN SubSeq(there, 1, PageSize) ELSE there]

Got == CASE request.op = "head" -> objects[request.key]
         [] request.op = "list" -> <<Page>>
         [] request.op = "create" -> <<Len(halfBuilt')>>
         [] OTHER -> <<>>

\* The attempt never arrives, or the bucket fails before it acts.
Lost ==
  /\ request.is = "sent" /\ Again
  /\ UNCHANGED <<folder, objects, halfBuilt, bucketJob, stored, touched, edited, jobs, edits>>

\* The bucket acts and the answer is lost: the next attempt asks for it again.
Unanswered ==
  /\ request.is = "sent" /\ Acceptable /\ request.op \notin {"head", "list"}
  /\ Apply /\ Again
  /\ UNCHANGED <<folder, bucketJob, stored, touched, edited, jobs, edits>>

RequestAnswered ==
  /\ request.is = "sent" /\ Acceptable
  /\ Apply /\ request' = [request EXCEPT !.is = "ok", !.got = Got]
  /\ UNCHANGED <<folder, bucketJob, stored, touched, edited, jobs, edits>>

\* A 4xx, a certificate, and of the calls that answer in XML also an error inside a 200:
\* nothing is done.  So is the completion of an upload that an earlier attempt completed.
Refused ==
  /\ request.is = "sent" /\ (IF Shrunk THEN Again ELSE End("failed"))
  /\ UNCHANGED <<folder, objects, halfBuilt, bucketJob, stored, touched, edited, jobs, edits>>

\* DeleteObjects answers for each key of the chunk: here it could not delete the first.
SomeNotDeleted ==
  /\ request.is = "sent" /\ request.op = "delete" /\ Chunk # {}
  /\ \E k \in Chunk : objects' = [o \in KeySet |-> IF o \in Chunk \ {k} THEN <<>> ELSE objects[o]]
  /\ request' = [request EXCEPT !.is = "ok", !.got = <<"errors">>]
  /\ UNCHANGED <<folder, halfBuilt, bucketJob, stored, touched, edited, jobs, edits>>

-----------------------------------------------------------------------------
(* The jobs.                                                                *)

Begin(record) ==
  /\ bucketJob.is = "none" \/ bucketJob.end # Nil
  /\ jobs < MaxJobs /\ jobs' = jobs + 1 /\ bucketJob' = record
  /\ UNCHANGED <<folder, objects, halfBuilt, stored, touched, edits>>

Fail == bucketJob' = [bucketJob EXCEPT !.end = "failed"]
Succeed == bucketJob' = [bucketJob EXCEPT !.end = "ok"]

\* runUpload plans every file of the folder, and refuses an empty plan and one with a
\* file over the limit before it sends any.
Plan == [f \in ObjectNames |-> IF folder[f] = 0 THEN 0 ELSE SizeOf(folder[f])]

BeginUpload ==
  LET fits == \A f \in ObjectNames : Plan[f] <= MaxSize
      some == \E f \in ObjectNames : Plan[f] > 0
  IN  /\ Begin([Idle EXCEPT !.is = "upload", !.plan = Plan, !.end = IF fits /\ some THEN Nil ELSE "failed"])
      /\ edited' = {} /\ request' = NoCall

BeginCopy == Begin([Idle EXCEPT !.is = "copy"]) /\ request' = NoCall /\ UNCHANGED edited
BeginAssembly == Begin([Idle EXCEPT !.is = "assemble"]) /\ request' = NoCall /\ UNCHANGED edited
BeginRemoval ==
  /\ Begin([Idle EXCEPT !.is = "remove", !.steady = {k \in KeySet : objects[k] # <<>>}])
  /\ request' = NoCall /\ UNCHANGED edited

Cancel ==
  /\ bucketJob.is # "none" /\ bucketJob.end = Nil /\ ~bucketJob.cancelled
  /\ bucketJob' = [bucketJob EXCEPT !.cancelled = TRUE]
  /\ UNCHANGED <<folder, objects, halfBuilt, request, stored, touched, edited, jobs, edits>>

Ready(op) == bucketJob.end = Nil /\ request.op = op /\ request.is \in {Nil, "ok"}
Failed == bucketJob.end = Nil /\ request.is = "failed"
Still == UNCHANGED <<folder, objects, halfBuilt, touched, edited, jobs, edits>>

\* syncUploadItems, one object after another: the context, HEAD, then PUT unless an
\* object of the planned size is there.
Planned == {i \in DOMAIN Files : bucketJob.plan[Files[i]] > 0 /\ i >= bucketJob.at}
This == Files[bucketJob.at]

NextItem ==
  /\ bucketJob.is = "upload" /\ Ready(Nil) /\ UNCHANGED stored /\ Still
  /\ \/ bucketJob.cancelled /\ Fail /\ UNCHANGED request
     \/ ~bucketJob.cancelled /\ Planned = {} /\ Succeed /\ UNCHANGED request
     \/ /\ ~bucketJob.cancelled /\ Planned # {}
        /\ LET i == CHOOSE i \in Planned : \A j \in Planned : i <= j
           IN  Send("head", Files[i], 0) /\ bucketJob' = [bucketJob EXCEPT !.at = i]

Skip ==
  /\ bucketJob.is = "upload" /\ Ready("head") /\ ContentSize(request.got) = bucketJob.plan[This]
  /\ bucketJob' = [bucketJob EXCEPT !.skipped = @ \cup {This}, !.at = @ + 1] /\ request' = NoCall
  /\ UNCHANGED stored /\ Still

\* PutObject takes the size anew, refuses what is gone or too large, and hashes it.
Put ==
  /\ bucketJob.is = "upload" /\ Ready("head") /\ ContentSize(request.got) # bucketJob.plan[This]
  /\ \/ /\ folder[This] # 0 /\ SizeOf(folder[This]) <= MaxSize
        /\ Send("put", This, folder[This]) /\ UNCHANGED bucketJob
     \/ /\ folder[This] = 0 \/ SizeOf(folder[This]) > MaxSize
        /\ Fail /\ UNCHANGED request
  /\ UNCHANGED stored /\ Still

PutAcknowledged ==
  /\ bucketJob.is = "upload" /\ Ready("put")
  /\ bucketJob' = [bucketJob EXCEPT !.sent = @ \cup {This}, !.at = @ + 1] /\ request' = NoCall
  /\ stored' = [stored EXCEPT ![This] = request.signed] /\ Still

UploadFails == /\ bucketJob.is \in {"upload", "copy", "remove"} /\ Failed
               /\ Fail /\ UNCHANGED <<request, stored>> /\ Still

CopyObject ==
  /\ bucketJob.is = "copy" /\ UNCHANGED stored /\ Still
  /\ \/ Ready(Nil) /\ Send("copy", Files[1], 0) /\ UNCHANGED bucketJob
     \/ Ready("copy") /\ Succeed /\ UNCHANGED request

\* assembleDHObject: every part in its order, then the completion.  Whatever fails is
\* followed by an abort, and the assembly has failed either way.
Assemble ==
  /\ bucketJob.is = "assemble" /\ UNCHANGED stored /\ Still
  /\ \/ Ready(Nil) /\ Send("create", Assembled, 0) /\ UNCHANGED bucketJob
     \/ /\ Ready("create") /\ bucketJob.built = 0
        /\ bucketJob' = [bucketJob EXCEPT !.built = request.got[1]] /\ request' = [NoCall EXCEPT !.op = "part"]
     \/ /\ Ready("part") /\ request.is = Nil
        /\ IF bucketJob.cancelled THEN Send("abort", Assembled, 0) ELSE Send("part", This, 0)
        /\ UNCHANGED bucketJob
     \/ /\ Ready("part") /\ request.is = "ok"
        /\ IF bucketJob.at = Parts THEN Send("complete", Assembled, 0) /\ UNCHANGED bucketJob
           ELSE request' = [NoCall EXCEPT !.op = "part"] /\ bucketJob' = [bucketJob EXCEPT !.at = @ + 1]
     \/ Ready("complete") /\ Succeed /\ UNCHANGED request
     \/ Failed /\ request.op \in {"part", "complete"} /\ Send("abort", Assembled, 0) /\ UNCHANGED bucketJob
     \/ (Ready("abort") \/ (Failed /\ request.op \in {"create", "abort"})) /\ Fail /\ UNCHANGED request

\* dropDHBase: the whole listing, then every key of it, a chunk at a time.  A listing
\* that breaks off removes nothing, keys that stay are told after the last chunk.
ListObjects ==
  /\ bucketJob.is = "remove" /\ UNCHANGED stored /\ Still
  /\ \/ Ready(Nil) /\ Send("list", Nil, 0) /\ UNCHANGED bucketJob
     \/ /\ Ready("list")
        /\ bucketJob' = [bucketJob EXCEPT !.listed = @ \o request.got[1].keys]
        /\ IF request.got[1].more THEN Send("list", Nil, 0) ELSE request' = [NoCall EXCEPT !.op = "listed"]

DeleteObjects ==
  /\ bucketJob.is = "remove" /\ UNCHANGED stored /\ Still
  /\ \/ Ready("listed") /\ bucketJob.listed = <<>> /\ Succeed /\ UNCHANGED request
     \/ Ready("listed") /\ bucketJob.listed # <<>> /\ Send("delete", Nil, 0) /\ UNCHANGED bucketJob
     \/ /\ Ready("delete")
        /\ LET worse == bucketJob.built = 1 \/ request.got # <<>>   \* built counts what stayed
               last == bucketJob.at + ChunkSize > Len(bucketJob.listed)
           IN  /\ bucketJob' = [bucketJob EXCEPT !.built = IF worse THEN 1 ELSE 0,
                                                 !.at = IF last THEN @ ELSE @ + ChunkSize,
                                                 !.end = IF ~last THEN Nil ELSE IF worse THEN "failed" ELSE "ok"]
               /\ IF last THEN UNCHANGED request ELSE Send("delete", Nil, 0)

-----------------------------------------------------------------------------
(* The server writes to its folder, and another client to the bucket.       *)

Edit ==
  /\ edits < MaxEdits /\ edits' = edits + 1
  /\ \E f \in ObjectNames, v \in {0} \cup Versions :
       folder[f] # v /\ folder' = [folder EXCEPT ![f] = v] /\ edited' = edited \cup {f}
  /\ UNCHANGED <<objects, halfBuilt, bucketJob, request, stored, touched, jobs>>

AnotherClient ==
  /\ Cardinality(touched) < MaxOthers
  /\ \E k \in KeySet, c \in {<<>>, <<<<Files[1], 3>>>>} :
       /\ objects[k] # c /\ objects' = [objects EXCEPT ![k] = c] /\ touched' = touched \cup {k}
       /\ bucketJob' = [bucketJob EXCEPT !.steady = @ \ {k}]
  /\ UNCHANGED <<folder, halfBuilt, request, stored, edited, jobs, edits>>

BucketNext ==
  \/ Lost \/ Unanswered \/ RequestAnswered \/ Refused \/ SomeNotDeleted
  \/ BeginUpload \/ BeginCopy \/ BeginAssembly \/ BeginRemoval \/ Cancel
  \/ NextItem \/ Skip \/ Put \/ PutAcknowledged \/ UploadFails
  \/ CopyObject \/ Assemble \/ ListObjects \/ DeleteObjects
  \/ Edit \/ AnotherClient

-----------------------------------------------------------------------------
(* Every object is whole.  What an upload says it dealt with is there and   *)
(* of the planned size, and one that follows an interrupted one sends again *)
(* nothing that was acknowledged; a copy that is told done is there; a      *)
(* listing names all that was there from its first page to its last; and of *)
(* a removal that is told done nothing is left.                              *)
BucketIsSound ==
  /\ \A k \in KeySet \ touched :
       /\ \A i \in DOMAIN objects[k] : objects[k][i] # Torn
       /\ k = Assembled => objects[k] = <<>> \/ [i \in DOMAIN objects[k] |-> objects[k][i][1]] = Files
                           \/ touched # {}
  /\ bucketJob.is = "upload" /\ bucketJob.end = "ok" =>
       /\ \A f \in ObjectNames : bucketJob.plan[f] > 0 => f \in bucketJob.sent \cup bucketJob.skipped
       /\ \A f \in (bucketJob.sent \cup bucketJob.skipped) \ (touched \cup edited) :
            ContentSize(objects[f]) = bucketJob.plan[f]
  /\ request.op = "put" /\ request.key \notin touched /\ stored[request.key] # 0 /\ objects[request.key] # <<>>
     /\ request.tries = 1 /\ request.is = "sent" => SizeOf(stored[request.key]) # bucketJob.plan[request.key]
  /\ bucketJob.is = "copy" /\ bucketJob.end = "ok" /\ touched = {} => objects[Copied] = objects[Files[1]]
  /\ bucketJob.is = "remove" /\ bucketJob.end = "ok" =>
       /\ bucketJob.steady \subseteq ToSet(bucketJob.listed)
       /\ \A k \in ToSet(bucketJob.listed) \ touched : objects[k] = <<>>
=============================================================================
