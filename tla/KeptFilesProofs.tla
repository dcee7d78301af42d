-------------------------- MODULE KeptFilesProofs --------------------------
(***************************************************************************)
(* Theorems about what the services keep in folders and buckets            *)
(* (KeptFiles), for any files, names, builds and any number of calls, and, *)
(* with ClientStoresProofs, about all the parts around the stores.         *)
(***************************************************************************)
EXTENDS ClientStoresProofs

-----------------------------------------------------------------------------
(****************************************************************************)
(* Distant Horizons snapshots, staged and published (dhsnapshot_publish.go). *)
(****************************************************************************)
\* A folder with something in it, and the staged index, are of a snapshot that
\* was taken.
FoldersAreTaken ==
  /\ \A s \in Files!Snapshots!Snapshots : folders[s] # {} => taken[s] # {}
  /\ index # Nil => taken[index] # {}

\* What a take under way rests on: the parts it may leave out are elsewhere.
TakesAreSafe ==
  /\ snapshot # Nil /\ snapshot.kind \in {"checked", "copying", "clearing"} /\ snapshot.bucket
       => snapshot.prev \subseteq up
  /\ snapshot # Nil /\ snapshot.kind \in {"checked", "copying"} => snapshot.prev \subseteq staged \cup up
  /\ snapshot # Nil /\ snapshot.kind = "checked" => snapshot.read = {}
  /\ snapshot # Nil /\ snapshot.kind = "copying" =>
       /\ snapshot.database # {} /\ snapshot.read \subseteq snapshot.database
       /\ snapshot.read \subseteq staged \cup snapshot.prev

\* What a publish under way rests on: the parts it need not send are up, and
\* each object of its folder is there when the next is written.
PublishesAreSafe ==
  /\ snapshot # Nil /\ snapshot.kind = "sending" =>
       index # Nil /\ taken[index] \subseteq up \cup snapshot.send
  /\ snapshot # Nil /\ snapshot.kind \in {"indexing", "paging", "pointing"} =>
       index # Nil /\ taken[index] \subseteq up /\ "database" \in folders[index]
  /\ snapshot # Nil /\ snapshot.kind \in {"paging", "pointing"} => "index" \in folders[index]
  /\ snapshot # Nil /\ snapshot.kind = "pointing" => "page" \in folders[index]

\* What a prune under way rests on: no snapshot that stays names what goes.
PrunesAreSafe ==
  /\ snapshot # Nil /\ snapshot.kind \in {"pruning", "deleting", "sweeping"} =>
       index # Nil /\ latest = index
  /\ snapshot # Nil /\ snapshot.kind = "deleting" =>
       /\ latest \notin snapshot.old
       /\ \A s \in Files!Snapshots!Complete \ snapshot.old : taken[s] \cap snapshot.orphans = {}
  /\ snapshot # Nil /\ snapshot.kind = "sweeping" =>
       \A s \in Files!Snapshots!Complete : taken[s] \cap snapshot.orphans = {}

SnapshotsInv ==
  /\ Files!Snapshots!DHTypeOK /\ Files!Snapshots!SnapshotsAreWhole
  /\ FoldersAreTaken /\ TakesAreSafe /\ PublishesAreSafe /\ PrunesAreSafe

\* No snapshot was taken.
LEMMA SnapshotsStart == Files!Snapshots!DHInit => SnapshotsInv
<1> SUFFICES ASSUME Files!Snapshots!DHInit PROVE SnapshotsInv
  OBVIOUS
<1>1. Files!Snapshots!DHTypeOK
  BY DEF Files!Snapshots!DHInit, Files!Snapshots!DHTypeOK
<1>2. Files!Snapshots!SnapshotsAreWhole
  BY DEF Files!Snapshots!DHInit, Files!Snapshots!SnapshotsAreWhole, Files!Snapshots!LatestIsWhole,
         Files!Snapshots!IndexHasItsParts, Files!Snapshots!StagedIsPublishable,
         Files!Snapshots!PartsOf, Files!Snapshots!Complete
<1> QED
  BY <1>1, <1>2 DEF SnapshotsInv, Files!Snapshots!DHInit, FoldersAreTaken, TakesAreSafe,
     PublishesAreSafe, PrunesAreSafe

\* A step that only stages or clears leaves what is published whole.
LEMMA SnapshotsRest ==
  ASSUME SnapshotsInv, UNCHANGED <<index, taken, up, folders, latest>>,
         Files!Snapshots!PartsOf(index) \subseteq staged' \cup up
  PROVE  Files!Snapshots!SnapshotsAreWhole' /\ FoldersAreTaken'
BY DEF SnapshotsInv, Files!Snapshots!SnapshotsAreWhole, Files!Snapshots!LatestIsWhole,
       Files!Snapshots!IndexHasItsParts, Files!Snapshots!StagedIsPublishable, FoldersAreTaken,
       Files!Snapshots!PartsOf, Files!Snapshots!Complete

\* A take that checks, copies and clears is of the parts the index will name.
LEMMA SnapshotsTakes ==
  ASSUME SnapshotsInv,
         \/ \E w \in BOOLEAN : Files!Snapshots!Preflight(w)
         \/ Files!Snapshots!Stopped
         \/ \E piece \in Parts : Files!Snapshots!CopyPart(piece)
         \/ Files!Snapshots!PruneStaging
  PROVE  SnapshotsInv'
<1> USE DEF Files!Snapshots!local, Files!Snapshots!bucket, Files!Snapshots!Of, Files!Snapshots!Becomes
<1>0. /\ Files!Snapshots!DHTypeOK /\ Files!Snapshots!LatestIsWhole
      /\ Files!Snapshots!StagedIsPublishable
      /\ FoldersAreTaken /\ TakesAreSafe
  BY DEF SnapshotsInv, Files!Snapshots!SnapshotsAreWhole
<1>1. UNCHANGED <<index, taken, up, folders, latest>>
  BY DEF Files!Snapshots!Preflight, Files!Snapshots!Stopped, Files!Snapshots!CopyPart, Files!Snapshots!PruneStaging
<1>r. staged \subseteq staged' => Files!Snapshots!SnapshotsAreWhole' /\ FoldersAreTaken'
  <2>1. Files!Snapshots!PartsOf(index) \subseteq staged \cup up
    BY <1>0 DEF Files!Snapshots!StagedIsPublishable
  <2> QED
    BY <1>1, <2>1, SnapshotsRest
<1>2. ASSUME NEW w \in BOOLEAN, Files!Snapshots!Preflight(w)
      PROVE  SnapshotsInv'
  <2>1. Files!Snapshots!Previous(w) \subseteq Parts
    BY <1>0 DEF Files!Snapshots!Previous, Files!Snapshots!PartsOf, Files!Snapshots!DHTypeOK
  <2>2. Files!Snapshots!Previous(w) \subseteq staged \cup up
    BY <1>0 DEF Files!Snapshots!Previous, Files!Snapshots!PartsOf, Files!Snapshots!LatestIsWhole, Files!Snapshots!StagedIsPublishable
  <2>3. w => Files!Snapshots!Previous(w) \subseteq up
    BY <1>0 DEF Files!Snapshots!Previous, Files!Snapshots!PartsOf, Files!Snapshots!LatestIsWhole
  <2>4. /\ UNCHANGED staged
        /\ snapshot' = [kind |-> "checked", database |-> {}, read |-> {},
                        prev |-> Files!Snapshots!Previous(w), bucket |-> w /\ latest # Nil]
    BY <1>2 DEF Files!Snapshots!Preflight
  <2>5. Files!Snapshots!DHTypeOK'
    BY <1>0, <1>1, <2>1, <2>4 DEF Files!Snapshots!DHTypeOK, Files!Snapshots!Run
  <2>6. TakesAreSafe' /\ PublishesAreSafe' /\ PrunesAreSafe'
    BY <1>1, <2>2, <2>3, <2>4 DEF TakesAreSafe, PublishesAreSafe, PrunesAreSafe
  <2> QED
    BY <1>r, <2>4, <2>5, <2>6 DEF SnapshotsInv
<1>3. CASE Files!Snapshots!Stopped
  <2>1. PICK database \in (SUBSET Parts) \ {{}} :
          snapshot' = [snapshot EXCEPT !.kind = "copying", !.database = database]
    BY <1>3 DEF Files!Snapshots!Stopped
  <2>2. UNCHANGED staged /\ snapshot # Nil /\ snapshot.kind = "checked"
    BY <1>3 DEF Files!Snapshots!Stopped
  <2>3. snapshot \in [kind : {"checked"}, prev : SUBSET Parts,
                      bucket : BOOLEAN, database : SUBSET Parts, read : SUBSET Parts]
    BY <1>0, <2>2 DEF Files!Snapshots!DHTypeOK, Files!Snapshots!Run
  <2>4. Files!Snapshots!DHTypeOK'
    BY <1>0, <1>1, <2>1, <2>2, <2>3 DEF Files!Snapshots!DHTypeOK, Files!Snapshots!Run
  <2>5. /\ snapshot'.kind = "copying" /\ snapshot'.prev = snapshot.prev
        /\ snapshot'.bucket = snapshot.bucket /\ snapshot'.database = database
        /\ snapshot'.read = snapshot.read
    BY <2>1, <2>3
  <2>9. database # {}
    OBVIOUS
  <2>8. /\ snapshot.bucket => snapshot.prev \subseteq up
        /\ snapshot.prev \subseteq staged \cup up /\ snapshot.read = {}
    BY <1>0, <2>2 DEF TakesAreSafe
  <2>6. TakesAreSafe'
    BY <1>1, <2>2, <2>5, <2>8, <2>9 DEF TakesAreSafe
  <2>7. PublishesAreSafe' /\ PrunesAreSafe'
    BY <2>5 DEF PublishesAreSafe, PrunesAreSafe
  <2> QED
    BY <1>r, <2>2, <2>4, <2>6, <2>7 DEF SnapshotsInv
<1>4. ASSUME NEW piece \in Parts, Files!Snapshots!CopyPart(piece)
      PROVE  SnapshotsInv'
  <2>1. /\ snapshot # Nil /\ snapshot.kind = "copying" /\ piece \in snapshot.database
        /\ snapshot' = [snapshot EXCEPT !.read = @ \cup {piece}]
        /\ staged' = IF piece \in snapshot.prev THEN staged ELSE staged \cup {piece}
    BY <1>4 DEF Files!Snapshots!CopyPart
  <2>2. snapshot \in [kind : {"copying"}, prev : SUBSET Parts,
                      bucket : BOOLEAN, database : SUBSET Parts, read : SUBSET Parts]
    BY <1>0, <2>1 DEF Files!Snapshots!DHTypeOK, Files!Snapshots!Run
  <2>3. Files!Snapshots!DHTypeOK'
    BY <1>0, <1>1, <2>1, <2>2 DEF Files!Snapshots!DHTypeOK, Files!Snapshots!Run
  <2>4. TakesAreSafe' /\ PublishesAreSafe' /\ PrunesAreSafe'
    BY <1>0, <1>1, <2>1, <2>2 DEF TakesAreSafe, PublishesAreSafe, PrunesAreSafe
  <2> QED
    BY <1>r, <2>1, <2>3, <2>4 DEF SnapshotsInv
<1>5. CASE Files!Snapshots!PruneStaging
  <2>1. PICK removed \in SUBSET Files!Snapshots!Unneeded : staged' = staged \ removed
    BY <1>5 DEF Files!Snapshots!PruneStaging
  <2>2. snapshot' = Nil /\ snapshot # Nil /\ snapshot.kind = "clearing"
    BY <1>5 DEF Files!Snapshots!PruneStaging
  <2>3. Files!Snapshots!PartsOf(index) \subseteq staged' \cup up
    BY <1>0, <2>1, <2>2 DEF Files!Snapshots!Unneeded, Files!Snapshots!StagedIsPublishable, TakesAreSafe
  <2>4. Files!Snapshots!DHTypeOK'
    BY <1>0, <1>1, <2>1, <2>2 DEF Files!Snapshots!DHTypeOK
  <2>5. TakesAreSafe' /\ PublishesAreSafe' /\ PrunesAreSafe'
    BY <2>2 DEF TakesAreSafe, PublishesAreSafe, PrunesAreSafe
  <2> QED
    BY <1>1, <2>3, <2>4, <2>5, SnapshotsRest DEF SnapshotsInv
<1> QED
  BY <1>2, <1>3, <1>4, <1>5

\* The staged index is written when every part it names is staged or up.
LEMMA SnapshotsIndexed == SnapshotsInv /\ Files!Snapshots!WriteIndex => SnapshotsInv'
<1> USE DEF Files!Snapshots!local, Files!Snapshots!bucket, Files!Snapshots!Of, Files!Snapshots!Becomes
<1> SUFFICES ASSUME SnapshotsInv, Files!Snapshots!WriteIndex PROVE SnapshotsInv'
  OBVIOUS
<1>0. /\ Files!Snapshots!DHTypeOK /\ Files!Snapshots!LatestIsWhole /\ Files!Snapshots!IndexHasItsParts
      /\ FoldersAreTaken /\ TakesAreSafe
  BY DEF SnapshotsInv, Files!Snapshots!SnapshotsAreWhole
<1>1. PICK s \in Files!Snapshots!Snapshots :
        taken[s] = {} /\ taken' = [taken EXCEPT ![s] = snapshot.database] /\ index' = s
  BY DEF Files!Snapshots!WriteIndex
<1>2. /\ UNCHANGED <<staged, up, folders, latest>>
      /\ snapshot # Nil /\ snapshot.kind = "copying" /\ snapshot.read = snapshot.database
      /\ snapshot' = [snapshot EXCEPT !.kind = "clearing"]
  BY DEF Files!Snapshots!WriteIndex
<1>3. snapshot \in [kind : {"copying"}, prev : SUBSET Parts,
                    bucket : BOOLEAN, database : SUBSET Parts, read : SUBSET Parts]
  BY <1>0, <1>2 DEF Files!Snapshots!DHTypeOK, Files!Snapshots!Run
<1>4. snapshot.database # {} /\ snapshot.database \subseteq staged \cup up
  BY <1>0, <1>2 DEF TakesAreSafe
<1>5. /\ folders[s] = {} /\ taken'[s] = snapshot.database
      /\ \A t \in Files!Snapshots!Snapshots : t # s => taken'[t] = taken[t]
  BY <1>0, <1>1 DEF FoldersAreTaken, Files!Snapshots!DHTypeOK
<1>6. Files!Snapshots!DHTypeOK'
  BY <1>0, <1>1, <1>2, <1>3 DEF Files!Snapshots!DHTypeOK, Files!Snapshots!Run
<1>7. TakesAreSafe' /\ PublishesAreSafe' /\ PrunesAreSafe'
  BY <1>0, <1>2, <1>3 DEF TakesAreSafe, PublishesAreSafe, PrunesAreSafe
<1>8. FoldersAreTaken'
  BY <1>0, <1>1, <1>2, <1>4, <1>5 DEF FoldersAreTaken
<1>9. latest # Nil => latest \in Files!Snapshots!Snapshots /\ latest # s
  BY <1>0, <1>5 DEF Files!Snapshots!DHTypeOK, Files!Snapshots!LatestIsWhole, Files!Snapshots!Objects
<1>10. Files!Snapshots!LatestIsWhole'
  BY <1>0, <1>2, <1>5, <1>9 DEF Files!Snapshots!LatestIsWhole, Files!Snapshots!PartsOf
<1>11. Files!Snapshots!IndexHasItsParts'
  BY <1>0, <1>2, <1>5 DEF Files!Snapshots!IndexHasItsParts, Files!Snapshots!Complete
<1>12. Files!Snapshots!StagedIsPublishable'
  BY <1>1, <1>2, <1>4, <1>5 DEF Files!Snapshots!StagedIsPublishable, Files!Snapshots!PartsOf
<1> QED
  BY <1>6, <1>7, <1>8, <1>10, <1>11, <1>12 DEF SnapshotsInv, Files!Snapshots!SnapshotsAreWhole

\* A publish sends what is not up.
LEMMA SnapshotsSends ==
  ASSUME SnapshotsInv,
         \/ Files!Snapshots!PlanParts
         \/ \E piece \in Parts : Files!Snapshots!SendPart(piece)
         \/ Files!Snapshots!CutOff
  PROVE  SnapshotsInv'
<1> USE DEF Files!Snapshots!local, Files!Snapshots!bucket, Files!Snapshots!Of, Files!Snapshots!Becomes
<1>0. /\ Files!Snapshots!DHTypeOK /\ Files!Snapshots!LatestIsWhole /\ Files!Snapshots!IndexHasItsParts
      /\ Files!Snapshots!StagedIsPublishable
      /\ FoldersAreTaken /\ PublishesAreSafe
  BY DEF SnapshotsInv, Files!Snapshots!SnapshotsAreWhole
<1>1. UNCHANGED <<staged, index, taken, folders, latest>> /\ up \subseteq up'
  BY DEF Files!Snapshots!PlanParts, Files!Snapshots!SendPart, Files!Snapshots!CutOff
<1>2. Files!Snapshots!SnapshotsAreWhole' /\ FoldersAreTaken'
  BY <1>0, <1>1 DEF Files!Snapshots!SnapshotsAreWhole, Files!Snapshots!LatestIsWhole,
       Files!Snapshots!IndexHasItsParts, Files!Snapshots!StagedIsPublishable, FoldersAreTaken,
       Files!Snapshots!PartsOf, Files!Snapshots!Complete
<1>3. CASE Files!Snapshots!PlanParts
  <2>1. PICK listed \in {up, {}} :
          snapshot' = [kind |-> "sending", send |-> Files!Snapshots!ToSend(listed)]
    BY <1>3 DEF Files!Snapshots!PlanParts
  <2>2. /\ index # Nil /\ UNCHANGED up
        /\ taken[index] \subseteq staged \cup up \cup Files!Snapshots!PartsOf(latest)
    BY <1>3 DEF Files!Snapshots!PlanParts, Files!Snapshots!PartsOf
  <2>3. Files!Snapshots!PartsOf(latest) \subseteq up
    BY <1>0 DEF Files!Snapshots!LatestIsWhole, Files!Snapshots!PartsOf
  <2>4. taken[index] \subseteq up \cup Files!Snapshots!ToSend(listed)
    BY <2>2, <2>3 DEF Files!Snapshots!ToSend, Files!Snapshots!PartsOf
  <2>5. Files!Snapshots!ToSend(listed) \subseteq Parts
    BY <1>0 DEF Files!Snapshots!ToSend, Files!Snapshots!DHTypeOK
  <2>6. Files!Snapshots!DHTypeOK'
    BY <1>0, <1>1, <2>1, <2>2, <2>5 DEF Files!Snapshots!DHTypeOK, Files!Snapshots!Run
  <2>7. TakesAreSafe' /\ PublishesAreSafe' /\ PrunesAreSafe'
    BY <1>1, <2>1, <2>2, <2>4 DEF TakesAreSafe, PublishesAreSafe, PrunesAreSafe
  <2> QED
    BY <1>2, <2>6, <2>7 DEF SnapshotsInv
<1>4. ASSUME NEW piece \in Parts, Files!Snapshots!SendPart(piece)
      PROVE  SnapshotsInv'
  <2>1. /\ snapshot # Nil /\ snapshot.kind = "sending" /\ up' = up \cup {piece}
        /\ snapshot' = [snapshot EXCEPT !.send = @ \ {piece}]
    BY <1>4 DEF Files!Snapshots!SendPart
  <2>2. snapshot \in [kind : {"sending"}, send : SUBSET Parts]
    BY <1>0, <2>1 DEF Files!Snapshots!DHTypeOK, Files!Snapshots!Run
  <2>3. snapshot'.kind = "sending" /\ snapshot'.send = snapshot.send \ {piece}
    BY <2>1, <2>2
  <2>4. Files!Snapshots!DHTypeOK'
    BY <1>0, <1>1, <2>1, <2>2 DEF Files!Snapshots!DHTypeOK, Files!Snapshots!Run
  <2>5. TakesAreSafe' /\ PublishesAreSafe' /\ PrunesAreSafe'
    BY <1>0, <1>1, <2>1, <2>3 DEF TakesAreSafe, PublishesAreSafe, PrunesAreSafe
  <2> QED
    BY <1>2, <2>4, <2>5 DEF SnapshotsInv
<1>5. CASE Files!Snapshots!CutOff
  <2>1. snapshot' = Nil /\ UNCHANGED up
    BY <1>5 DEF Files!Snapshots!CutOff
  <2>2. Files!Snapshots!DHTypeOK'
    BY <1>0, <1>1, <2>1 DEF Files!Snapshots!DHTypeOK
  <2>3. TakesAreSafe' /\ PublishesAreSafe' /\ PrunesAreSafe'
    BY <2>1 DEF TakesAreSafe, PublishesAreSafe, PrunesAreSafe
  <2> QED
    BY <1>2, <2>2, <2>3 DEF SnapshotsInv
<1> QED
  BY <1>3, <1>4, <1>5

\* A folder that gains an object stays whole, once its parts are up.
LEMMA FolderGrows ==
  ASSUME SnapshotsInv, UNCHANGED <<staged, index, taken, up, latest>>,
         index # Nil, taken[index] \subseteq up,
         NEW o \in Files!Snapshots!Objects, folders' = [folders EXCEPT ![index] = @ \cup {o}]
  PROVE  /\ Files!Snapshots!SnapshotsAreWhole' /\ FoldersAreTaken'
         /\ folders' \in [Files!Snapshots!Snapshots -> SUBSET Files!Snapshots!Objects]
         /\ folders'[index] = folders[index] \cup {o}
<1>0. /\ Files!Snapshots!DHTypeOK /\ Files!Snapshots!LatestIsWhole /\ Files!Snapshots!IndexHasItsParts
      /\ Files!Snapshots!StagedIsPublishable /\ FoldersAreTaken
  BY DEF SnapshotsInv, Files!Snapshots!SnapshotsAreWhole
<1>1. /\ folders' \in [Files!Snapshots!Snapshots -> SUBSET Files!Snapshots!Objects]
      /\ folders'[index] = folders[index] \cup {o}
      /\ \A t \in Files!Snapshots!Snapshots : t # index => folders'[t] = folders[t]
  BY <1>0 DEF Files!Snapshots!DHTypeOK
<1>2. FoldersAreTaken'
  BY <1>0, <1>1 DEF FoldersAreTaken
<1>3. Files!Snapshots!LatestIsWhole'
  BY <1>0, <1>1 DEF Files!Snapshots!LatestIsWhole, Files!Snapshots!PartsOf, Files!Snapshots!DHTypeOK
<1>4. Files!Snapshots!IndexHasItsParts'
  BY <1>0, <1>1 DEF Files!Snapshots!IndexHasItsParts, Files!Snapshots!Complete
<1>5. Files!Snapshots!StagedIsPublishable'
  BY <1>0 DEF Files!Snapshots!StagedIsPublishable, Files!Snapshots!PartsOf
<1> QED
  BY <1>1, <1>2, <1>3, <1>4, <1>5 DEF Files!Snapshots!SnapshotsAreWhole

\* The objects of a folder are put in their order.
LEMMA SnapshotsPuts ==
  ASSUME SnapshotsInv,
         Files!Snapshots!AssembleLevels \/ Files!Snapshots!PutIndex \/ Files!Snapshots!PutPage
  PROVE  SnapshotsInv'
<1> USE DEF Files!Snapshots!local, Files!Snapshots!bucket, Files!Snapshots!Of, Files!Snapshots!Becomes
<1>0. /\ Files!Snapshots!DHTypeOK /\ Files!Snapshots!LatestIsWhole /\ PublishesAreSafe
  BY DEF SnapshotsInv, Files!Snapshots!SnapshotsAreWhole
<1>1. /\ UNCHANGED <<staged, index, taken, up, latest>> /\ snapshot # Nil
      /\ snapshot.kind \in {"sending", "indexing", "paging"}
  BY DEF Files!Snapshots!AssembleLevels, Files!Snapshots!PutIndex, Files!Snapshots!PutPage
<1>2. snapshot \in [kind : {"sending", "indexing", "paging"}, send : SUBSET Parts]
  BY <1>0, <1>1 DEF Files!Snapshots!DHTypeOK, Files!Snapshots!Run
<1>3. CASE Files!Snapshots!AssembleLevels
  <2>1. /\ snapshot.kind = "sending" /\ snapshot' = [snapshot EXCEPT !.kind = "indexing"]
        /\ snapshot.send = {}
        /\ folders' = [folders EXCEPT ![index] = @ \cup {"database"}]
    BY <1>3 DEF Files!Snapshots!AssembleLevels
  <2>2. index # Nil /\ taken[index] \subseteq up
    BY <1>0, <1>1, <2>1 DEF PublishesAreSafe
  <2>3. /\ Files!Snapshots!SnapshotsAreWhole' /\ FoldersAreTaken'
        /\ folders' \in [Files!Snapshots!Snapshots -> SUBSET Files!Snapshots!Objects]
        /\ folders'[index] = folders[index] \cup {"database"}
    BY <1>1, <2>1, <2>2, FolderGrows DEF Files!Snapshots!Objects
  <2>4. Files!Snapshots!DHTypeOK'
    BY <1>0, <1>1, <1>2, <2>1, <2>3 DEF Files!Snapshots!DHTypeOK, Files!Snapshots!Run
  <2>5. snapshot'.kind = "indexing"
    BY <1>2, <2>1
  <2>6. TakesAreSafe' /\ PublishesAreSafe' /\ PrunesAreSafe'
    BY <1>1, <2>2, <2>3, <2>5 DEF TakesAreSafe, PublishesAreSafe, PrunesAreSafe
  <2> QED
    BY <2>3, <2>4, <2>6 DEF SnapshotsInv
<1>4. CASE Files!Snapshots!PutIndex
  <2>1. /\ snapshot.kind = "indexing" /\ snapshot' = [snapshot EXCEPT !.kind = "paging"]
        /\ folders' = [folders EXCEPT ![index] = @ \cup {"index"}]
    BY <1>4 DEF Files!Snapshots!PutIndex
  <2>2. index # Nil /\ taken[index] \subseteq up /\ "database" \in folders[index]
    BY <1>0, <1>1, <2>1 DEF PublishesAreSafe
  <2>3. /\ Files!Snapshots!SnapshotsAreWhole' /\ FoldersAreTaken'
        /\ folders' \in [Files!Snapshots!Snapshots -> SUBSET Files!Snapshots!Objects]
        /\ folders'[index] = folders[index] \cup {"index"}
    BY <1>1, <2>1, <2>2, FolderGrows DEF Files!Snapshots!Objects
  <2>4. Files!Snapshots!DHTypeOK'
    BY <1>0, <1>1, <1>2, <2>1, <2>3 DEF Files!Snapshots!DHTypeOK, Files!Snapshots!Run
  <2>5. snapshot'.kind = "paging"
    BY <1>2, <2>1
  <2>6. TakesAreSafe' /\ PublishesAreSafe' /\ PrunesAreSafe'
    BY <1>1, <2>2, <2>3, <2>5 DEF TakesAreSafe, PublishesAreSafe, PrunesAreSafe
  <2> QED
    BY <2>3, <2>4, <2>6 DEF SnapshotsInv
<1>5. CASE Files!Snapshots!PutPage
  <2>1. /\ snapshot.kind = "paging" /\ snapshot' = [snapshot EXCEPT !.kind = "pointing"]
        /\ folders' = [folders EXCEPT ![index] = @ \cup {"page"}]
    BY <1>5 DEF Files!Snapshots!PutPage
  <2>2. /\ index # Nil /\ taken[index] \subseteq up
        /\ "database" \in folders[index] /\ "index" \in folders[index]
    BY <1>0, <1>1, <2>1 DEF PublishesAreSafe
  <2>3. /\ Files!Snapshots!SnapshotsAreWhole' /\ FoldersAreTaken'
        /\ folders' \in [Files!Snapshots!Snapshots -> SUBSET Files!Snapshots!Objects]
        /\ folders'[index] = folders[index] \cup {"page"}
    BY <1>1, <2>1, <2>2, FolderGrows DEF Files!Snapshots!Objects
  <2>4. Files!Snapshots!DHTypeOK'
    BY <1>0, <1>1, <1>2, <2>1, <2>3 DEF Files!Snapshots!DHTypeOK, Files!Snapshots!Run
  <2>5. snapshot'.kind = "pointing"
    BY <1>2, <2>1
  <2>6. TakesAreSafe' /\ PublishesAreSafe' /\ PrunesAreSafe'
    BY <1>1, <2>2, <2>3, <2>5 DEF TakesAreSafe, PublishesAreSafe, PrunesAreSafe
  <2> QED
    BY <2>3, <2>4, <2>6 DEF SnapshotsInv
<1> QED
  BY <1>3, <1>4, <1>5

\* The pointer moves to a whole snapshot, and a prune leaves what stays whole.
LEMMA SnapshotsPrunes ==
  ASSUME SnapshotsInv,
         \/ Files!Snapshots!WriteLatest \/ Files!Snapshots!PlanPrune
         \/ Files!Snapshots!DeleteFolders \/ Files!Snapshots!DeleteParts
  PROVE  SnapshotsInv'
<1> USE DEF Files!Snapshots!local, Files!Snapshots!bucket, Files!Snapshots!Of, Files!Snapshots!Becomes
<1>0. /\ Files!Snapshots!DHTypeOK /\ Files!Snapshots!LatestIsWhole /\ Files!Snapshots!IndexHasItsParts
      /\ Files!Snapshots!StagedIsPublishable
      /\ FoldersAreTaken /\ PublishesAreSafe /\ PrunesAreSafe
  BY DEF SnapshotsInv, Files!Snapshots!SnapshotsAreWhole
<1>1. UNCHANGED <<staged, index, taken>> /\ snapshot # Nil
  BY DEF Files!Snapshots!WriteLatest, Files!Snapshots!PlanPrune, Files!Snapshots!DeleteFolders,
         Files!Snapshots!DeleteParts
<1>2. CASE Files!Snapshots!WriteLatest
  <2>1. /\ snapshot.kind = "pointing" /\ snapshot' = [snapshot EXCEPT !.kind = "pruning"]
        /\ latest' = index /\ UNCHANGED <<up, folders>>
    BY <1>2 DEF Files!Snapshots!WriteLatest
  <2>2. /\ index # Nil /\ taken[index] \subseteq up
        /\ {"database", "index", "page"} \subseteq folders[index]
    BY <1>0, <1>1, <2>1 DEF PublishesAreSafe
  <2>3. snapshot \in [kind : {"pointing"}, send : SUBSET Parts]
    BY <1>0, <1>1, <2>1 DEF Files!Snapshots!DHTypeOK, Files!Snapshots!Run
  <2>4. index \in Files!Snapshots!Snapshots /\ folders[index] = Files!Snapshots!Objects
    BY <1>0, <2>2 DEF Files!Snapshots!DHTypeOK, Files!Snapshots!Objects
  <2>5. Files!Snapshots!DHTypeOK'
    BY <1>0, <1>1, <2>1, <2>3 DEF Files!Snapshots!DHTypeOK, Files!Snapshots!Run
  <2>6. snapshot'.kind = "pruning"
    BY <2>1, <2>3
  <2>7. TakesAreSafe' /\ PublishesAreSafe' /\ PrunesAreSafe'
    BY <1>1, <2>1, <2>2, <2>6 DEF TakesAreSafe, PublishesAreSafe, PrunesAreSafe
  <2>8. Files!Snapshots!LatestIsWhole'
    BY <1>1, <2>1, <2>2, <2>4 DEF Files!Snapshots!LatestIsWhole, Files!Snapshots!PartsOf
  <2>9. Files!Snapshots!IndexHasItsParts' /\ Files!Snapshots!StagedIsPublishable' /\ FoldersAreTaken'
    BY <1>0, <1>1, <2>1 DEF Files!Snapshots!IndexHasItsParts, Files!Snapshots!StagedIsPublishable,
       FoldersAreTaken, Files!Snapshots!PartsOf, Files!Snapshots!Complete
  <2> QED
    BY <2>5, <2>7, <2>8, <2>9 DEF SnapshotsInv, Files!Snapshots!SnapshotsAreWhole
<1>3. CASE Files!Snapshots!PlanPrune
  <2>1. /\ snapshot.kind = "pruning" /\ UNCHANGED <<up, folders, latest>>
        /\ snapshot' = [kind |-> "deleting", old |-> Files!Snapshots!OldFolders,
                        orphans |-> up \ Files!Snapshots!KeptParts]
    BY <1>3 DEF Files!Snapshots!PlanPrune
  <2>2. latest \notin Files!Snapshots!OldFolders /\ Files!Snapshots!OldFolders \subseteq Files!Snapshots!Snapshots
    BY DEF Files!Snapshots!OldFolders, Files!Snapshots!KeptStamps
  <2>3. \A s \in Files!Snapshots!Complete \ Files!Snapshots!OldFolders :
          taken[s] \cap (up \ Files!Snapshots!KeptParts) = {}
    <3>1. ASSUME NEW s \in Files!Snapshots!Complete \ Files!Snapshots!OldFolders
          PROVE  s \in Files!Snapshots!KeptStamps
      BY DEF Files!Snapshots!OldFolders, Files!Snapshots!Complete
    <3> QED
      BY <3>1 DEF Files!Snapshots!KeptParts
  <2>4. Files!Snapshots!DHTypeOK'
    BY <1>0, <1>1, <2>1, <2>2 DEF Files!Snapshots!DHTypeOK, Files!Snapshots!Run
  <2>5. Files!Snapshots!Complete' = Files!Snapshots!Complete
    BY <2>1 DEF Files!Snapshots!Complete
  <2>6. TakesAreSafe' /\ PublishesAreSafe' /\ PrunesAreSafe'
    BY <1>0, <1>1, <2>1, <2>2, <2>3, <2>5 DEF TakesAreSafe, PublishesAreSafe, PrunesAreSafe
  <2>7. Files!Snapshots!PartsOf(index) \subseteq staged \cup up
    BY <1>0 DEF Files!Snapshots!StagedIsPublishable
  <2> QED
    BY <1>1, <2>1, <2>4, <2>6, <2>7, SnapshotsRest DEF SnapshotsInv
<1>4. CASE Files!Snapshots!DeleteFolders
  <2>1. /\ snapshot.kind = "deleting" /\ UNCHANGED <<up, latest>>
    BY <1>4 DEF Files!Snapshots!DeleteFolders
  <2>2. snapshot \in [kind : {"deleting"}, old : SUBSET Files!Snapshots!Snapshots, orphans : SUBSET Parts]
    BY <1>0, <1>1, <2>1 DEF Files!Snapshots!DHTypeOK, Files!Snapshots!Run
  <2>3. /\ index # Nil /\ latest = index /\ latest \notin snapshot.old
        /\ \A s \in Files!Snapshots!Complete \ snapshot.old : taken[s] \cap snapshot.orphans = {}
    BY <1>0, <1>1, <2>1 DEF PrunesAreSafe
  <2>4. /\ folders' \in [Files!Snapshots!Snapshots -> SUBSET Files!Snapshots!Objects]
        /\ \A s \in Files!Snapshots!Snapshots : folders'[s] \subseteq folders[s]
        /\ \A s \in Files!Snapshots!Snapshots \ snapshot.old : folders'[s] = folders[s]
    BY <1>0, <1>4 DEF Files!Snapshots!DeleteFolders, Files!Snapshots!DHTypeOK
  <2>5. \/ snapshot' = Nil
        \/ /\ snapshot' = [snapshot EXCEPT !.kind = "sweeping"]
           /\ \A s \in snapshot.old : folders'[s] = {}
    BY <1>4, <2>2 DEF Files!Snapshots!DeleteFolders
  <2>6. Files!Snapshots!DHTypeOK'
    BY <1>0, <1>1, <2>1, <2>2, <2>4, <2>5 DEF Files!Snapshots!DHTypeOK, Files!Snapshots!Run
  <2>7. Files!Snapshots!LatestIsWhole'
    BY <1>0, <1>1, <2>1, <2>3, <2>4 DEF Files!Snapshots!LatestIsWhole, Files!Snapshots!PartsOf, Files!Snapshots!DHTypeOK
  <2>8. Files!Snapshots!IndexHasItsParts' /\ Files!Snapshots!StagedIsPublishable' /\ FoldersAreTaken'
    BY <1>0, <1>1, <2>1, <2>4 DEF Files!Snapshots!IndexHasItsParts, Files!Snapshots!StagedIsPublishable,
       FoldersAreTaken, Files!Snapshots!PartsOf, Files!Snapshots!Complete
  <2>9. TakesAreSafe' /\ PublishesAreSafe' /\ PrunesAreSafe'
    <3>1. CASE snapshot' = Nil
      BY <3>1 DEF TakesAreSafe, PublishesAreSafe, PrunesAreSafe
    <3>2. CASE /\ snapshot' = [snapshot EXCEPT !.kind = "sweeping"]
               /\ \A s \in snapshot.old : folders'[s] = {}
      <4>1. snapshot'.kind = "sweeping" /\ snapshot'.orphans = snapshot.orphans
        BY <2>2, <3>2
      <4>2. Files!Snapshots!Complete' \subseteq Files!Snapshots!Complete \ snapshot.old
        BY <2>4, <3>2 DEF Files!Snapshots!Complete
      <4> QED
        BY <1>1, <2>1, <2>3, <4>1, <4>2 DEF TakesAreSafe, PublishesAreSafe, PrunesAreSafe
    <3> QED
      BY <2>5, <3>1, <3>2
  <2> QED
    BY <2>6, <2>7, <2>8, <2>9 DEF SnapshotsInv, Files!Snapshots!SnapshotsAreWhole
<1>5. CASE Files!Snapshots!DeleteParts
  <2>1. /\ snapshot.kind = "sweeping" /\ UNCHANGED <<folders, latest>> /\ snapshot' = Nil
        /\ up' \subseteq up /\ up \ snapshot.orphans \subseteq up'
    BY <1>5 DEF Files!Snapshots!DeleteParts
  <2>2. /\ index # Nil /\ latest = index
        /\ \A s \in Files!Snapshots!Complete : taken[s] \cap snapshot.orphans = {}
    BY <1>0, <1>1, <2>1 DEF PrunesAreSafe
  <2>3. latest \in Files!Snapshots!Complete
    BY <1>0, <2>2 DEF Files!Snapshots!LatestIsWhole, Files!Snapshots!Complete, Files!Snapshots!DHTypeOK, Files!Snapshots!Objects
  <2>4. \A s \in Files!Snapshots!Complete : taken[s] \subseteq up'
    BY <1>0, <2>1, <2>2 DEF Files!Snapshots!IndexHasItsParts
  <2>5. Files!Snapshots!DHTypeOK'
    BY <1>0, <1>1, <2>1 DEF Files!Snapshots!DHTypeOK
  <2>6. Files!Snapshots!LatestIsWhole' /\ Files!Snapshots!StagedIsPublishable'
    BY <1>0, <1>1, <2>1, <2>2, <2>3, <2>4 DEF Files!Snapshots!LatestIsWhole, Files!Snapshots!StagedIsPublishable, Files!Snapshots!PartsOf
  <2>7. Files!Snapshots!IndexHasItsParts' /\ FoldersAreTaken'
    BY <1>0, <1>1, <2>1, <2>4 DEF Files!Snapshots!IndexHasItsParts, FoldersAreTaken, Files!Snapshots!Complete
  <2>8. TakesAreSafe' /\ PublishesAreSafe' /\ PrunesAreSafe'
    BY <2>1 DEF TakesAreSafe, PublishesAreSafe, PrunesAreSafe
  <2> QED
    BY <2>5, <2>6, <2>7, <2>8 DEF SnapshotsInv, Files!Snapshots!SnapshotsAreWhole
<1> QED
  BY <1>2, <1>3, <1>4, <1>5

\* No step of a run, cut off or not, breaks it (dhsnapshot_publish.go).
LEMMA SnapshotsStep ==
  SnapshotsInv /\ [Files!Snapshots!DHNext]_(Files!snapshotVars) => SnapshotsInv'
<1> SUFFICES ASSUME SnapshotsInv, [Files!Snapshots!DHNext]_(Files!snapshotVars) PROVE SnapshotsInv'
  OBVIOUS
<1>1. CASE UNCHANGED Files!snapshotVars
  BY <1>1 DEF Files!snapshotVars, SnapshotsInv, Files!Snapshots!DHTypeOK, Files!Snapshots!SnapshotsAreWhole,
     Files!Snapshots!LatestIsWhole, Files!Snapshots!IndexHasItsParts, Files!Snapshots!StagedIsPublishable,
     Files!Snapshots!PartsOf, Files!Snapshots!Complete, FoldersAreTaken, TakesAreSafe, PublishesAreSafe, PrunesAreSafe
<1>2. CASE Files!Snapshots!DHNext
  BY <1>2, SnapshotsTakes, SnapshotsIndexed, SnapshotsSends, SnapshotsPuts, SnapshotsPrunes
  DEF Files!Snapshots!DHNext
<1> QED
  BY <1>1, <1>2

-----------------------------------------------------------------------------
(****************************************************************************)
(* The link they are published under (dhsnapshot_move.go), with one prefix: *)
(* with two, a base that is live again may still be on record as stale.     *)
(****************************************************************************)
LTokens == 0 .. MaxLinkTokens
LBases == LinkPrefixes \X LTokens
LVersions == 1 .. MaxVersions
LObjects == {"page", "index", "database"}
LChanges == [stage : {"page", "index", "database", "pointer", "commit", "drop"}, to : LTokens,
             moved : BOOLEAN, left : SUBSET LBases, kept : SUBSET LBases]
LLinks == [token : LTokens, pending : LTokens, prefix : LinkPrefixes \cup {Nil}, stale : SUBSET LBases]

\* What is assumed of the constants, by the names used here.
LEMMA LinkConstants ==
  {MaxLinkTokens, MaxVersions} \subseteq Nat /\ Nil \notin LinkPrefixes \cup LChanges
BY LinkAssumption DEF LChanges, LBases, LTokens


\* One destination's snapshots are published under one prefix.
OnePrefix == \A p, q \in LinkPrefixes : p = q

LinkTypes ==
  /\ link \in LLinks
  /\ objects \in [LBases -> SUBSET (LVersions \X LObjects)]
  /\ pointer \in [LBases -> LVersions \cup {0}]
  /\ tokensMade \in LTokens /\ published \in LVersions \cup {0}
  /\ publishing \subseteq [prefix : LinkPrefixes, wrote : BOOLEAN]
  /\ change \in LChanges \cup {Nil}
  /\ tokensUsed \subseteq LTokens /\ missed \subseteq LBases
  /\ newest \in [LinkPrefixes -> LVersions \cup {0}]
  /\ link.token <= tokensMade /\ link.pending <= tokensMade /\ link.token \in tokensUsed

LinkLive == <<link.prefix, link.token>>
LinkTarget(c) == <<link.prefix, c.to>>

\* The live link is not on record to be deleted, and a first publish has none there.
StaleIsOld ==
  /\ \A b \in link.stale : b[2] # link.token
  /\ link.prefix = Nil => link.stale = {}

\* A publish goes on alone, and what it wrote is what the live link will show.
PublishIsLive ==
  /\ \A x, y \in publishing : x = y
  /\ change # Nil => publishing = {}
  /\ \A x \in publishing : x.wrote =>
       /\ newest[x.prefix] # 0
       /\ pointer[<<x.prefix, link.token>>] = newest[x.prefix]

\* What a change has copied, shown and noted by its stage.
ChangeShape(c) ==
  /\ c.to <= tokensMade
  /\ c.stage # "drop" => c.to # link.token /\ c.kept = {}
  /\ c.stage \notin {"commit", "drop"} => link.prefix # Nil /\ ~ c.moved
  /\ c.moved /\ c.stage = "commit" => link.prefix # Nil
  /\ c.stage = "commit" /\ link.prefix # Nil =>
       c.moved /\ pointer[LinkTarget(c)] = pointer[LinkLive]
  /\ c.stage \in {"index", "database", "pointer"} =>
       <<pointer[LinkLive], "page">> \in objects[LinkTarget(c)]
  /\ c.stage \in {"database", "pointer"} => <<pointer[LinkLive], "index">> \in objects[LinkTarget(c)]
  /\ c.stage = "pointer" => <<pointer[LinkLive], "database">> \in objects[LinkTarget(c)]
  /\ c.stage = "drop" => /\ c.left \cup c.kept \subseteq link.stale
                         /\ \A b \in link.stale \ (c.left \cup c.kept) : pointer[b] = 0
ChangeGoes == change \in LChanges => ChangeShape(change)

LinkInv ==
  /\ LinkTypes /\ StaleIsOld /\ PublishIsLive /\ ChangeGoes
  /\ Files!Snapshots!LinkMovesSafely

\* LodSnapshots' sets, by the names used here.
LEMMA LinkSets ==
  /\ Files!Snapshots!Bases = LBases /\ Files!Snapshots!Versions = LVersions
  /\ Files!Snapshots!LinkObjects = LObjects /\ Files!Snapshots!Tokens = LTokens
  /\ Files!Snapshots!Live = LinkLive /\ Files!Snapshots!Target = LinkTarget(change)
BY DEF Files!Snapshots!Bases, Files!Snapshots!Versions, Files!Snapshots!LinkObjects, Files!Snapshots!Tokens,
   Files!Snapshots!Live, Files!Snapshots!Target, LBases, LVersions, LObjects, LTokens, LinkLive, LinkTarget

\* A base is a prefix and a token, and neither is Nil.
LEMMA LinkBases ==
  /\ \A p \in LinkPrefixes, t \in LTokens : <<p, t>> \in LBases /\ <<p, t>>[1] = p /\ <<p, t>>[2] = t
  /\ \A b \in LBases : b[1] \in LinkPrefixes /\ b[2] \in LTokens /\ b = <<b[1], b[2]>>
  /\ \A b \in LBases : \A t : b # <<Nil, t>>
BY LinkConstants DEF LBases

\* A link that moves keeps what it showed (dhsnapshot_move.go).
LEMMA LinkPromise == LinkInv => Files!Snapshots!LinkTypeOK /\ Files!Snapshots!LinkMovesSafely
BY LinkSets DEF LinkInv, LinkTypes, Files!Snapshots!LinkTypeOK, Files!Snapshots!Stages, LLinks, LChanges

\* The link is public, and nothing was published.
LEMMA LinkStart == Files!Snapshots!LinkInit => LinkInv
<1> SUFFICES ASSUME Files!Snapshots!LinkInit PROVE LinkInv
  OBVIOUS
<1>1. /\ link = [token |-> 0, pending |-> 0, prefix |-> Nil, stale |-> {}]
      /\ objects = [b \in LBases |-> {}] /\ pointer = [b \in LBases |-> 0]
      /\ tokensMade = 0 /\ published = 0 /\ publishing = {} /\ change = Nil
      /\ tokensUsed = {0} /\ newest = [p \in LinkPrefixes |-> 0] /\ missed = {}
  BY LinkSets DEF Files!Snapshots!LinkInit
<1>2. 0 \in LTokens
  BY LinkConstants DEF LTokens
<1>3. link \in LLinks /\ link.token = 0 /\ link.pending = 0 /\ link.prefix = Nil /\ link.stale = {}
  BY <1>1, <1>2 DEF LLinks
<1>4. LinkTypes
  BY <1>1, <1>2, <1>3 DEF LinkTypes
<1>5. Files!Snapshots!LinkMovesSafely
  BY <1>1, <1>3, LinkSets DEF Files!Snapshots!LinkMovesSafely, Files!Snapshots!LinksAreWhole,
     Files!Snapshots!LiveLinkWorks, Files!Snapshots!OldLinksAreNoted
<1> QED
  BY <1>1, <1>3, <1>4, <1>5, LinkConstants DEF LinkInv, StaleIsOld, PublishIsLive, ChangeGoes

\* A publish shows its snapshot under the live link.
LEMMA LinkPublishes ==
  ASSUME OnePrefix, LinkInv,
         \/ \E prefix \in LinkPrefixes : Files!Snapshots!PublishBegins(prefix)
         \/ \E p \in publishing : Files!Snapshots!PublishWrites(p) \/ Files!Snapshots!PublishEnds(p)
  PROVE  LinkInv'
<1>0. /\ LinkTypes /\ StaleIsOld /\ PublishIsLive /\ Files!Snapshots!LinksAreWhole
      /\ Files!Snapshots!LiveLinkWorks /\ Files!Snapshots!OldLinksAreNoted
  BY DEF LinkInv, Files!Snapshots!LinkMovesSafely
<1>1. change = Nil /\ change' = Nil /\ change' \notin LChanges
  <2>1. UNCHANGED change /\ (change = Nil \/ publishing # {})
    BY DEF Files!Snapshots!PublishBegins, Files!Snapshots!PublishWrites, Files!Snapshots!PublishEnds
  <2> QED
    BY <1>0, <2>1, LinkConstants DEF PublishIsLive
<1>2. ChangeGoes'
  BY <1>1 DEF ChangeGoes
<1>3. ASSUME NEW prefix \in LinkPrefixes, Files!Snapshots!PublishBegins(prefix)
      PROVE  LinkInv'
  <2>1. /\ \A x \in publishing : x.prefix # prefix
        /\ publishing' = publishing \cup {[prefix |-> prefix, wrote |-> FALSE]}
        /\ UNCHANGED <<link, objects, pointer, tokensMade, tokensUsed, missed, published, newest>>
    BY <1>3 DEF Files!Snapshots!PublishBegins, Files!Snapshots!linkBucket, Files!Snapshots!tokens,
       Files!Snapshots!snapshots
  <2>2. publishing = {}
    BY <1>0, <2>1 DEF OnePrefix, LinkTypes
  <2>3. LinkTypes' /\ StaleIsOld'
    <3>1. [prefix |-> prefix, wrote |-> FALSE] \in [prefix : LinkPrefixes, wrote : BOOLEAN]
      OBVIOUS
    <3>2. publishing' \subseteq [prefix : LinkPrefixes, wrote : BOOLEAN]
      BY <2>1, <2>2, <3>1
    <3> QED
      BY <1>0, <1>1, <2>1, <3>2 DEF LinkTypes, StaleIsOld
  <2>4. PublishIsLive'
    BY <1>0, <1>1, <2>1, <2>2 DEF PublishIsLive
  <2>5. Files!Snapshots!LinkMovesSafely'
    BY <1>0, <2>1 DEF Files!Snapshots!LinkMovesSafely, Files!Snapshots!LinksAreWhole,
       Files!Snapshots!LiveLinkWorks, Files!Snapshots!OldLinksAreNoted, Files!Snapshots!Live
  <2> QED
    BY <1>2, <2>3, <2>4, <2>5 DEF LinkInv
<1>4. ASSUME NEW x \in publishing, Files!Snapshots!PublishWrites(x)
      PROVE  LinkInv'
  <2> DEFINE base == <<x.prefix, link.token>>
             version == published + 1
  <2>0. /\ x.prefix \in LinkPrefixes /\ link.token \in LTokens /\ base \in LBases
        /\ x \in [prefix : LinkPrefixes, wrote : BOOLEAN] /\ base[2] = link.token
    BY <1>0, LinkBases DEF LinkTypes, LLinks
  <2>1. /\ published < MaxVersions /\ published' = version
        /\ objects' = [objects EXCEPT ![base] = @ \cup ({version} \X LObjects)]
        /\ pointer' = [pointer EXCEPT ![base] = version]
        /\ newest' = [newest EXCEPT ![x.prefix] = version]
        /\ publishing' = (publishing \ {x}) \cup {[x EXCEPT !.wrote = TRUE]}
        /\ UNCHANGED <<link, tokensMade, tokensUsed, missed, change>>
    BY <1>4, LinkSets DEF Files!Snapshots!PublishWrites, Files!Snapshots!tokens
  <2>2. version \in LVersions /\ version # 0
    BY <1>0, <2>1, LinkConstants DEF LinkTypes, LVersions
  <2>3. PICK e : e = [x EXCEPT !.wrote = TRUE]
    OBVIOUS
  <2>4. e \in [prefix : LinkPrefixes, wrote : BOOLEAN] /\ e.prefix = x.prefix /\ publishing' = {e}
    BY <1>0, <2>0, <2>1, <2>3 DEF PublishIsLive
  <2> HIDE DEF version
  <2>5. {version} \X LObjects \subseteq LVersions \X LObjects
    BY <2>2
  <2>6. /\ objects' \in [LBases -> SUBSET (LVersions \X LObjects)]
        /\ objects'[base] = objects[base] \cup ({version} \X LObjects)
        /\ \A b \in LBases \ {base} : objects'[b] = objects[b]
    <3>1. objects \in [LBases -> SUBSET (LVersions \X LObjects)]
      BY <1>0 DEF LinkTypes
    <3> QED
      BY <2>0, <2>1, <2>5, <3>1
  <2>7. /\ pointer' \in [LBases -> LVersions \cup {0}] /\ pointer'[base] = version
        /\ \A b \in LBases \ {base} : pointer'[b] = pointer[b]
        /\ newest' \in [LinkPrefixes -> LVersions \cup {0}] /\ newest'[x.prefix] = version
    BY <1>0, <2>0, <2>1, <2>2 DEF LinkTypes
  <2>8. LinkTypes'
    BY <1>0, <2>1, <2>2, <2>4, <2>6, <2>7 DEF LinkTypes
  <2>9. StaleIsOld' /\ PublishIsLive'
    BY <1>0, <1>1, <2>1, <2>2, <2>4, <2>7 DEF StaleIsOld, PublishIsLive
  <2>10. Files!Snapshots!LinksAreWhole'
    <3> SUFFICES ASSUME NEW b \in LBases, pointer'[b] # 0
                 PROVE  {pointer'[b]} \X LObjects \subseteq objects'[b]
      BY LinkSets DEF Files!Snapshots!LinksAreWhole, Files!Snapshots!LinkObjects, Files!Snapshots!Bases, LBases, LTokens, LObjects, Files!Snapshots!Tokens
    <3>1. CASE b = base
      BY <2>6, <2>7, <3>1
    <3>2. CASE b # base
      BY <1>0, <2>6, <2>7, <3>2, LinkSets DEF Files!Snapshots!LinksAreWhole
    <3> QED
      BY <3>1, <3>2
  <2>11. Files!Snapshots!LiveLinkWorks'
    <3> SUFFICES ASSUME link.prefix # Nil
                 PROVE  /\ pointer'[LinkLive] = newest'[link.prefix] /\ newest'[link.prefix] # 0
                        /\ LinkLive \notin link.stale
      BY <2>1 DEF Files!Snapshots!LiveLinkWorks, LinkLive, Files!Snapshots!Live
    <3>1. link.prefix = x.prefix
      BY <1>0, <2>0 DEF OnePrefix, LinkTypes, LLinks
    <3> QED
      BY <1>0, <2>0, <2>2, <2>7, <3>1 DEF StaleIsOld, LinkLive
  <2>12. Files!Snapshots!OldLinksAreNoted'
    BY <1>0, <2>0, <2>1, <2>7, LinkSets DEF Files!Snapshots!OldLinksAreNoted, Files!Snapshots!Bases, Files!Snapshots!Tokens
  <2> QED
    BY <1>2, <2>8, <2>9, <2>10, <2>11, <2>12 DEF LinkInv, Files!Snapshots!LinkMovesSafely
<1>5. ASSUME NEW x \in publishing, Files!Snapshots!PublishEnds(x)
      PROVE  LinkInv'
  <2>1. /\ publishing' = publishing \ {x}
        /\ (x.wrote /\ link' = [link EXCEPT !.prefix = x.prefix]) \/ UNCHANGED link
        /\ UNCHANGED <<objects, pointer, tokensMade, tokensUsed, missed, published, newest>>
    BY <1>5 DEF Files!Snapshots!PublishEnds, Files!Snapshots!linkBucket, Files!Snapshots!tokens,
       Files!Snapshots!snapshots
  <2>2. publishing' = {} /\ x.prefix \in LinkPrefixes /\ link \in LLinks
    BY <1>0, <2>1 DEF PublishIsLive, LinkTypes
  <2>3. /\ link' \in LLinks /\ link'.token = link.token /\ link'.pending = link.pending
        /\ link'.stale = link.stale
        /\ link'.prefix = link.prefix \/ (x.wrote /\ link'.prefix = x.prefix)
    BY <2>1, <2>2 DEF LLinks
  <2>4. LinkTypes'
    BY <1>0, <1>1, <2>1, <2>2, <2>3 DEF LinkTypes
  <2>5. StaleIsOld' /\ PublishIsLive'
    BY <1>0, <2>2, <2>3, LinkConstants DEF StaleIsOld, PublishIsLive
  <2>6. Files!Snapshots!LiveLinkWorks'
    <3> SUFFICES ASSUME link'.prefix # Nil
                 PROVE  /\ pointer[<<link'.prefix, link.token>>] = newest[link'.prefix]
                        /\ newest[link'.prefix] # 0
                        /\ <<link'.prefix, link.token>> \notin link.stale
      BY <2>1, <2>3 DEF Files!Snapshots!LiveLinkWorks, Files!Snapshots!Live
    <3>1. <<link'.prefix, link.token>> \notin link.stale
      BY <1>0 DEF StaleIsOld
    <3>2. CASE link'.prefix = link.prefix
      BY <1>0, <3>1, <3>2 DEF Files!Snapshots!LiveLinkWorks, Files!Snapshots!Live
    <3>3. CASE x.wrote /\ link'.prefix = x.prefix
      BY <1>0, <3>1, <3>3 DEF PublishIsLive
    <3> QED
      BY <2>3, <3>2, <3>3
  <2>7. Files!Snapshots!LinksAreWhole' /\ Files!Snapshots!OldLinksAreNoted'
    BY <1>0, <2>1, <2>3 DEF Files!Snapshots!LinksAreWhole, Files!Snapshots!OldLinksAreNoted
  <2> QED
    BY <1>2, <2>4, <2>5, <2>6, <2>7 DEF LinkInv, Files!Snapshots!LinkMovesSafely
<1> QED
  BY <1>3, <1>4, <1>5

\* SetSnapshotLinkPrivate and RotateSnapshotLink begin a change.
LEMMA LinkChangeBegins ==
  ASSUME LinkInv, Files!Snapshots!Asked
  PROVE  LinkInv'
<1>0. /\ LinkTypes /\ StaleIsOld /\ PublishIsLive /\ Files!Snapshots!LinksAreWhole
      /\ Files!Snapshots!LiveLinkWorks /\ Files!Snapshots!OldLinksAreNoted
  BY DEF LinkInv, Files!Snapshots!LinkMovesSafely
<1>1. /\ change = Nil /\ publishing = {} /\ publishing' = {}
      /\ UNCHANGED <<objects, pointer, tokensUsed, missed, published, newest>>
  BY DEF Files!Snapshots!Asked, Files!Snapshots!linkBucket, Files!Snapshots!snapshots
<1>2. /\ link \in LLinks /\ link.token \in Nat /\ tokensMade \in Nat /\ 0 <= tokensMade /\ 0 \in LTokens
      /\ link.token \in LTokens /\ link.pending \in LTokens /\ link.stale \subseteq LBases
      /\ link.token <= tokensMade /\ link.pending <= tokensMade /\ link.token # tokensMade + 1
  BY <1>0, LinkConstants DEF LinkTypes, LLinks, LTokens
<1>3. \E stage \in {"page", "commit", "drop"}, to \in LTokens :
        /\ Files!Snapshots!Starts(stage, to)
        /\ stage # "drop" => stage = Files!Snapshots!FirstStage /\ to # link.token
        /\ to <= tokensMade'
        /\ tokensMade' \in LTokens /\ tokensMade <= tokensMade'
        /\ \/ UNCHANGED link
           \/ link' = [link EXCEPT !.pending = tokensMade'] 
  <2>0. Files!Snapshots!FirstStage \in {"page", "commit"}
    BY DEF Files!Snapshots!FirstStage
  <2>1. CASE /\ link.pending \notin {0, link.token} /\ UNCHANGED <<link, tokensMade>>
             /\ Files!Snapshots!Starts(Files!Snapshots!FirstStage, link.pending)
    BY <1>0, <1>2, <2>0, <2>1 DEF LinkTypes
  <2>2. CASE /\ tokensMade < MaxLinkTokens /\ tokensMade' = tokensMade + 1
             /\ link' = [link EXCEPT !.pending = tokensMade + 1]
             /\ Files!Snapshots!Starts(Files!Snapshots!FirstStage, tokensMade + 1)
    <3>1. tokensMade + 1 \in LTokens
      BY <1>2, <2>2, LinkConstants DEF LTokens
    <3> QED
      BY <1>2, <2>0, <2>2, <3>1
  <2>3. CASE /\ UNCHANGED <<link, tokensMade>>
             /\ Files!Snapshots!Starts(IF link.token = 0 THEN "drop" ELSE Files!Snapshots!FirstStage, 0)
    BY <1>0, <1>2, <2>0, <2>3 DEF LinkTypes
  <2>4. CASE /\ UNCHANGED <<link, tokensMade>> /\ Files!Snapshots!Starts("drop", link.token)
    BY <1>0, <1>2, <2>4 DEF LinkTypes
  <2> QED
    BY <2>1, <2>2, <2>3, <2>4 DEF Files!Snapshots!Asked, Files!Snapshots!ToPrivate
<1>4. PICK stage \in {"page", "commit", "drop"}, to \in LTokens :
        /\ Files!Snapshots!Starts(stage, to)
        /\ stage # "drop" => stage = Files!Snapshots!FirstStage /\ to # link.token
        /\ to <= tokensMade'
        /\ tokensMade' \in LTokens /\ tokensMade <= tokensMade'
        /\ UNCHANGED link \/ link' = [link EXCEPT !.pending = tokensMade']
  BY <1>3
<1>5. PICK c : c = [stage |-> stage, to |-> to, moved |-> FALSE, kept |-> {},
                    left |-> IF stage = "drop" THEN link.stale ELSE {}]
  OBVIOUS
<1>6. /\ c \in LChanges /\ change' = c /\ c.stage = stage /\ c.to = to /\ ~ c.moved /\ c.kept = {}
      /\ stage = "drop" => c.left = link.stale
  BY <1>2, <1>4, <1>5 DEF Files!Snapshots!Starts, LChanges
<1>7. /\ link' \in LLinks /\ link'.token = link.token /\ link'.prefix = link.prefix /\ link'.stale = link.stale
      /\ link'.pending <= tokensMade'
  <2>1. CASE UNCHANGED link
    BY <1>2, <1>4, <2>1 DEF LTokens
  <2>2. CASE link' = [link EXCEPT !.pending = tokensMade']
    BY <1>2, <1>4, <2>2 DEF LTokens, LLinks
  <2> QED
    BY <1>4, <2>1, <2>2
<1>8. LinkTypes'
  <2>1. link.token <= tokensMade'
    BY <1>2, <1>4 DEF LTokens
  <2> QED
    BY <1>0, <1>1, <1>4, <1>6, <1>7, <2>1 DEF LinkTypes
<1>9. StaleIsOld' /\ PublishIsLive'
  BY <1>0, <1>1, <1>7 DEF StaleIsOld, PublishIsLive
<1>10. stage = "page" => link.prefix # Nil
  BY <1>4 DEF Files!Snapshots!FirstStage
<1>11. stage = "commit" => link.prefix = Nil
  BY <1>0, <1>4 DEF Files!Snapshots!FirstStage, Files!Snapshots!LiveLinkWorks
<1>12. ChangeGoes'
  BY <1>4, <1>6, <1>7, <1>10, <1>11 DEF ChangeGoes, ChangeShape
<1>13. Files!Snapshots!LinkMovesSafely'
  BY <1>0, <1>1, <1>7 DEF Files!Snapshots!LinkMovesSafely, Files!Snapshots!LinksAreWhole,
     Files!Snapshots!LiveLinkWorks, Files!Snapshots!OldLinksAreNoted, Files!Snapshots!Live
<1> QED
  BY <1>8, <1>9, <1>12, <1>13 DEF LinkInv

\* An object of the live snapshot is copied to the base the link moves to.
LEMMA LinkCopies ==
  ASSUME LinkInv, Files!Snapshots!MoveObject
  PROVE  LinkInv'
<1>0. /\ LinkTypes /\ StaleIsOld /\ PublishIsLive /\ Files!Snapshots!LinksAreWhole
      /\ Files!Snapshots!LiveLinkWorks /\ Files!Snapshots!OldLinksAreNoted
  BY DEF LinkInv, Files!Snapshots!LinkMovesSafely
<1>1. /\ change # Nil /\ UNCHANGED <<link, pointer, tokensMade, tokensUsed, missed, published, newest, publishing>>
      /\ change.stage \in {"page", "index", "database"}
  BY DEF Files!Snapshots!MoveObject, Files!Snapshots!At, Files!Snapshots!tokens, Files!Snapshots!snapshots
<1>2. PICK c : c = change
  OBVIOUS
<1>3. c \in LChanges /\ ChangeShape(c) /\ link.prefix # Nil /\ link \in LLinks
  BY <1>0, <1>1, <1>2 DEF LinkTypes, LinkInv, ChangeGoes, ChangeShape
<1>4. LinkTarget(c) \in LBases /\ LinkLive \in LBases /\ pointer[LinkLive] # 0
  BY <1>0, <1>3, LinkBases DEF LLinks, LChanges, LinkTarget, LinkLive, Files!Snapshots!LiveLinkWorks, Files!Snapshots!Live
<1>5. pointer[LinkLive] \in LVersions
  BY <1>0, <1>4 DEF LinkTypes
<1> DEFINE kind == c.stage
           next == IF kind = "page" THEN "index" ELSE IF kind = "index" THEN "database" ELSE "pointer"
<1>6. /\ objects' = [objects EXCEPT ![LinkTarget(c)] = @ \cup {<<pointer[LinkLive], kind>>}]
      /\ change' = [c EXCEPT !.stage = next]
  BY <1>2, LinkSets DEF Files!Snapshots!MoveObject, Files!Snapshots!At, Files!Snapshots!Puts, Files!Snapshots!Then
<1>7. PICK d : d = change'
  OBVIOUS
<1>8. /\ d \in LChanges /\ d.stage = next /\ d.to = c.to /\ (d.moved <=> c.moved) /\ d.kept = c.kept
      /\ d # Nil
  BY <1>3, <1>6, <1>7, LinkConstants DEF LChanges
<1>9. /\ objects' \in [LBases -> SUBSET (LVersions \X LObjects)]
      /\ \A b \in LBases : objects[b] \subseteq objects'[b]
      /\ <<pointer[LinkLive], kind>> \in objects'[LinkTarget(c)]
  <2>1. objects \in [LBases -> SUBSET (LVersions \X LObjects)]
    BY <1>0 DEF LinkTypes
  <2>2. <<pointer[LinkLive], kind>> \in LVersions \X LObjects
    BY <1>1, <1>2, <1>5 DEF LObjects
  <2> QED
    BY <1>4, <1>6, <2>1, <2>2
<1>10. LinkTypes' /\ StaleIsOld' /\ PublishIsLive'
  BY <1>0, <1>1, <1>7, <1>8, <1>9 DEF LinkTypes, StaleIsOld, PublishIsLive
<1>11. ChangeShape(d)'
  <2>1. LinkTarget(d) = LinkTarget(c) /\ LinkTarget(d)' = LinkTarget(d) /\ LinkLive' = LinkLive
    BY <1>1, <1>8 DEF LinkTarget, LinkLive
  <2>2. /\ next \in {"index", "database", "pointer"} /\ kind \in {"page", "index", "database"}
        /\ next = "index" <=> kind = "page"
        /\ next = "database" <=> kind = "index"
        /\ next = "pointer" <=> kind = "database"
    BY <1>1, <1>2
  <2>3. /\ c.to <= tokensMade /\ c.to # link.token /\ c.kept = {} /\ ~ c.moved
        /\ kind \in {"index", "database", "pointer"} => <<pointer[LinkLive], "page">> \in objects'[LinkTarget(c)]
        /\ kind \in {"database", "pointer"} => <<pointer[LinkLive], "index">> \in objects'[LinkTarget(c)]
    BY <1>3, <1>4, <1>9, <2>2 DEF ChangeShape
  <2> HIDE DEF kind, next
  <2> QED
    BY <1>1, <1>3, <1>8, <1>9, <2>1, <2>2, <2>3 DEF ChangeShape
<1>12. Files!Snapshots!LinkMovesSafely'
  <2>1. Files!Snapshots!LinksAreWhole'
    BY <1>0, <1>1, <1>9, LinkSets DEF Files!Snapshots!LinksAreWhole, Files!Snapshots!Bases, Files!Snapshots!Tokens
  <2> QED
    BY <1>0, <1>1, <2>1 DEF Files!Snapshots!LinkMovesSafely, Files!Snapshots!LiveLinkWorks,
       Files!Snapshots!OldLinksAreNoted, Files!Snapshots!Live
<1>13. ChangeGoes'
  BY <1>7, <1>11 DEF ChangeGoes, ChangeShape
<1> QED
  BY <1>10, <1>12, <1>13 DEF LinkInv

\* The pointer of the new base is written when its objects are there.
LEMMA LinkShows ==
  ASSUME LinkInv, Files!Snapshots!MovePointer
  PROVE  LinkInv'
<1>0. /\ LinkTypes /\ StaleIsOld /\ PublishIsLive /\ Files!Snapshots!LinksAreWhole
      /\ Files!Snapshots!LiveLinkWorks /\ Files!Snapshots!OldLinksAreNoted
  BY DEF LinkInv, Files!Snapshots!LinkMovesSafely
<1>1. /\ change # Nil /\ change.stage = "pointer"
      /\ UNCHANGED <<link, objects, tokensMade, tokensUsed, published, newest, publishing>>
  BY DEF Files!Snapshots!MovePointer, Files!Snapshots!At, Files!Snapshots!snapshots
<1>2. PICK c : c = change
  OBVIOUS
<1>3. c \in LChanges /\ ChangeShape(c) /\ link \in LLinks
  BY <1>0, <1>1, <1>2 DEF LinkTypes, LinkInv, ChangeGoes
<1>4. /\ link.prefix # Nil /\ c.to # link.token /\ c.to <= tokensMade /\ c.kept = {}
      /\ LObjects = {"page", "index", "database"}
      /\ {pointer[LinkLive]} \X LObjects \subseteq objects[LinkTarget(c)]
  BY <1>1, <1>2, <1>3 DEF ChangeShape, LObjects
<1>5. LinkTarget(c) \in LBases /\ LinkLive \in LBases /\ LinkTarget(c) # LinkLive
  BY <1>3, <1>4, LinkBases DEF LLinks, LChanges, LinkTarget, LinkLive
<1>6. PICK d : d = [c EXCEPT !.stage = "commit", !.moved = TRUE]
  OBVIOUS
<1>7. /\ d \in LChanges /\ d # Nil /\ d.stage = "commit" /\ d.to = c.to /\ d.moved /\ d.kept = {}
      /\ change' = d
  BY <1>2, <1>3, <1>4, <1>6, LinkConstants DEF LChanges, Files!Snapshots!MovePointer
<1>8. /\ pointer' = [pointer EXCEPT ![LinkTarget(c)] = pointer[LinkLive]]
      /\ missed' = missed \cup IF c.to \in tokensUsed THEN {LinkTarget(c)} ELSE {}
  BY <1>2, LinkSets DEF Files!Snapshots!MovePointer
<1>9. /\ pointer' \in [LBases -> LVersions \cup {0}]
      /\ pointer'[LinkTarget(c)] = pointer[LinkLive]
      /\ \A b \in LBases \ {LinkTarget(c)} : pointer'[b] = pointer[b]
  BY <1>0, <1>5, <1>8 DEF LinkTypes
<1>10. publishing = {}
  BY <1>0, <1>1 DEF PublishIsLive
<1>11. LinkTypes' /\ StaleIsOld' /\ PublishIsLive'
  BY <1>0, <1>1, <1>5, <1>7, <1>8, <1>9, <1>10 DEF LinkTypes, StaleIsOld, PublishIsLive
<1>12. ChangeShape(d)'
  BY <1>1, <1>4, <1>5, <1>7, <1>9 DEF ChangeShape, LinkTarget, LinkLive
<1>13. Files!Snapshots!LinksAreWhole'
  <2> SUFFICES ASSUME NEW b \in LBases, pointer'[b] # 0
               PROVE  {pointer'[b]} \X LObjects \subseteq objects[b]
    BY <1>1, LinkSets DEF Files!Snapshots!LinksAreWhole, Files!Snapshots!LinkObjects, Files!Snapshots!Bases,
       LBases, LTokens, LObjects, Files!Snapshots!Tokens
  <2>1. CASE b = LinkTarget(c)
    BY <1>4, <1>9, <2>1
  <2>2. CASE b # LinkTarget(c)
    BY <1>0, <1>9, <2>2, LinkSets DEF Files!Snapshots!LinksAreWhole
  <2> QED
    BY <2>1, <2>2
<1>14. Files!Snapshots!LiveLinkWorks'
  BY <1>0, <1>1, <1>5, <1>9 DEF Files!Snapshots!LiveLinkWorks, Files!Snapshots!Live, LinkLive
<1>15. Files!Snapshots!OldLinksAreNoted'
  <2> SUFFICES ASSUME NEW b \in LBases, pointer'[b] # 0, b[2] \in tokensUsed \ {link.token}
               PROVE  b \in link.stale \cup missed'
    BY <1>1, LinkSets DEF Files!Snapshots!OldLinksAreNoted, Files!Snapshots!Bases, LBases, LTokens,
       Files!Snapshots!Tokens
  <2>1. CASE b = LinkTarget(c)
    BY <1>8, <2>1 DEF LinkTarget
  <2>2. CASE b # LinkTarget(c)
    BY <1>0, <1>8, <1>9, <2>2, LinkSets DEF Files!Snapshots!OldLinksAreNoted
  <2> QED
    BY <2>1, <2>2
<1>16. ChangeGoes'
  BY <1>7, <1>12 DEF ChangeGoes, ChangeShape
<1> QED
  BY <1>11, <1>13, <1>14, <1>15, <1>16 DEF LinkInv, Files!Snapshots!LinkMovesSafely

\* The commit makes the new base the live one and notes the old.
LEMMA LinkCommits ==
  ASSUME OnePrefix, LinkInv, Files!Snapshots!Commit
  PROVE  LinkInv'
<1>0. /\ LinkTypes /\ StaleIsOld /\ PublishIsLive /\ Files!Snapshots!LinksAreWhole
      /\ Files!Snapshots!LiveLinkWorks /\ Files!Snapshots!OldLinksAreNoted
  BY DEF LinkInv, Files!Snapshots!LinkMovesSafely
<1>1. /\ change # Nil /\ change.stage = "commit"
      /\ UNCHANGED <<objects, pointer, tokensMade, published, newest, publishing>>
  BY DEF Files!Snapshots!Commit, Files!Snapshots!At, Files!Snapshots!snapshots, Files!Snapshots!linkBucket
<1>2. PICK c : c = change
  OBVIOUS
<1>3. c \in LChanges /\ ChangeShape(c) /\ link \in LLinks
  BY <1>0, <1>1, <1>2 DEF LinkTypes, LinkInv, ChangeGoes
<1>4. /\ c.to # link.token /\ c.to <= tokensMade /\ c.kept = {} /\ c.to \in LTokens
      /\ link.prefix # Nil <=> c.moved
      /\ link.prefix # Nil => pointer[LinkTarget(c)] = pointer[LinkLive]
  BY <1>1, <1>2, <1>3 DEF ChangeShape, LChanges
<1>5. PICK st : st = (link.stale \cup IF c.moved THEN {LinkLive} ELSE {}) \ {LinkTarget(c)}
  OBVIOUS
<1>6. Files!Snapshots!StaleAfter = st
  BY <1>2, <1>5, LinkSets DEF Files!Snapshots!StaleAfter
<1>7. /\ link' = [link EXCEPT !.token = c.to, !.pending = 0, !.stale = st]
      /\ tokensUsed' = tokensUsed \cup {c.to}
      /\ missed' = (missed \ {LinkTarget(c)})
                     \cup {b \in LBases : b[2] = link.token /\ b # LinkLive /\ pointer[b] # 0}
      /\ change' = [c EXCEPT !.stage = "drop", !.left = st]
  BY <1>2, <1>6, LinkSets DEF Files!Snapshots!Commit
<1>8. st \subseteq LBases
  <2>1. c.moved => LinkLive \in LBases
    BY <1>3, <1>4, LinkBases DEF LLinks, LinkLive
  <2> QED
    BY <1>3, <1>5, <2>1 DEF LLinks
<1>9. /\ link' \in LLinks /\ link'.token = c.to /\ link'.pending = 0 /\ link'.stale = st
      /\ link'.prefix = link.prefix
  <2>1. 0 \in LTokens
    BY LinkConstants DEF LTokens
  <2> QED
    BY <1>3, <1>4, <1>7, <1>8, <2>1 DEF LLinks
<1>10. PICK d : d = [c EXCEPT !.stage = "drop", !.left = st]
  OBVIOUS
<1>11. /\ d \in LChanges /\ d # Nil /\ d.stage = "drop" /\ d.to = c.to /\ d.kept = {} /\ d.left = st
       /\ change' = d
  BY <1>3, <1>4, <1>7, <1>8, <1>10, LinkConstants DEF LChanges
<1>12. publishing = {}
  BY <1>0, <1>1 DEF PublishIsLive
<1>13. LinkTypes' /\ PublishIsLive'
  <2>1. /\ tokensUsed' \subseteq LTokens /\ missed' \subseteq LBases /\ 0 <= tokensMade
        /\ link'.token \in tokensUsed'
    BY <1>0, <1>4, <1>7, <1>9, LinkConstants DEF LinkTypes, LTokens
  <2> QED
    BY <1>0, <1>1, <1>4, <1>9, <1>11, <1>12, <2>1 DEF LinkTypes, PublishIsLive
<1>14. StaleIsOld'
  <2>1. ASSUME NEW b \in st PROVE b[2] # c.to
    <3>1. CASE b = LinkLive
      BY <1>4, <3>1 DEF LinkLive
    <3>2. CASE b \in link.stale /\ b # LinkTarget(c)
      <4>1. b \in LBases /\ link.prefix \in LinkPrefixes
        BY <1>0, <1>3, <3>2 DEF LLinks, StaleIsOld
      <4>2. b[1] = link.prefix /\ b = <<b[1], b[2]>>
        BY <4>1, LinkBases DEF OnePrefix
      <4> QED
        BY <3>2, <4>2 DEF LinkTarget
    <3> QED
      BY <1>5, <3>1, <3>2
  <2>2. link.prefix = Nil => st = {}
    BY <1>0, <1>4, <1>5 DEF StaleIsOld
  <2> QED
    BY <1>9, <2>1, <2>2 DEF StaleIsOld
<1>15. ChangeGoes'
  <2>1. ChangeShape(d)'
    BY <1>1, <1>4, <1>9, <1>11 DEF ChangeShape
  <2> QED
    BY <1>11, <2>1 DEF ChangeGoes, ChangeShape
<1>16. Files!Snapshots!LinksAreWhole'
  BY <1>0, <1>1 DEF Files!Snapshots!LinksAreWhole
<1>17. Files!Snapshots!LiveLinkWorks'
  <2>1. Files!Snapshots!Live' = LinkTarget(c)
    BY <1>9 DEF Files!Snapshots!Live, LinkTarget
  <2>2. LinkTarget(c) \notin st
    BY <1>5
  <2> QED
    BY <1>0, <1>1, <1>4, <1>9, <2>1, <2>2, LinkSets DEF Files!Snapshots!LiveLinkWorks, LinkTarget
<1>18. Files!Snapshots!OldLinksAreNoted'
  <2> SUFFICES ASSUME NEW b \in LBases, pointer[b] # 0, b[2] \in (tokensUsed \cup {c.to}) \ {c.to}
               PROVE  b \in st \cup missed'
    BY <1>1, <1>7, <1>9, LinkSets DEF Files!Snapshots!OldLinksAreNoted, Files!Snapshots!Bases, LBases, LTokens,
       Files!Snapshots!Tokens
  <2>1. b # LinkTarget(c)
    BY DEF LinkTarget
  <2>2. CASE b = LinkLive
    BY <1>4, <1>5, <2>1, <2>2, LinkBases DEF LinkLive
  <2>3. CASE b[2] = link.token /\ b # LinkLive
    BY <1>7, <2>3
  <2>4. CASE b[2] # link.token
    BY <1>0, <1>5, <1>7, <2>1, <2>4, LinkSets DEF Files!Snapshots!OldLinksAreNoted
  <2> QED
    BY <2>2, <2>3, <2>4
<1> QED
  BY <1>13, <1>14, <1>15, <1>16, <1>17, <1>18 DEF LinkInv, Files!Snapshots!LinkMovesSafely

\* A base that is dropped is an old one.
LEMMA LinkDropsBase ==
  ASSUME LinkInv, NEW base \in LBases, Files!Snapshots!DropBase(base)
  PROVE  LinkInv'
<1>0. /\ LinkTypes /\ StaleIsOld /\ PublishIsLive /\ Files!Snapshots!LinksAreWhole
      /\ Files!Snapshots!LiveLinkWorks /\ Files!Snapshots!OldLinksAreNoted
  BY DEF LinkInv, Files!Snapshots!LinkMovesSafely
<1>1. /\ change # Nil /\ change.stage = "drop"
      /\ UNCHANGED <<link, tokensMade, tokensUsed, missed, published, newest, publishing>>
  BY DEF Files!Snapshots!DropBase, Files!Snapshots!At, Files!Snapshots!snapshots, Files!Snapshots!tokens
<1>2. PICK c : c = change
  OBVIOUS
<1>3. c \in LChanges /\ ChangeShape(c) /\ link \in LLinks /\ base \in c.left
  BY <1>0, <1>1, <1>2 DEF LinkTypes, LinkInv, ChangeGoes, Files!Snapshots!DropBase
<1>4. /\ c.to <= tokensMade /\ c.left \cup c.kept \subseteq link.stale
      /\ \A b \in link.stale \ (c.left \cup c.kept) : pointer[b] = 0
  BY <1>1, <1>2, <1>3 DEF ChangeShape
<1>5. base # LinkLive
  BY <1>0, <1>3, <1>4 DEF StaleIsOld, LinkLive
<1>6. PICK kept2 \in {c.kept, c.kept \cup {base}} : change' = [c EXCEPT !.left = @ \ {base}, !.kept = kept2]
  BY <1>2 DEF Files!Snapshots!DropBase
<1>7. PICK d : d = [c EXCEPT !.left = @ \ {base}, !.kept = kept2]
  OBVIOUS
<1>8. /\ d \in LChanges /\ d # Nil /\ d.stage = "drop" /\ d.to = c.to /\ d.kept = kept2
      /\ d.left = c.left \ {base} /\ change' = d
  <2>1. kept2 \in SUBSET LBases /\ c.left \ {base} \in SUBSET LBases /\ c.stage = "drop"
    BY <1>1, <1>2, <1>3, <1>6 DEF LChanges
  <2>2. d \in LChanges /\ d.stage = "drop" /\ d.to = c.to /\ d.kept = kept2 /\ d.left = c.left \ {base}
    BY <1>3, <1>7, <2>1 DEF LChanges
  <2> QED
    BY <1>6, <1>7, <2>2, LinkConstants
<1>9. Files!Snapshots!Emptied(base)
  BY <1>5, LinkSets DEF Files!Snapshots!DropBase
<1>10. /\ pointer' \in [LBases -> LVersions \cup {0}]
       /\ objects' \in [LBases -> SUBSET (LVersions \X LObjects)]
       /\ \A b \in LBases \ {base} : pointer'[b] = pointer[b] /\ objects'[b] = objects[b]
       /\ \/ pointer'[base] = 0
          \/ pointer'[base] = pointer[base] /\ objects'[base] = objects[base] /\ base \in kept2
  <2>0. pointer \in [LBases -> LVersions \cup {0}] /\ objects \in [LBases -> SUBSET (LVersions \X LObjects)]
    BY <1>0 DEF LinkTypes
  <2>1. CASE UNCHANGED <<pointer, objects>> /\ change'.kept = change.kept \cup {base}
    BY <1>8, <2>0, <2>1
  <2>2. ASSUME NEW rest \in {{}, objects[base]} \cup {{o} : o \in objects[base]},
               pointer' = [pointer EXCEPT ![base] = 0], objects' = [objects EXCEPT ![base] = rest]
        PROVE  /\ pointer' \in [LBases -> LVersions \cup {0}]
               /\ objects' \in [LBases -> SUBSET (LVersions \X LObjects)]
               /\ \A b \in LBases \ {base} : pointer'[b] = pointer[b] /\ objects'[b] = objects[b]
               /\ pointer'[base] = 0
    <3>1. rest \in SUBSET (LVersions \X LObjects)
      BY <2>0
    <3>2. /\ pointer' \in [LBases -> LVersions \cup {0}] /\ pointer'[base] = 0
          /\ \A b \in LBases \ {base} : pointer'[b] = pointer[b]
      BY <2>0, <2>2
    <3>3. /\ objects' \in [LBases -> SUBSET (LVersions \X LObjects)]
          /\ \A b \in LBases \ {base} : objects'[b] = objects[b]
      BY <2>0, <2>2, <3>1
    <3> QED
      BY <3>2, <3>3
  <2> QED
    BY <1>9, <2>1, <2>2 DEF Files!Snapshots!Emptied
<1>11. LinkTypes' /\ StaleIsOld' /\ PublishIsLive'
  BY <1>0, <1>1, <1>8, <1>10 DEF LinkTypes, StaleIsOld, PublishIsLive
<1>12. ChangeGoes'
  <2>1. d.left \cup d.kept \subseteq link.stale
    BY <1>3, <1>4, <1>6, <1>8
  <2>2. \A b \in link.stale \ (d.left \cup d.kept) : pointer'[b] = 0
    <3> SUFFICES ASSUME NEW b \in link.stale, b \notin d.left, b \notin d.kept
                 PROVE  pointer'[b] = 0
      OBVIOUS
    <3>1. b \in LBases
      BY <1>3 DEF LLinks
    <3>2. CASE b = base
      BY <1>8, <1>10, <3>2
    <3>3. CASE b # base
      BY <1>4, <1>6, <1>8, <1>10, <3>1, <3>3
    <3> QED
      BY <3>2, <3>3
  <2>3. ChangeShape(d)'
    BY <1>1, <1>4, <1>8, <2>1, <2>2 DEF ChangeShape
  <2> QED
    BY <1>8, <2>3 DEF ChangeGoes, ChangeShape
<1>13. Files!Snapshots!LinksAreWhole'
  <2> SUFFICES ASSUME NEW b \in LBases, pointer'[b] # 0
               PROVE  {pointer'[b]} \X LObjects \subseteq objects'[b]
    BY LinkSets DEF Files!Snapshots!LinksAreWhole, Files!Snapshots!LinkObjects, Files!Snapshots!Bases,
       LBases, LTokens, LObjects, Files!Snapshots!Tokens
  <2>1. pointer'[b] = pointer[b] /\ objects'[b] = objects[b]
    BY <1>10
  <2> QED
    BY <1>0, <2>1, LinkSets DEF Files!Snapshots!LinksAreWhole
<1>14. Files!Snapshots!LiveLinkWorks'
  <2> SUFFICES ASSUME link.prefix # Nil
               PROVE  pointer'[LinkLive] = newest[link.prefix] /\ newest[link.prefix] # 0 /\ LinkLive \notin link.stale
    BY <1>1 DEF Files!Snapshots!LiveLinkWorks, Files!Snapshots!Live, LinkLive
  <2>1. LinkLive \in LBases
    BY <1>3, LinkBases DEF LLinks, LinkLive
  <2> QED
    BY <1>0, <1>5, <1>10, <2>1 DEF Files!Snapshots!LiveLinkWorks, Files!Snapshots!Live, LinkLive
<1>15. Files!Snapshots!OldLinksAreNoted'
  <2> SUFFICES ASSUME NEW b \in LBases, pointer'[b] # 0, b[2] \in tokensUsed \ {link.token}
               PROVE  b \in link.stale \cup missed
    BY <1>1, LinkSets DEF Files!Snapshots!OldLinksAreNoted, Files!Snapshots!Bases, LBases, LTokens,
       Files!Snapshots!Tokens
  <2>1. pointer'[b] = pointer[b]
    BY <1>10
  <2> QED
    BY <1>0, <2>1, LinkSets DEF Files!Snapshots!OldLinksAreNoted
<1> QED
  BY <1>11, <1>12, <1>13, <1>14, <1>15 DEF LinkInv, Files!Snapshots!LinkMovesSafely

\* A change that ends, or is cut off, leaves the link as it is.
LEMMA LinkChangeEnds ==
  ASSUME LinkInv,
         \/ Files!Snapshots!Dropped \/ Files!Snapshots!Fails \/ Files!Snapshots!ProgramEnds
         \/ UNCHANGED Files!linkVars
  PROVE  LinkInv'
<1>0. /\ LinkTypes /\ StaleIsOld /\ PublishIsLive /\ ChangeGoes /\ Files!Snapshots!LinksAreWhole
      /\ Files!Snapshots!LiveLinkWorks /\ Files!Snapshots!OldLinksAreNoted /\ link \in LLinks
  BY DEF LinkInv, LinkTypes, Files!Snapshots!LinkMovesSafely
<1>1. UNCHANGED <<objects, pointer, tokensMade, tokensUsed, missed, published, newest>>
  BY DEF Files!Snapshots!Dropped, Files!Snapshots!Fails, Files!Snapshots!ProgramEnds, Files!linkVars,
     Files!Snapshots!snapshots, Files!Snapshots!tokens, Files!Snapshots!linkBucket
<1>2. /\ change' = Nil \/ UNCHANGED <<change, link>>
      /\ publishing' = {} \/ UNCHANGED publishing
      /\ change' # Nil => UNCHANGED <<change, publishing, link>>
  BY DEF Files!Snapshots!Dropped, Files!Snapshots!Fails, Files!Snapshots!ProgramEnds, Files!linkVars
<1>3. \E st \in SUBSET link.stale :
        /\ link' = [link EXCEPT !.stale = st]
        /\ \A b \in link.stale \ st : pointer[b] = 0
  <2>1. CASE UNCHANGED link
    BY <1>0, <2>1 DEF LLinks
  <2>2. CASE Files!Snapshots!Dropped
    <3>1. PICK c : c = change
      OBVIOUS
    <3>2. c \in LChanges /\ c.stage = "drop" /\ c.left = {} /\ link' = [link EXCEPT !.stale = c.kept]
      BY <1>0, <2>2, <3>1 DEF LinkTypes, Files!Snapshots!Dropped, Files!Snapshots!At
    <3>3. c.kept \subseteq link.stale /\ \A b \in link.stale \ c.kept : pointer[b] = 0
      BY <1>0, <3>1, <3>2 DEF ChangeGoes, ChangeShape
    <3> QED
      BY <3>2, <3>3
  <2> QED
    BY <2>1, <2>2 DEF Files!Snapshots!Fails, Files!Snapshots!ProgramEnds, Files!linkVars
<1>4. PICK st \in SUBSET link.stale :
        /\ link' = [link EXCEPT !.stale = st]
        /\ \A b \in link.stale \ st : pointer[b] = 0
  BY <1>3
<1>5. /\ link' \in LLinks /\ link'.stale = st /\ link'.token = link.token
      /\ link'.prefix = link.prefix /\ link'.pending = link.pending
  BY <1>0, <1>4 DEF LLinks
<1>6. LinkTypes' /\ StaleIsOld'
  <2>1. change' \in LChanges \cup {Nil} /\ publishing' \subseteq [prefix : LinkPrefixes, wrote : BOOLEAN]
    BY <1>0, <1>2 DEF LinkTypes
  <2> QED
    BY <1>0, <1>1, <1>4, <1>5, <2>1 DEF LinkTypes, StaleIsOld
<1>7. PublishIsLive'
  BY <1>0, <1>1, <1>2, <1>5 DEF PublishIsLive
<1>8. ChangeGoes'
  BY <1>0, <1>1, <1>2, LinkConstants DEF ChangeGoes, ChangeShape, LinkTarget, LinkLive
<1>9. Files!Snapshots!LinksAreWhole' /\ Files!Snapshots!LiveLinkWorks'
  BY <1>0, <1>1, <1>4, <1>5 DEF Files!Snapshots!LinksAreWhole, Files!Snapshots!LiveLinkWorks, Files!Snapshots!Live
<1>10. Files!Snapshots!OldLinksAreNoted'
  BY <1>0, <1>1, <1>4, <1>5 DEF Files!Snapshots!OldLinksAreNoted
<1> QED
  BY <1>6, <1>7, <1>8, <1>9, <1>10 DEF LinkInv, Files!Snapshots!LinkMovesSafely

\* No step of a publish or of a change breaks it, with one prefix.
LEMMA LinkStep ==
  /\ OnePrefix /\ LinkInv /\ [Files!Snapshots!LinkNext]_(Files!linkVars)
  => LinkInv'
<1> SUFFICES ASSUME OnePrefix, LinkInv, [Files!Snapshots!LinkNext]_(Files!linkVars) PROVE LinkInv'
  OBVIOUS
<1>1. CASE \/ \E prefix \in LinkPrefixes : Files!Snapshots!PublishBegins(prefix)
           \/ \E p \in publishing : Files!Snapshots!PublishWrites(p) \/ Files!Snapshots!PublishEnds(p)
  BY <1>1, LinkPublishes
<1>2. CASE \E base \in LBases : Files!Snapshots!DropBase(base)
  BY <1>2, LinkDropsBase
<1>3. CASE Files!Snapshots!Asked
  BY <1>3, LinkChangeBegins
<1>4. CASE Files!Snapshots!MoveObject
  BY <1>4, LinkCopies
<1>5. CASE Files!Snapshots!MovePointer
  BY <1>5, LinkShows
<1>6. CASE Files!Snapshots!Commit
  BY <1>6, LinkCommits
<1>7. CASE \/ Files!Snapshots!Dropped \/ Files!Snapshots!Fails \/ Files!Snapshots!ProgramEnds
           \/ UNCHANGED Files!linkVars
  BY <1>7, LinkChangeEnds
<1> QED
  BY <1>1, <1>2, <1>3, <1>4, <1>5, <1>6, <1>7, LinkSets DEF Files!Snapshots!LinkNext

-----------------------------------------------------------------------------
(****************************************************************************)
(* The names and flags of backups (backup.go).                              *)
(****************************************************************************)
\* A call is about an archive that was made, and a flag's about one that lacks
\* the databases.
CallsAreOfMade ==
  /\ lacking \subseteq archives
  /\ \A c \in metaCalls :
       /\ c.on \in archives
       /\ c.kind = "flag" => c.on \in lacking
       /\ c.kind = "remove" => c.read = Nil
  /\ \A a \in Archives \ archives : wanted[a] = 0

\* As long as no two calls have overlapped: there is one at most, what it read
\* is what is there, and what was not made has no entry.
OneCallAtATime ==
  /\ \A c, d \in metaCalls : c = d
  /\ \A c \in metaCalls : c.read # Nil => c.read = meta
  /\ \A a \in Archives \ archives : meta[a] = Nil
  /\ \A a \in zips \ (unwritten \cup Files!Meta!Pending("remove")) : Files!Meta!EntryIsTrue(a)

MetaInv ==
  /\ Files!Meta!MetaTypeOK /\ CallsAreOfMade
  /\ ~ raced => OneCallAtATime

\* No archive was made.
LEMMA MetaStart == Files!Meta!MetaInit => MetaInv
<1> SUFFICES ASSUME Files!Meta!MetaInit PROVE MetaInv
  OBVIOUS
<1>1. 0 \in 0 .. MaxNames
  BY MetaAssumption
<1>2. Files!Meta!MetaTypeOK
  BY <1>1 DEF Files!Meta!MetaInit, Files!Meta!MetaTypeOK, Files!Meta!Files
<1> QED
  BY <1>2 DEF MetaInv, Files!Meta!MetaInit, CallsAreOfMade, OneCallAtATime

\* meta.json says of an archive what was last asked (backup.go).
LEMMA MetaPromise == MetaInv => Files!Meta!MetaTypeOK /\ Files!Meta!MetaIsTrue
BY DEF MetaInv, OneCallAtATime, Files!Meta!MetaIsTrue

\* What one entry of a file is.
LEMMA EntryTypes ==
  ASSUME NEW file \in Files!Meta!Files, NEW a \in Archives
  PROVE  /\ Files!Meta!Entry(file, a) \in Files!Meta!Entries
         /\ file[a] = Nil => Files!Meta!Entry(file, a).name = 0 /\ ~ Files!Meta!Entry(file, a).lods
         /\ file[a] # Nil => Files!Meta!Entry(file, a) = file[a]
<1>1. file[a] \in Files!Meta!Entries \cup {Nil}
  BY DEF Files!Meta!Files
<1>2. [name |-> 0, lods |-> FALSE] \in Files!Meta!Entries
  BY MetaAssumption DEF Files!Meta!Entries
<1>3. CASE file[a] = Nil
  BY <1>2, <1>3 DEF Files!Meta!Entry
<1>4. CASE file[a] # Nil
  BY <1>1, <1>4 DEF Files!Meta!Entry
<1> QED
  BY <1>3, <1>4

\* A call more, perhaps with the archive it is about.
LEMMA MetaAdds ==
  ASSUME MetaInv, NEW a \in Archives, NEW kind \in {"flag", "delete", "rename"},
         NEW name \in 0 .. MaxNames, Files!Meta!Begins(kind, a, name),
         UNCHANGED <<meta, wanted, unwritten>>, given' \in 0 .. MaxNames,
         a \in archives' /\ archives' \subseteq archives \cup {a},
         archives \subseteq archives' /\ zips \subseteq zips' /\ lacking \subseteq lacking',
         zips' \subseteq archives' /\ zips' \subseteq zips \cup {a},
         lacking' \subseteq archives' /\ lacking' \subseteq lacking \cup {a},
         a \in zips \/ kind = "flag",
         kind = "flag" => a \notin archives /\ a \in lacking',
         kind # "flag" => lacking' = lacking
  PROVE  MetaInv'
<1> DEFINE e == [kind |-> kind, on |-> a, name |-> name, read |-> Nil]
<1>0. Files!Meta!MetaTypeOK /\ CallsAreOfMade
  BY DEF MetaInv
<1>1. /\ e \in Files!Meta!Calls /\ e.kind = kind /\ e.on = a /\ e.read = Nil
      /\ metaCalls' = metaCalls \cup {e}
  BY DEF Files!Meta!Calls, Files!Meta!Begins
<1> HIDE DEF e
<1>2. raced' \in BOOLEAN /\ (~ raced' => ~ raced /\ metaCalls = {})
  <2>1. raced' = (raced \/ metaCalls # {})
    BY DEF Files!Meta!Begins
  <2> QED
    BY <2>1
<1>3. Files!Meta!MetaTypeOK'
  BY <1>0, <1>1, <1>2 DEF Files!Meta!MetaTypeOK
<1>4. CallsAreOfMade'
  BY <1>0, <1>1 DEF CallsAreOfMade
<1>5. ASSUME ~ raced'
      PROVE  OneCallAtATime'
  <2>1. /\ OneCallAtATime /\ metaCalls' = {e} /\ metaCalls = {}
    BY <1>1, <1>2, <1>5 DEF MetaInv
  <2>2. /\ \A c, d \in metaCalls' : c = d
        /\ \A c \in metaCalls' : c.read # Nil => c.read = meta'
        /\ \A b \in Archives \ archives' : meta'[b] = Nil
    BY <1>1, <2>1 DEF OneCallAtATime
  <2>3. ASSUME NEW b \in zips' \ (unwritten' \cup Files!Meta!Pending("remove")')
        PROVE  Files!Meta!EntryIsTrue(b)'
    <3>1. Files!Meta!Pending("remove") = {} /\ Files!Meta!Pending("flag") = {}
      BY <2>1 DEF Files!Meta!Pending
    <3>2. CASE kind = "flag" /\ b = a
      <4>1. b \in Files!Meta!Pending("flag")'
        BY <1>1, <3>2 DEF Files!Meta!Pending
      <4>2. b \in Archives \ archives
        BY <3>2
      <4>3. meta[b] = Nil /\ wanted[b] = 0
        BY <1>0, <2>1, <4>2 DEF OneCallAtATime, CallsAreOfMade
      <4>4. Files!Meta!Entry(meta, b).name = wanted[b]
        BY <1>0, <4>2, <4>3, EntryTypes DEF Files!Meta!MetaTypeOK
      <4>5. (Files!Meta!Entry(meta, b).name = wanted[b])'
        BY <4>4 DEF Files!Meta!Entry
      <4> QED
        BY <4>1, <4>5 DEF Files!Meta!EntryIsTrue
    <3>3. CASE b # a \/ kind # "flag"
      <4>1. b \in zips \ (unwritten \cup Files!Meta!Pending("remove"))
        BY <2>3, <3>1, <3>3
      <4>2. Files!Meta!EntryIsTrue(b)
        BY <2>1, <4>1 DEF OneCallAtATime
      <4>3. b \in lacking' <=> b \in lacking
        BY <3>3
      <4>4. b \notin Files!Meta!Pending("flag")
        BY <3>1
      <4> QED
        BY <4>2, <4>3, <4>4 DEF Files!Meta!EntryIsTrue, Files!Meta!Entry
    <3> QED
      BY <3>2, <3>3
  <2> QED
    BY <2>2, <2>3 DEF OneCallAtATime
<1> QED
  BY <1>3, <1>4, <1>5 DEF MetaInv

\* A call begins, of an archive that was made.
LEMMA MetaBegins ==
  ASSUME MetaInv, NEW a \in Archives,
         \/ \E lods \in BOOLEAN : Files!Meta!ArchiveMade(a, lods)
         \/ Files!Meta!DeleteAsked(a) \/ Files!Meta!RenameAsked(a)
  PROVE  MetaInv'
<1>0. Files!Meta!MetaTypeOK /\ CallsAreOfMade /\ 0 \in 0 .. MaxNames
  BY MetaAssumption DEF MetaInv
<1>1. UNCHANGED <<meta, wanted, unwritten>>
  BY DEF Files!Meta!ArchiveMade, Files!Meta!DeleteAsked, Files!Meta!RenameAsked
<1>2. zips \subseteq archives /\ lacking \subseteq archives /\ archives \subseteq Archives
  BY <1>0 DEF Files!Meta!MetaTypeOK, CallsAreOfMade
<1>3. CASE Files!Meta!ArchiveMade(a, TRUE)
  <2>1. /\ a \notin archives /\ archives' = archives \cup {a} /\ zips' = zips \cup {a}
        /\ lacking' = lacking \cup {a} /\ Files!Meta!Begins("flag", a, 0) /\ UNCHANGED given
    BY <1>3 DEF Files!Meta!ArchiveMade
  <2>2. given' \in 0 .. MaxNames
    BY <1>0, <2>1 DEF Files!Meta!MetaTypeOK
  <2> QED
    BY <1>0, <1>1, <1>2, <2>1, <2>2, MetaAdds
<1>4. CASE Files!Meta!ArchiveMade(a, FALSE)
  <2>1. /\ a \notin archives /\ archives' = archives \cup {a} /\ zips' = zips \cup {a}
        /\ UNCHANGED <<lacking, metaCalls, raced, given>>
    BY <1>4 DEF Files!Meta!ArchiveMade
  <2>2. Files!Meta!MetaTypeOK'
    BY <1>0, <1>1, <2>1 DEF Files!Meta!MetaTypeOK
  <2>3. CallsAreOfMade'
    BY <1>0, <1>1, <2>1 DEF CallsAreOfMade
  <2>4. ASSUME ~ raced'
        PROVE  OneCallAtATime'
    <3>1. OneCallAtATime
      BY <2>1, <2>4 DEF MetaInv
    <3>2. ASSUME NEW b \in zips' \ (unwritten' \cup Files!Meta!Pending("remove")')
          PROVE  Files!Meta!EntryIsTrue(b)'
      <4>1. CASE b = a
        <5>1. meta[b] = Nil /\ wanted[b] = 0 /\ b \notin lacking /\ b \in Archives
          BY <1>0, <2>1, <3>1, <4>1 DEF OneCallAtATime, CallsAreOfMade
        <5>2. Files!Meta!Entry(meta, b).name = 0 /\ ~ Files!Meta!Entry(meta, b).lods
          BY <1>0, <5>1, EntryTypes DEF Files!Meta!MetaTypeOK
        <5>3. Files!Meta!EntryIsTrue(b)
          BY <5>1, <5>2 DEF Files!Meta!EntryIsTrue
        <5> QED
          BY <1>1, <2>1, <5>3 DEF Files!Meta!EntryIsTrue, Files!Meta!Entry, Files!Meta!Pending
      <4>2. CASE b # a
        <5>1. b \in zips \ (unwritten \cup Files!Meta!Pending("remove"))
          BY <1>1, <2>1, <3>2, <4>2 DEF Files!Meta!Pending
        <5>2. Files!Meta!EntryIsTrue(b)
          BY <3>1, <5>1 DEF OneCallAtATime
        <5> QED
          BY <1>1, <2>1, <5>2 DEF Files!Meta!EntryIsTrue, Files!Meta!Entry, Files!Meta!Pending
      <4> QED
        BY <4>1, <4>2
    <3>3. /\ \A c, d \in metaCalls' : c = d
          /\ \A c \in metaCalls' : c.read # Nil => c.read = meta'
          /\ \A b \in Archives \ archives' : meta'[b] = Nil
      BY <1>1, <2>1, <3>1 DEF OneCallAtATime
    <3> QED
      BY <3>2, <3>3 DEF OneCallAtATime
  <2> QED
    BY <2>2, <2>3, <2>4 DEF MetaInv
<1>5. CASE Files!Meta!DeleteAsked(a)
  <2>1. a \in zips /\ Files!Meta!Begins("delete", a, 0) /\ UNCHANGED <<archives, zips, lacking, given>>
    BY <1>5 DEF Files!Meta!DeleteAsked
  <2>2. given' \in 0 .. MaxNames
    BY <1>0, <2>1 DEF Files!Meta!MetaTypeOK
  <2> QED
    BY <1>0, <1>1, <1>2, <2>1, <2>2, MetaAdds
<1>6. CASE Files!Meta!RenameAsked(a)
  <2>1. /\ a \in zips /\ Files!Meta!Begins("rename", a, given + 1) /\ UNCHANGED <<archives, zips, lacking>>
        /\ given' = given + 1 /\ given < MaxNames
    BY <1>6 DEF Files!Meta!RenameAsked, Files!Meta!Begins
  <2>2. given + 1 \in 0 .. MaxNames
    BY <1>0, <2>1, MetaAssumption DEF Files!Meta!MetaTypeOK
  <2> QED
    BY <1>0, <1>1, <1>2, <2>1, <2>2, MetaAdds
<1> QED
  BY <1>3, <1>4, <1>5, <1>6

\* A call goes on: it ends, reads, or turns from the entry to the archive.
LEMMA MetaCallMoves ==
  ASSUME MetaInv, NEW c \in metaCalls, UNCHANGED <<archives, lacking, given, raced>>,
         \/ metaCalls' = metaCalls \ {c}
         \/ \E d \in Files!Meta!Calls :
              /\ metaCalls' = (metaCalls \ {c}) \cup {d} /\ d.on = c.on
              /\ d.kind = c.kind \/ (d.kind = "remove" /\ c.kind # "flag")
              /\ d.kind = "remove" => d.read = Nil
  PROVE  /\ metaCalls' \subseteq Files!Meta!Calls
         /\ c \in Files!Meta!Calls /\ c.on \in Archives /\ c.on \in archives
         /\ \A b \in metaCalls' : /\ b.on \in archives
                                  /\ b.kind = "flag" => b.on \in lacking
                                  /\ b.kind = "remove" => b.read = Nil
         /\ ~ raced => /\ metaCalls = {c}
                       /\ \A a \in Archives \ {c.on} :
                            /\ a \notin Files!Meta!Pending("flag")
                            /\ a \notin Files!Meta!Pending("remove")
                            /\ a \notin Files!Meta!Pending("flag")'
                            /\ a \notin Files!Meta!Pending("remove")'
<1>0. Files!Meta!MetaTypeOK /\ CallsAreOfMade
  BY DEF MetaInv
<1>1. c \in Files!Meta!Calls /\ c.on \in Archives /\ c.on \in archives
  BY <1>0 DEF Files!Meta!MetaTypeOK, CallsAreOfMade, Files!Meta!Calls
<1>2. metaCalls' \subseteq Files!Meta!Calls
  BY <1>0 DEF Files!Meta!MetaTypeOK
<1>3. \A b \in metaCalls' : /\ b.on \in archives
                            /\ b.kind = "flag" => b.on \in lacking
                            /\ b.kind = "remove" => b.read = Nil
  BY <1>0 DEF CallsAreOfMade
<1>4. ASSUME ~ raced
      PROVE  metaCalls = {c} /\ \A b \in metaCalls' : b.on = c.on
  <2>1. \A d \in metaCalls : d = c
    BY <1>4 DEF MetaInv, OneCallAtATime
  <2> QED
    BY <2>1
<1>5. ASSUME ~ raced, NEW a \in Archives \ {c.on}
      PROVE  /\ a \notin Files!Meta!Pending("flag") /\ a \notin Files!Meta!Pending("remove")
             /\ a \notin Files!Meta!Pending("flag")' /\ a \notin Files!Meta!Pending("remove")'
  BY <1>4, <1>5 DEF Files!Meta!Pending
<1> QED
  BY <1>1, <1>2, <1>3, <1>4, <1>5

\* What a call has of another archive it leaves as it is.
LEMMA MetaOthers ==
  ASSUME MetaInv, ~ raced, NEW a \in zips' \ unwritten', a \in zips \ unwritten, a \in Archives,
         a \notin Files!Meta!Pending("flag"), a \notin Files!Meta!Pending("remove"),
         meta'[a] = meta[a], wanted'[a] = wanted[a], lacking' = lacking
  PROVE  Files!Meta!EntryIsTrue(a)'
<1>1. Files!Meta!EntryIsTrue(a)
  BY DEF MetaInv, OneCallAtATime
<1>2. /\ Files!Meta!Entry(meta, a).lods <=> a \in lacking
      /\ Files!Meta!Entry(meta, a).name = wanted[a]
  BY <1>1 DEF Files!Meta!EntryIsTrue
<1>3. Files!Meta!Entry(meta, a)' = Files!Meta!Entry(meta, a)
  BY DEF Files!Meta!Entry
<1> QED
  BY <1>2, <1>3 DEF Files!Meta!EntryIsTrue

\* A call that reads, fails to save or removes changes no entry.
LEMMA MetaCallGoesOn ==
  ASSUME MetaInv, NEW c \in metaCalls,
         \/ Files!Meta!Loads(c) \/ Files!Meta!SaveFails(c) \/ Files!Meta!Removes(c)
  PROVE  MetaInv'
<1> USE DEF Files!Meta!Becomes, Files!Meta!Over
<1>0. Files!Meta!MetaTypeOK /\ CallsAreOfMade
  BY DEF MetaInv
<1>1. UNCHANGED <<archives, lacking, meta, given, wanted, raced>>
  BY DEF Files!Meta!Loads, Files!Meta!SaveFails, Files!Meta!Removes
<1>2. c \in Files!Meta!Calls
  BY <1>0 DEF Files!Meta!MetaTypeOK
<1>3. \/ metaCalls' = metaCalls \ {c} /\ c.kind \in {"flag", "rename", "remove"}
      \/ \E d \in Files!Meta!Calls :
           /\ metaCalls' = (metaCalls \ {c}) \cup {d} /\ d.on = c.on
           /\ \/ d.kind = c.kind /\ d.kind # "remove" /\ d.read = meta
              \/ d.kind = "remove" /\ c.kind = "delete" /\ d.read = Nil
  <2>1. CASE Files!Meta!Loads(c)
    <3>1. CASE metaCalls' = metaCalls \ {c} /\ c.kind = "rename"
      BY <3>1
    <3>2. CASE c.kind # "remove" /\ metaCalls' = (metaCalls \ {c}) \cup {[c EXCEPT !.read = meta]}
      <4> DEFINE d == [c EXCEPT !.read = meta]
      <4>1. d \in Files!Meta!Calls /\ d.on = c.on /\ d.kind = c.kind /\ d.read = meta
        BY <1>0, <1>2 DEF Files!Meta!Calls, Files!Meta!MetaTypeOK
      <4> QED
        BY <3>2, <4>1
    <3> QED
      BY <2>1, <3>1, <3>2 DEF Files!Meta!Loads
  <2>2. CASE Files!Meta!SaveFails(c)
    <3>1. CASE c.kind = "delete"
      <4> DEFINE d == [c EXCEPT !.kind = "remove", !.read = Nil]
      <4>1. d \in Files!Meta!Calls /\ d.on = c.on /\ d.kind = "remove" /\ d.read = Nil
        BY <1>2 DEF Files!Meta!Calls
      <4>2. metaCalls' = (metaCalls \ {c}) \cup {d}
        BY <2>2, <3>1 DEF Files!Meta!SaveFails
      <4> QED
        BY <3>1, <4>1, <4>2
    <3>2. CASE c.kind # "delete"
      BY <1>2, <2>2, <3>2 DEF Files!Meta!SaveFails, Files!Meta!Calls
    <3> QED
      BY <3>1, <3>2
  <2>3. CASE Files!Meta!Removes(c)
    BY <2>3 DEF Files!Meta!Removes
  <2> QED
    BY <2>1, <2>2, <2>3
<1>4. /\ metaCalls' \subseteq Files!Meta!Calls
      /\ c.on \in Archives /\ c.on \in archives
      /\ \A b \in metaCalls' : /\ b.on \in archives
                               /\ b.kind = "flag" => b.on \in lacking
                               /\ b.kind = "remove" => b.read = Nil
      /\ ~ raced => /\ metaCalls = {c}
                    /\ \A a \in Archives \ {c.on} :
                         /\ a \notin Files!Meta!Pending("flag")
                         /\ a \notin Files!Meta!Pending("remove")
                         /\ a \notin Files!Meta!Pending("flag")'
                         /\ a \notin Files!Meta!Pending("remove")'
  BY <1>1, <1>3, MetaCallMoves
<1>5. zips' \subseteq zips /\ unwritten \subseteq unwritten' /\ unwritten' \subseteq unwritten \cup {c.on}
  BY DEF Files!Meta!Loads, Files!Meta!SaveFails, Files!Meta!Removes
<1>6. Files!Meta!MetaTypeOK'
  BY <1>0, <1>1, <1>4, <1>5 DEF Files!Meta!MetaTypeOK
<1>7. CallsAreOfMade'
  BY <1>0, <1>1, <1>4 DEF CallsAreOfMade
<1>8. ASSUME ~ raced
      PROVE  OneCallAtATime'
  <2>1. OneCallAtATime
    BY <1>8 DEF MetaInv
  <2>2. /\ \A b, d \in metaCalls' : b = d
        /\ \A b \in metaCalls' : b.read # Nil => b.read = meta'
        /\ \A a \in Archives \ archives' : meta'[a] = Nil
    BY <1>1, <1>3, <1>4, <1>8, <2>1 DEF OneCallAtATime
  <2>3. ASSUME NEW a \in zips' \ (unwritten' \cup Files!Meta!Pending("remove")')
        PROVE  Files!Meta!EntryIsTrue(a)'
    <3>0. a \in Archives /\ a \in zips \ unwritten
      BY <1>0, <1>5, <2>3 DEF Files!Meta!MetaTypeOK
    <3>1. CASE a # c.on
      BY <1>1, <1>4, <1>5, <1>8, <2>3, <3>0, <3>1, MetaOthers
    <3>2. CASE a = c.on
      <4>1. CASE c.kind = "remove"
        <5>1. \/ zips' = zips \ {c.on} \/ unwritten' = unwritten \cup {c.on}
          BY <4>1 DEF Files!Meta!Removes, Files!Meta!Loads, Files!Meta!SaveFails
        <5> QED
          BY <2>3, <3>2, <5>1
      <4>2. CASE c.kind # "remove"
        <5>1. a \notin Files!Meta!Pending("remove")
          BY <1>4, <1>8, <4>2 DEF Files!Meta!Pending
        <5>2. Files!Meta!EntryIsTrue(a)
          BY <2>1, <3>0, <5>1 DEF OneCallAtATime
        <5>3. CASE a \in Files!Meta!Pending("flag")
          <6>1. c.kind = "flag"
            BY <1>4, <1>8, <5>3 DEF Files!Meta!Pending
          <6>2. CASE Files!Meta!Loads(c)
            <7>1. metaCalls' = {[c EXCEPT !.read = meta]}
              BY <1>4, <1>8, <6>1, <6>2 DEF Files!Meta!Loads
            <7>2. [c EXCEPT !.read = meta].kind = "flag" /\ [c EXCEPT !.read = meta].on = a
              BY <1>2, <3>2, <6>1 DEF Files!Meta!Calls
            <7>3. a \in Files!Meta!Pending("flag")'
              BY <7>1, <7>2 DEF Files!Meta!Pending
            <7> QED
              BY <1>1, <5>2, <7>3 DEF Files!Meta!EntryIsTrue, Files!Meta!Entry
          <6>3. CASE Files!Meta!SaveFails(c)
            BY <2>3, <3>2, <6>1, <6>3 DEF Files!Meta!SaveFails
          <6> QED
            BY <6>1, <6>2, <6>3 DEF Files!Meta!Removes
        <5>4. CASE a \notin Files!Meta!Pending("flag")
          BY <1>1, <1>5, <1>8, <2>3, <3>0, <5>1, <5>4, MetaOthers
        <5> QED
          BY <5>3, <5>4
      <4> QED
        BY <4>1, <4>2
    <3> QED
      BY <3>1, <3>2
  <2> QED
    BY <2>2, <2>3 DEF OneCallAtATime
<1> QED
  BY <1>1, <1>6, <1>7, <1>8 DEF MetaInv

\* A call that saves changes its own entry, if no other came between.
LEMMA MetaSaves ==
  ASSUME MetaInv, NEW c \in metaCalls, Files!Meta!Saves(c)
  PROVE  MetaInv'
<1> USE DEF Files!Meta!Becomes, Files!Meta!Over
<1>0. Files!Meta!MetaTypeOK /\ CallsAreOfMade
  BY DEF MetaInv
<1>1. /\ c.read # Nil /\ meta' = Files!Meta!Changed(c)
      /\ wanted' = IF c.kind = "rename" THEN [wanted EXCEPT ![c.on] = c.name] ELSE wanted
      /\ UNCHANGED <<archives, zips, lacking, given, raced, unwritten>>
  BY DEF Files!Meta!Saves
<1>2. /\ c \in Files!Meta!Calls /\ c.read \in Files!Meta!Files
      /\ c.kind \in {"flag", "rename", "delete"} /\ c.on \in Archives /\ c.on \in archives
      /\ c.name \in 0 .. MaxNames
  BY <1>0, <1>1 DEF Files!Meta!MetaTypeOK, Files!Meta!Calls, CallsAreOfMade
<1>3. \/ metaCalls' = metaCalls \ {c} /\ c.kind # "delete"
      \/ \E d \in Files!Meta!Calls :
           /\ metaCalls' = (metaCalls \ {c}) \cup {d} /\ d.on = c.on
           /\ d.kind = "remove" /\ c.kind = "delete" /\ d.read = Nil
  <2>1. CASE c.kind = "delete"
    <3> DEFINE d == [c EXCEPT !.kind = "remove", !.read = Nil]
    <3>1. d \in Files!Meta!Calls /\ d.on = c.on /\ d.kind = "remove" /\ d.read = Nil
      BY <1>2 DEF Files!Meta!Calls
    <3>2. metaCalls' = (metaCalls \ {c}) \cup {d}
      BY <2>1 DEF Files!Meta!Saves
    <3> QED
      BY <2>1, <3>1, <3>2
  <2>2. CASE c.kind # "delete"
    BY <2>2 DEF Files!Meta!Saves
  <2> QED
    BY <2>1, <2>2
<1>4. /\ metaCalls' \subseteq Files!Meta!Calls
      /\ \A b \in metaCalls' : /\ b.on \in archives
                               /\ b.kind = "flag" => b.on \in lacking
                               /\ b.kind = "remove" => b.read = Nil
      /\ ~ raced => /\ metaCalls = {c}
                    /\ \A a \in Archives \ {c.on} :
                         /\ a \notin Files!Meta!Pending("flag")
                         /\ a \notin Files!Meta!Pending("remove")
                         /\ a \notin Files!Meta!Pending("flag")'
                         /\ a \notin Files!Meta!Pending("remove")'
  BY <1>1, <1>3, MetaCallMoves
<1> DEFINE old == Files!Meta!Entry(c.read, c.on)
           new == CASE c.kind = "flag" -> [old EXCEPT !.lods = TRUE]
                    [] c.kind = "rename" -> [name |-> c.name, lods |-> old.lods]
                    [] c.kind = "delete" -> Nil
<1>5. old \in [name : 0 .. MaxNames, lods : BOOLEAN]
  BY <1>2, EntryTypes DEF Files!Meta!Entries
<1>6. meta' = [c.read EXCEPT ![c.on] = new]
  BY <1>1 DEF Files!Meta!Changed
<1> HIDE DEF old
<1>7. /\ c.kind = "flag" => /\ new \in Files!Meta!Entries /\ new.name = old.name /\ new.lods
      /\ c.kind = "rename" => /\ new \in Files!Meta!Entries /\ new.name = c.name
                              /\ (new.lods <=> old.lods)
      /\ c.kind = "delete" => new = Nil
  <2>1. CASE c.kind = "flag"
    <3>1. new = [old EXCEPT !.lods = TRUE]
      BY <2>1
    <3> QED
      BY <1>5, <2>1, <3>1 DEF Files!Meta!Entries
  <2>2. CASE c.kind = "rename"
    <3>1. new = [name |-> c.name, lods |-> old.lods]
      BY <2>2
    <3> QED
      BY <1>2, <1>5, <2>2, <3>1 DEF Files!Meta!Entries
  <2>3. CASE c.kind = "delete"
    BY <2>3
  <2> QED
    BY <1>2, <2>1, <2>2, <2>3
<1> HIDE DEF new
<1>8. /\ meta' \in Files!Meta!Files /\ meta'[c.on] = new
      /\ \A a \in Archives \ {c.on} : meta'[a] = c.read[a]
  BY <1>2, <1>6, <1>7 DEF Files!Meta!Files
<1>9. /\ wanted' \in [Archives -> 0 .. MaxNames]
      /\ \A a \in Archives \ {c.on} : wanted'[a] = wanted[a]
      /\ c.kind = "rename" => wanted'[c.on] = c.name
      /\ c.kind # "rename" => wanted'[c.on] = wanted[c.on]
  BY <1>0, <1>1, <1>2 DEF Files!Meta!MetaTypeOK
<1>10. Files!Meta!MetaTypeOK'
  BY <1>0, <1>1, <1>4, <1>8, <1>9 DEF Files!Meta!MetaTypeOK
<1>11. CallsAreOfMade'
  BY <1>0, <1>1, <1>2, <1>4, <1>9 DEF CallsAreOfMade
<1>12. ASSUME ~ raced
       PROVE  OneCallAtATime'
  <2>1. OneCallAtATime /\ c.read = meta
    BY <1>1, <1>12 DEF MetaInv, OneCallAtATime
  <2>2. /\ \A b, d \in metaCalls' : b = d
        /\ \A b \in metaCalls' : b.read # Nil => b.read = meta'
        /\ \A a \in Archives \ archives' : meta'[a] = Nil
    BY <1>1, <1>2, <1>3, <1>4, <1>8, <1>12, <2>1 DEF OneCallAtATime
  <2>3. ASSUME NEW a \in zips' \ (unwritten' \cup Files!Meta!Pending("remove")')
        PROVE  Files!Meta!EntryIsTrue(a)'
    <3>0. a \in Archives /\ a \in zips \ unwritten /\ a \in zips' \ unwritten'
      BY <1>0, <1>1, <2>3 DEF Files!Meta!MetaTypeOK
    <3>1. CASE a # c.on
      BY <1>1, <1>4, <1>8, <1>9, <1>12, <2>1, <3>0, <3>1, MetaOthers
    <3>2. CASE a = c.on
      <4>1. c.kind # "delete"
        BY <1>3, <2>3, <3>2 DEF Files!Meta!Pending
      <4>2. a \notin Files!Meta!Pending("remove")
        BY <1>2, <1>4, <1>12 DEF Files!Meta!Pending
      <4>3. Files!Meta!EntryIsTrue(a)
        BY <2>1, <3>0, <4>2 DEF OneCallAtATime
      <4>4. /\ new \in Files!Meta!Entries /\ new # Nil /\ meta'[a] = new
        BY <1>2, <1>7, <1>8, <3>2, <4>1, MetaAssumption DEF Files!Meta!Entries
      <4>5. Files!Meta!Entry(meta, a)' = new
        BY <4>4 DEF Files!Meta!Entry
      <4>6. old = Files!Meta!Entry(meta, a)
        BY <2>1, <3>2 DEF old
      <4>7. CASE c.kind = "flag"
        <5>1. a \in lacking
          BY <1>0, <3>2, <4>7 DEF CallsAreOfMade
        <5>2. old.name = wanted[a]
          BY <4>3, <4>6 DEF Files!Meta!EntryIsTrue
        <5>3. new.lods /\ new.name = wanted'[a]
          BY <1>7, <1>9, <3>2, <4>7, <5>2
        <5> QED
          BY <1>1, <4>5, <5>1, <5>3 DEF Files!Meta!EntryIsTrue
      <4>8. CASE c.kind = "rename"
        <5>1. a \notin Files!Meta!Pending("flag")
          BY <1>4, <1>12, <4>8 DEF Files!Meta!Pending
        <5>2. old.lods <=> a \in lacking
          BY <4>3, <4>6, <5>1 DEF Files!Meta!EntryIsTrue
        <5>3. (new.lods <=> a \in lacking) /\ new.name = wanted'[a]
          BY <1>7, <1>9, <3>2, <4>8, <5>2
        <5> QED
          BY <1>1, <4>5, <5>3 DEF Files!Meta!EntryIsTrue
      <4> QED
        BY <1>2, <4>1, <4>7, <4>8
    <3> QED
      BY <3>1, <3>2
  <2> QED
    BY <2>2, <2>3 DEF OneCallAtATime
<1> QED
  BY <1>1, <1>10, <1>11, <1>12 DEF MetaInv

\* No step of a call breaks it.
LEMMA MetaStep == MetaInv /\ [Files!Meta!MetaNext]_(Files!metaVars) => MetaInv'
<1> SUFFICES ASSUME MetaInv, [Files!Meta!MetaNext]_(Files!metaVars) PROVE MetaInv'
  OBVIOUS
<1>1. CASE UNCHANGED Files!metaVars
  BY <1>1 DEF Files!metaVars, MetaInv, Files!Meta!MetaTypeOK, CallsAreOfMade, OneCallAtATime,
     Files!Meta!Pending, Files!Meta!EntryIsTrue, Files!Meta!Entry
<1>2. CASE Files!Meta!MetaNext
  BY <1>2, MetaBegins, MetaCallGoesOn, MetaSaves DEF Files!Meta!MetaNext
<1> QED
  BY <1>1, <1>2

-----------------------------------------------------------------------------
(****************************************************************************)
(* Loader updates (loader.go).                                              *)
(****************************************************************************)
LoaderJobs ==
  [at : Files!Loader!Stages, config : Files!Loader!Records, saved : Files!Loader!Folders,
   left : SUBSET LaunchFiles, restored : BOOLEAN, was : Files!Loader!Folders,
   launched : Files!Loader!Builds]

\* What the update under way has copied, and still has to put back.
JobIsTrue(j) ==
  /\ j.at = "copying" => \A f \in LaunchFiles \ j.left : j.saved[f] = j.was[f]
  /\ j.at # "copying" => \A f \in LaunchFiles : j.saved[f] = j.was[f]
  /\ j.at \in {"copying", "downloading"} =>
       /\ \A f \in LaunchFiles : launchFiles[f] = j.was[f]
       /\ j.launched = Files!Loader!Launched
  /\ j.was[Script] # Nil => j.launched = j.was[Script]
  /\ j.at = "restoring" /\ ~ mishap =>
       \A f \in LaunchFiles \ j.left : j.saved[f] # Nil => launchFiles[f] = j.saved[f]
  /\ j.at = "saving" => Files!Loader!Launched = updates

LoaderInv ==
  /\ Files!Loader!UpdateTypeOK /\ Files!Loader!UpdateIsAllOrNothing
  /\ updating # Nil => JobIsTrue(updating)
  /\ told # Nil => updating = Nil

\* No update runs.
LEMMA LoaderStart == Files!Loader!UpdateInit => LoaderInv
<1> SUFFICES ASSUME Files!Loader!UpdateInit PROVE LoaderInv
  OBVIOUS
<1>1. 0 \in Files!Loader!Builds /\ 0 \in 0 .. MaxConfigEdits
  BY LoaderAssumption DEF Files!Loader!Builds
<1>2. Files!Loader!UpdateTypeOK
  BY <1>1 DEF Files!Loader!UpdateInit, Files!Loader!UpdateTypeOK, Files!Loader!Folders, Files!Loader!Records
<1> QED
  BY <1>2 DEF LoaderInv, Files!Loader!UpdateInit, Files!Loader!UpdateIsAllOrNothing,
     Files!Loader!FailedUpdateIsUndone, Files!Loader!DoneUpdateLaunches, Files!Loader!Over

\* A step that leaves the update and the folder alone.
LEMMA LoaderRests ==
  ASSUME LoaderInv, UNCHANGED <<launchFiles, argfile, updating, updates, told, mishap>>,
         savedConfig' # Nil => savedConfig # Nil /\ savedConfig'.build = savedConfig.build
  PROVE  /\ Files!Loader!UpdateIsAllOrNothing'
         /\ updating' # Nil => JobIsTrue(updating)'
         /\ told' # Nil => updating' = Nil
BY DEF LoaderInv, Files!Loader!UpdateIsAllOrNothing, Files!Loader!FailedUpdateIsUndone,
   Files!Loader!DoneUpdateLaunches, Files!Loader!Over, JobIsTrue, Files!Loader!Launched

\* Neither a refusal nor the user's edits, starts and stops change the update.
LEMMA LoaderIdles ==
  ASSUME LoaderInv,
         \/ Files!Loader!Judges \/ Files!Loader!Refused \/ Files!Loader!UserEdits
         \/ Files!Loader!Starts \/ Files!Loader!Stops
  PROVE  LoaderInv'
<1> USE DEF Files!Loader!folder, Files!Loader!user
<1>0. Files!Loader!UpdateTypeOK
  BY DEF LoaderInv
<1>1. UNCHANGED <<launchFiles, argfile, updating, updates, told, mishap>>
  BY DEF Files!Loader!Judges, Files!Loader!Refused, Files!Loader!UserEdits, Files!Loader!Starts, Files!Loader!Stops
<1>2. CASE Files!Loader!UserEdits
  <2>1. /\ savedConfig # Nil /\ edits < MaxConfigEdits /\ edits' = edits + 1
        /\ savedConfig' = [savedConfig EXCEPT !.name = edits'] \/ savedConfig' = Nil
        /\ UNCHANGED <<judged, bootedFrom>>
    BY <1>2 DEF Files!Loader!UserEdits
  <2>2. edits' \in 0 .. MaxConfigEdits
    BY <1>0, <2>1, LoaderAssumption DEF Files!Loader!UpdateTypeOK
  <2>3. savedConfig \in [name : 0 .. MaxConfigEdits, build : Files!Loader!Builds]
    BY <1>0, <2>1 DEF Files!Loader!UpdateTypeOK, Files!Loader!Records
  <2>4. /\ savedConfig' \in Files!Loader!Records \cup {Nil}
        /\ savedConfig' # Nil => savedConfig'.build = savedConfig.build
    BY <2>1, <2>2, <2>3 DEF Files!Loader!Records
  <2>5. Files!Loader!UpdateTypeOK'
    BY <1>0, <1>1, <2>1, <2>2, <2>4 DEF Files!Loader!UpdateTypeOK
  <2> QED
    BY <1>1, <2>1, <2>4, <2>5, LoaderRests DEF LoaderInv
<1>3. CASE \/ Files!Loader!Judges \/ Files!Loader!Refused
           \/ Files!Loader!Starts \/ Files!Loader!Stops
  <2>1. UNCHANGED <<savedConfig, edits>>
    BY <1>3 DEF Files!Loader!Judges, Files!Loader!Refused, Files!Loader!Starts, Files!Loader!Stops
  <2>2. judged' \in Files!Loader!Records \cup {Nil} /\ bootedFrom' \in Files!Loader!Builds \cup {Nil}
    BY <1>0, <1>3, LoaderAssumption DEF Files!Loader!Judges, Files!Loader!Refused,
       Files!Loader!Starts, Files!Loader!Stops, Files!Loader!UpdateTypeOK, Files!Loader!Launched,
       Files!Loader!Folders
  <2>3. Files!Loader!UpdateTypeOK'
    BY <1>0, <1>1, <2>1, <2>2 DEF Files!Loader!UpdateTypeOK
  <2> QED
    BY <1>1, <2>1, <2>3, LoaderRests DEF LoaderInv
<1> QED
  BY <1>2, <1>3

\* An update claims the server.
LEMMA LoaderClaims == LoaderInv /\ Files!Loader!Claims => LoaderInv'
<1> USE DEF Files!Loader!folder, Files!Loader!user
<1> SUFFICES ASSUME LoaderInv, Files!Loader!Claims PROVE LoaderInv'
  OBVIOUS
<1>0. Files!Loader!UpdateTypeOK
  BY DEF LoaderInv
<1>1. /\ judged # Nil /\ judged' = Nil /\ updating = Nil /\ updates < MaxUpdates
      /\ updates' = updates + 1 /\ told' = Nil /\ mishap' = FALSE
      /\ UNCHANGED <<launchFiles, argfile, savedConfig, edits, bootedFrom>>
      /\ updating' = [at |-> "copying", config |-> judged, saved |-> [f \in LaunchFiles |-> Nil],
             left |-> LaunchFiles, restored |-> FALSE, was |-> launchFiles,
             launched |-> Files!Loader!Launched]
  BY DEF Files!Loader!Claims
<1>2. updates' \in Files!Loader!Builds
  BY <1>0, <1>1, LoaderAssumption DEF Files!Loader!UpdateTypeOK, Files!Loader!Builds
<1>3. Files!Loader!Launched \in Files!Loader!Builds
  BY <1>0, LoaderAssumption DEF Files!Loader!UpdateTypeOK, Files!Loader!Launched, Files!Loader!Folders
<1>4. updating' \in LoaderJobs
  BY <1>0, <1>1, <1>3 DEF LoaderJobs, Files!Loader!UpdateTypeOK, Files!Loader!Folders, Files!Loader!Stages
<1>5. Files!Loader!UpdateTypeOK'
  BY <1>0, <1>1, <1>2, <1>4 DEF Files!Loader!UpdateTypeOK, LoaderJobs
<1>6. JobIsTrue(updating)'
  BY <1>1 DEF JobIsTrue, Files!Loader!Launched
<1> QED
  BY <1>1, <1>5, <1>6 DEF LoaderInv, Files!Loader!UpdateIsAllOrNothing, Files!Loader!FailedUpdateIsUndone,
   Files!Loader!DoneUpdateLaunches, Files!Loader!Over

\* While an update is under way no last one is told of.
LEMMA LoaderWorks ==
  ASSUME LoaderInv, updating # Nil, UNCHANGED told,
         UNCHANGED <<judged, savedConfig, updates, edits, bootedFrom>>,
         mishap' \in BOOLEAN,
         launchFiles' \in Files!Loader!Folders, argfile' \in Files!Loader!Builds,
         updating' \in LoaderJobs, JobIsTrue(updating)'
  PROVE  LoaderInv'
<1>1. told' = Nil
  BY DEF LoaderInv
<1>2. Files!Loader!UpdateTypeOK'
  BY DEF LoaderInv, Files!Loader!UpdateTypeOK, LoaderJobs
<1> QED
  BY <1>1, <1>2 DEF LoaderInv, Files!Loader!UpdateIsAllOrNothing, Files!Loader!FailedUpdateIsUndone,
   Files!Loader!DoneUpdateLaunches, Files!Loader!Over

\* Each launch file is copied before it is replaced, and put back from its copy.
LEMMA LoaderCopies ==
  ASSUME LoaderInv,
         \/ \E f \in LaunchFiles : Files!Loader!Copies(f)
         \/ Files!Loader!Copied \/ Files!Loader!Downloads \/ Files!Loader!Installs
         \/ Files!Loader!InstallerEnds \/ Files!Loader!Checks
         \/ \E f \in LaunchFiles : Files!Loader!Restores(f)
  PROVE  LoaderInv'
<1> USE DEF Files!Loader!folder, Files!Loader!user, Files!Loader!At, Files!Loader!Goes
<1>1. /\ UNCHANGED <<judged, savedConfig, updates, edits, bootedFrom, told>>
      /\ updating # Nil
  BY DEF Files!Loader!Copies, Files!Loader!Copied, Files!Loader!Downloads, Files!Loader!Installs,
         Files!Loader!InstallerEnds, Files!Loader!Checks, Files!Loader!Restores
<1>2. /\ updating \in LoaderJobs /\ JobIsTrue(updating)
      /\ launchFiles \in Files!Loader!Folders /\ argfile \in Files!Loader!Builds
      /\ updates \in Files!Loader!Builds /\ mishap \in BOOLEAN
  BY <1>1 DEF LoaderInv, Files!Loader!UpdateTypeOK, LoaderJobs
<1>3. ASSUME NEW f \in LaunchFiles, Files!Loader!Copies(f)
      PROVE  LoaderInv'
  <2>1. /\ updating.at = "copying" /\ f \in updating.left
        /\ updating' = [updating EXCEPT !.saved[f] = launchFiles[f], !.left = @ \ {f}]
        /\ UNCHANGED <<launchFiles, argfile, mishap>>
    BY <1>3 DEF Files!Loader!Copies
  <2>2. /\ updating' \in LoaderJobs /\ updating'.at = "copying" /\ updating'.was = updating.was
        /\ updating'.left = updating.left \ {f} /\ updating'.launched = updating.launched
        /\ updating'.saved = [updating.saved EXCEPT ![f] = launchFiles[f]]
    BY <1>2, <2>1 DEF LoaderJobs, Files!Loader!Folders
  <2>3. \A g \in LaunchFiles : updating'.saved[g] = IF g = f THEN launchFiles[f] ELSE updating.saved[g]
    BY <1>2, <2>2 DEF LoaderJobs, Files!Loader!Folders
  <2>4. JobIsTrue(updating)'
    BY <1>1, <1>2, <2>1, <2>2, <2>3 DEF JobIsTrue, Files!Loader!Launched
  <2> QED
    BY <1>1, <1>2, <2>1, <2>2, <2>4, LoaderWorks
<1>4. ASSUME NEW stage \in Files!Loader!Stages,
             updating' = [updating EXCEPT !.at = stage, !.left = LaunchFiles],
             UNCHANGED <<launchFiles, argfile, mishap>>,
             updating.at = "copying" => updating.left = {} /\ stage = "downloading",
             updating.at = "downloading" => stage = "installing",
             stage \notin {"copying"}, stage = "downloading" => updating.at = "copying",
             stage = "saving" => Files!Loader!Launched = updates
      PROVE  LoaderInv'
  <2>1. /\ updating' \in LoaderJobs /\ updating'.at = stage /\ updating'.was = updating.was
        /\ updating'.left = LaunchFiles /\ updating'.launched = updating.launched
        /\ updating'.saved = updating.saved
    BY <1>2, <1>4 DEF LoaderJobs
  <2>2. JobIsTrue(updating)'
    BY <1>1, <1>2, <1>4, <2>1 DEF JobIsTrue, Files!Loader!Launched
  <2> QED
    BY <1>1, <1>2, <1>4, <2>1, <2>2, LoaderWorks
<1>5. CASE Files!Loader!Copied \/ Files!Loader!Downloads \/ Files!Loader!InstallerEnds \/ Files!Loader!Checks
  BY <1>4, <1>5 DEF Files!Loader!Copied, Files!Loader!Downloads, Files!Loader!InstallerEnds,
     Files!Loader!Checks, Files!Loader!Stages
<1>6. CASE Files!Loader!Installs
  <2>1. updating.at = "installing" /\ UNCHANGED <<updating, mishap>>
    BY <1>6 DEF Files!Loader!Installs
  <2>2. launchFiles' \in Files!Loader!Folders /\ argfile' \in Files!Loader!Builds
    BY <1>2, <1>6 DEF Files!Loader!Installs, Files!Loader!Folders
  <2>3. JobIsTrue(updating)'
    BY <1>2, <2>1 DEF JobIsTrue
  <2> QED
    BY <1>1, <1>2, <2>1, <2>2, <2>3, LoaderWorks
<1>7. ASSUME NEW f \in LaunchFiles, Files!Loader!Restores(f)
      PROVE  LoaderInv'
  <2>1. /\ updating.at = "restoring" /\ f \in updating.left /\ UNCHANGED argfile
        /\ \/ /\ updating.saved[f] # Nil /\ launchFiles' = [launchFiles EXCEPT ![f] = updating.saved[f]]
              /\ updating' = [updating EXCEPT !.left = @ \ {f}, !.restored = TRUE]
              /\ UNCHANGED mishap
           \/ /\ mishap' = (mishap \/ updating.saved[f] # Nil)
              /\ updating' = [updating EXCEPT !.left = @ \ {f}]
              /\ UNCHANGED launchFiles
    BY <1>7 DEF Files!Loader!Restores
  <2>2. /\ updating' \in LoaderJobs /\ updating'.at = "restoring" /\ updating'.was = updating.was
        /\ updating'.left = updating.left \ {f} /\ updating'.launched = updating.launched
        /\ updating'.saved = updating.saved
    BY <1>2, <2>1 DEF LoaderJobs
  <2>3. launchFiles' \in Files!Loader!Folders /\ mishap' \in BOOLEAN
    BY <1>2, <2>1 DEF Files!Loader!Folders, LoaderJobs
  <2>4. ~ mishap' => ~ mishap
    BY <2>1
  <2>5. \A g \in LaunchFiles : g # f => launchFiles'[g] = launchFiles[g]
    BY <1>2, <2>1 DEF Files!Loader!Folders
  <2>6. ~ mishap' /\ updating.saved[f] # Nil => launchFiles'[f] = updating.saved[f]
    BY <1>2, <2>1 DEF Files!Loader!Folders
  <2>7. ~ mishap' => \A g \in LaunchFiles \ updating'.left :
                      updating.saved[g] # Nil => launchFiles'[g] = updating.saved[g]
    <3>1. ~ mishap => \A g \in LaunchFiles \ updating.left :
                        updating.saved[g] # Nil => launchFiles[g] = updating.saved[g]
      BY <1>2, <2>1 DEF JobIsTrue
    <3> QED
      BY <2>2, <2>4, <2>5, <2>6, <3>1
  <2>8. /\ \A g \in LaunchFiles : updating.saved[g] = updating.was[g]
        /\ updating.was[Script] # Nil => updating.launched = updating.was[Script]
    BY <1>2, <2>1 DEF JobIsTrue
  <2>9. JobIsTrue(updating)'
    BY <2>2, <2>7, <2>8 DEF JobIsTrue
  <2> QED
    BY <1>1, <1>2, <2>1, <2>2, <2>3, <2>9, LoaderWorks
<1> QED
  BY <1>3, <1>5, <1>6, <1>7

\* An update ends undone or done.
LEMMA LoaderEnds ==
  ASSUME LoaderInv,
         \/ Files!Loader!FailsUntouched \/ Files!Loader!RolledBack
         \/ Files!Loader!Saves \/ Files!Loader!ProgramEnds
  PROVE  LoaderInv'
<1> USE DEF Files!Loader!folder, Files!Loader!user, Files!Loader!At, Files!Loader!Ends
<1>0. Files!Loader!UpdateTypeOK
  BY DEF LoaderInv
<1>1. UNCHANGED <<launchFiles, argfile, updates, edits>> /\ updating' = Nil
  BY DEF Files!Loader!FailsUntouched, Files!Loader!RolledBack, Files!Loader!Saves, Files!Loader!ProgramEnds
<1>2. ASSUME updating # Nil
      PROVE  updating \in LoaderJobs /\ JobIsTrue(updating)
  BY <1>2 DEF LoaderInv, Files!Loader!UpdateTypeOK, LoaderJobs
<1>3. CASE Files!Loader!ProgramEnds
  <2>1. judged' = Nil /\ told' = Nil /\ bootedFrom' = Nil /\ mishap' = TRUE /\ UNCHANGED savedConfig
    BY <1>3 DEF Files!Loader!ProgramEnds
  <2>2. Files!Loader!UpdateTypeOK'
    BY <1>0, <1>1, <2>1 DEF Files!Loader!UpdateTypeOK
  <2> QED
    BY <1>1, <2>1, <2>2 DEF LoaderInv, Files!Loader!UpdateIsAllOrNothing, Files!Loader!FailedUpdateIsUndone,
       Files!Loader!DoneUpdateLaunches, Files!Loader!Over
<1>4. CASE Files!Loader!FailsUntouched \/ Files!Loader!RolledBack
  <2>1. PICK back \in BOOLEAN :
          told' = [failed |-> TRUE, rolledBack |-> back, saved |-> FALSE,
                   was |-> updating.was, launched |-> updating.launched]
    BY <1>2, <1>4 DEF Files!Loader!FailsUntouched, Files!Loader!RolledBack, LoaderJobs
  <2>2. /\ updating # Nil /\ UNCHANGED <<savedConfig, judged, bootedFrom, mishap>>
        /\ \/ updating.at \in {"copying", "downloading"}
           \/ updating.at = "restoring" /\ updating.left = {}
    BY <1>4 DEF Files!Loader!FailsUntouched, Files!Loader!RolledBack
  <2>3. Files!Loader!UpdateTypeOK'
    BY <1>0, <1>1, <1>2, <2>1, <2>2 DEF Files!Loader!UpdateTypeOK, LoaderJobs
  <2>4. ~ mishap => \A f \in LaunchFiles : updating.was[f] # Nil => launchFiles[f] = updating.was[f]
    BY <1>2, <2>2 DEF JobIsTrue
  <2>5. ~ mishap /\ updating.was[Script] # Nil => Files!Loader!Launched = updating.launched
    BY <1>2, <2>2, <2>4, LoaderAssumption DEF JobIsTrue, Files!Loader!Launched
  <2>6. Files!Loader!UpdateIsAllOrNothing'
    BY <1>1, <2>1, <2>2, <2>4, <2>5 DEF Files!Loader!UpdateIsAllOrNothing, Files!Loader!FailedUpdateIsUndone,
       Files!Loader!DoneUpdateLaunches, Files!Loader!Over, Files!Loader!Launched
  <2> QED
    BY <1>1, <2>3, <2>6 DEF LoaderInv
<1>5. CASE Files!Loader!Saves
  <2>1. PICK written \in BOOLEAN :
          /\ told' = [failed |-> FALSE, rolledBack |-> FALSE, saved |-> written,
                      was |-> updating.was, launched |-> updating.launched]
          /\ savedConfig' = IF written THEN [updating.config EXCEPT !.build = updates] ELSE savedConfig
    BY <1>5 DEF Files!Loader!Saves
  <2>2. updating # Nil /\ updating.at = "saving" /\ UNCHANGED <<judged, bootedFrom, mishap>>
    BY <1>5 DEF Files!Loader!Saves
  <2>3. /\ [updating.config EXCEPT !.build = updates] \in Files!Loader!Records
        /\ [updating.config EXCEPT !.build = updates].build = updates
    BY <1>0, <1>2, <2>2 DEF LoaderJobs, Files!Loader!Records, Files!Loader!UpdateTypeOK
  <2>4. Files!Loader!UpdateTypeOK'
    BY <1>0, <1>1, <1>2, <2>1, <2>2, <2>3 DEF Files!Loader!UpdateTypeOK, LoaderJobs
  <2>5. Files!Loader!Launched = updates
    BY <1>2, <2>2 DEF JobIsTrue
  <2>6. Files!Loader!UpdateIsAllOrNothing'
    BY <1>1, <2>1, <2>3, <2>5 DEF Files!Loader!UpdateIsAllOrNothing, Files!Loader!FailedUpdateIsUndone,
       Files!Loader!DoneUpdateLaunches, Files!Loader!Over, Files!Loader!Launched
  <2> QED
    BY <1>1, <2>4, <2>6 DEF LoaderInv
<1> QED
  BY <1>3, <1>4, <1>5

\* No step of an update or of the user breaks it (loader.go).
LEMMA LoaderStep == LoaderInv /\ [Files!Loader!UpdateNext]_(Files!loaderVars) => LoaderInv'
<1> SUFFICES ASSUME LoaderInv, [Files!Loader!UpdateNext]_(Files!loaderVars) PROVE LoaderInv'
  OBVIOUS
<1>1. CASE UNCHANGED Files!loaderVars
  BY <1>1 DEF Files!loaderVars, LoaderInv, Files!Loader!UpdateTypeOK, Files!Loader!UpdateIsAllOrNothing,
     Files!Loader!FailedUpdateIsUndone, Files!Loader!DoneUpdateLaunches, Files!Loader!Over,
     JobIsTrue, Files!Loader!Launched
<1>2. CASE Files!Loader!UpdateNext
  BY <1>2, LoaderIdles, LoaderClaims, LoaderCopies, LoaderEnds DEF Files!Loader!UpdateNext
<1> QED
  BY <1>1, <1>2

-----------------------------------------------------------------------------
(****************************************************************************)
(* The mods folder, its rows and its scans (modservice.go, modidentify.go). *)
(****************************************************************************)
MFiles == ModNames \X BOOLEAN
MFolders == [MFiles -> DOMAIN Hosted \cup Foreign \cup {"half", Nil}]
MRows == [build : DOMAIN Hosted \cup {Nil}, known : BOOLEAN, asked : BOOLEAN]
MAnswers == [MFiles -> DOMAIN Hosted \cup {Nil}]
MInstalls ==
  [at : {"downloading", "superseding", "saving"}, build : DOMAIN Hosted, file : MFiles,
   aside : MFolders, off : BOOLEAN, gone : SUBSET ModNames, was : MFolders,
   trouble : BOOLEAN, saved : BOOLEAN]
MEnds == [ok : BOOLEAN, file : MFiles, was : MFolders, wasRows : [MFiles -> MRows \cup {Nil}],
          trouble : BOOLEAN]

\* What is assumed of the constants, by the names used here.
LEMMA ModsConstants ==
  /\ {MaxModCalls, MaxDrops} \subseteq Nat
  /\ \A b \in DOMAIN Hosted : Hosted[b] \in ModNames
  /\ "half" \notin DOMAIN Hosted \cup {Nil}
  /\ Nil \notin MRows \cup MFolders \cup MInstalls \cup [at : {"picked"}]
BY ModsAssumption DEF MRows, MFolders, MInstalls, MFiles


ModTypes ==
  /\ jar \in MFolders /\ modRows \in [MFiles -> MRows \cup {Nil}]
  /\ modCall \in MInstalls \cup [at : {"picked"}] \cup {Nil}
  /\ sig \in MFolders \cup {Nil}
  /\ scans \in Nat /\ scans <= modCalls
  /\ check \in MAnswers \cup {Nil} /\ cache \in MAnswers \cup {Nil}
  /\ modCalls \in 0 .. MaxModCalls /\ drops \in 0 .. MaxDrops
  /\ installTold \in MEnds \cup {Nil}
  /\ modDoubt \subseteq {"rewritten", "misfiled", "overlooked", "outdated"}

On(c) == <<Hosted[c.build], TRUE>>
Off(c) == <<Hosted[c.build], FALSE>>

\* A row tells that a file of this name is a mod's.
KnownName(n) == \E on \in BOOLEAN : modRows[<<n, on>>] # Nil /\ modRows[<<n, on>>].known

\* How far an install has come shows in the folder.
InstallShape(c) ==
  /\ c.file \in {On(c), Off(c)}
  /\ c.at # "saving" => c.file = On(c)
  /\ c.at = "downloading" => jar = c.was /\ ~ c.trouble
  /\ c.at # "downloading" => /\ jar[c.file] = c.build
                             /\ ~ c.trouble => c.was[On(c)] = Nil
  /\ c.at = "superseding" => \A f \in MFiles \ {On(c)} : jar[f] = c.was[f]
  /\ c.at = "saving" =>
       /\ \A f \in {On(c), Off(c)} \ {c.file} : jar[f] = Nil
       /\ \A f \in MFiles : c.aside[f] # Nil => /\ c.aside[f] = c.was[f] /\ f # On(c)
                                                /\ f # Off(c) => jar[f] = Nil
       /\ c.was[Off(c)] = c.aside[Off(c)]
       /\ \A f \in MFiles \ {On(c), Off(c)} : c.aside[f] = Nil => jar[f] = c.was[f]
       /\ \A f \in MFiles : f[1] \in c.gone /\ f # c.file => jar[f] = Nil
       /\ \A f \in MFiles : f[1] # Hosted[c.build] /\ KnownName(f[1]) => jar[f] = Nil
InstallsGo == modCall \in MInstalls => InstallShape(modCall)

\* During an install the rows are about the folder as it was.
RowsMatch(folder) ==
  \A f \in MFiles : (folder[f] # Nil /\ modRows[f] # Nil /\ modRows[f].build # Nil)
                       => folder[f] = modRows[f].build
RowsHold ==
  "rewritten" \notin modDoubt /\ "misfiled" \notin modDoubt =>
    /\ modCall \notin MInstalls => RowsMatch(jar)
    /\ modCall \in MInstalls => RowsMatch(modCall.was)

\* What the last scan saw is accounted for under either name of the file.
SeenIsKnown(folder) ==
  \A f \in MFiles : (folder[f] # Nil /\ Files!Mods!Seen(f[1], folder[f])) => Files!Mods!Accounted(f)
SeenHolds ==
  scans = 0 /\ "overlooked" \notin modDoubt /\ "misfiled" \notin modDoubt =>
    /\ SeenIsKnown(jar)
    /\ modCall \in MInstalls =>
         /\ SeenIsKnown(modCall.was)
         /\ modCall.at # "downloading" => ~ Files!Mods!Seen(Hosted[modCall.build], modCall.build)

\* An answer about a file holds of the row it has, under either name.
AnswerHolds(x) ==
  x # Nil => \A f \in MFiles : x[f] # Nil =>
    /\ modRows[f] # Nil => modRows[f].build = x[f]
    /\ modRows[f] = Nil => \A g \in MFiles : g[1] = f[1] /\ modRows[g] # Nil => modRows[g].build = x[f]
CacheHolds ==
  /\ "outdated" \notin modDoubt /\ "misfiled" \notin modDoubt
  /\ modCall = Nil \/ (modCall \in MInstalls /\ ~ modCall.saved)
  => AnswerHolds(check) /\ AnswerHolds(cache)

ModsInv == /\ ModTypes /\ InstallsGo /\ RowsHold /\ SeenHolds /\ CacheHolds
           /\ Files!Mods!InstallIsAllOrNothing

\* A file is a name and whether it is enabled.
LEMMA ModFiles ==
  /\ \A n \in ModNames, on \in BOOLEAN : <<n, on>> \in MFiles /\ <<n, on>>[1] = n /\ <<n, on>>[2] = on
  /\ \A f \in MFiles : f[1] \in ModNames /\ f[2] \in BOOLEAN /\ f = <<f[1], f[2]>>
  /\ \A f \in MFiles : f = <<f[1], TRUE>> \/ f = <<f[1], FALSE>>
  /\ \A n \in ModNames : <<n, TRUE>> # <<n, FALSE>>
<1>1. /\ \A n \in ModNames, on \in BOOLEAN : <<n, on>> \in MFiles /\ <<n, on>>[1] = n /\ <<n, on>>[2] = on
      /\ \A f \in MFiles : f[1] \in ModNames /\ f[2] \in BOOLEAN /\ f = <<f[1], f[2]>>
  BY DEF MFiles
<1>2. ASSUME NEW f \in MFiles PROVE f = <<f[1], TRUE>> \/ f = <<f[1], FALSE>>
  <2>1. f[2] = TRUE \/ f[2] = FALSE
    BY <1>1
  <2> QED
    BY <1>1, <2>1
<1>3. ASSUME NEW n \in ModNames PROVE <<n, TRUE>> # <<n, FALSE>>
  OBVIOUS
<1> QED
  BY <1>1, <1>2, <1>3

\* The constants of the part, by their names here.
LEMMA ModSets ==
  /\ Files!Mods!Files = MFiles /\ Files!Mods!Folders = MFolders /\ Files!Mods!Row = MRows
  /\ Files!Mods!Builds = DOMAIN Hosted \cup Foreign
BY DEF MFiles, MFolders, MRows, Files!Mods!Files, Files!Mods!Folders, Files!Mods!Row,
   Files!Mods!Builds, Files!Mods!Contents

\* What is under way: an install, a pick, or nothing.
LEMMA ModCalls ==
  ASSUME ModTypes
  PROVE  /\ modCall = Nil => modCall \notin MInstalls
         /\ modCall \in MInstalls <=> modCall # Nil /\ modCall.at # "picked"
         /\ modCall \in MInstalls => modCall.at \in {"downloading", "superseding", "saving"}
         /\ [at |-> "picked"] \notin MInstalls /\ [at |-> "picked"] # Nil
         /\ Nil \notin MInstalls
BY ModsConstants DEF ModTypes, MInstalls

\* What modservice.go and modidentify.go say of the folder is true.
LEMMA ModsPromise == ModsInv => Files!Mods!ModTypeOK /\ Files!Mods!FolderIsTrue
<1> SUFFICES ASSUME ModsInv PROVE Files!Mods!ModTypeOK /\ Files!Mods!FolderIsTrue
  OBVIOUS
<1>0. ModTypes
  BY DEF ModsInv
<1>1. Files!Mods!ModTypeOK
  <2>1. scans \in 0 .. MaxModCalls
    BY <1>0, ModsConstants DEF ModTypes
  <2> QED
    BY <1>0, <2>1, ModSets DEF ModTypes, Files!Mods!ModTypeOK, Files!Mods!Doubts, MInstalls, MEnds, MAnswers
<1>2. modCall = Nil => modCall \notin MInstalls
  BY <1>0, ModCalls
<1>3. Files!Mods!RowsAreTrue
  BY <1>0, <1>2, ModSets DEF ModsInv, RowsHold, RowsMatch, Files!Mods!RowsAreTrue, Files!Mods!Present
<1>4. Files!Mods!QuietFolderIsKnown
  <2> SUFFICES ASSUME sig = jar, scans = 0, "overlooked" \notin modDoubt, "misfiled" \notin modDoubt,
                      NEW f \in MFiles, jar[f] # Nil
               PROVE  Files!Mods!Accounted(f)
    BY ModSets DEF Files!Mods!QuietFolderIsKnown, Files!Mods!Unknown, Files!Mods!Present
  <2>1. sig # Nil
    BY <1>0, ModsConstants DEF ModTypes
  <2>2. sig[<<f[1], f[2]>>] = jar[f] /\ f[2] \in BOOLEAN
    BY ModFiles
  <2>3. Files!Mods!Seen(f[1], jar[f])
    BY <2>1, <2>2 DEF Files!Mods!Seen
  <2> QED
    BY <2>3 DEF ModsInv, SeenHolds, SeenIsKnown
<1>5. Files!Mods!CacheIsCurrent
  BY <1>0, ModSets DEF ModsInv, CacheHolds, AnswerHolds, Files!Mods!CacheIsCurrent, Files!Mods!Present
<1> QED
  BY <1>1, <1>3, <1>4, <1>5 DEF ModsInv, Files!Mods!FolderIsTrue

\* A folder begins empty, or with one mod that was installed.
LEMMA ModsStart == Files!Mods!ModInit => ModsInv
<1> SUFFICES ASSUME Files!Mods!ModInit PROVE ModsInv
  OBVIOUS
<1> DEFINE E == [f \in MFiles |-> Nil]
<1>0. Files!Mods!Empty = E /\ E \in MFolders /\ E \in [MFiles -> MRows \cup {Nil}]
  BY ModSets DEF Files!Mods!Empty, MFolders
<1>1. /\ modCall = Nil /\ sig = Nil /\ scans = 0 /\ check = Nil /\ cache = Nil /\ modCalls = 0
      /\ drops = 0 /\ installTold = Nil /\ modDoubt = {}
  BY DEF Files!Mods!ModInit
<1>2. /\ jar \in MFolders /\ modRows \in [MFiles -> MRows \cup {Nil}]
      /\ RowsMatch(jar)
  <2>1. CASE jar = Files!Mods!Empty /\ modRows = Files!Mods!Empty
    BY <1>0, <2>1 DEF RowsMatch
  <2>2. CASE \E b \in DOMAIN Hosted, on \in BOOLEAN :
               /\ jar = [Files!Mods!Empty EXCEPT ![<<Hosted[b], on>>] = b]
               /\ modRows = [Files!Mods!Empty EXCEPT ![<<Hosted[b], on>>] = Files!Mods!Installed(b)]
    <3>1. PICK b \in DOMAIN Hosted, on \in BOOLEAN :
               /\ jar = [E EXCEPT ![<<Hosted[b], on>>] = b]
               /\ modRows = [E EXCEPT ![<<Hosted[b], on>>] = Files!Mods!Installed(b)]
      BY <1>0, <2>2
    <3>2. Files!Mods!Installed(b) \in MRows /\ Files!Mods!Installed(b).build = b
      BY DEF Files!Mods!Installed, MRows
    <3>3. <<Hosted[b], on>> \in MFiles
      BY ModsConstants, ModFiles
    <3> QED
      BY <3>1, <3>2, <3>3 DEF RowsMatch, MFolders
  <2> QED
    BY <2>1, <2>2 DEF Files!Mods!ModInit
<1>3. ModTypes
  BY <1>1, <1>2, ModsConstants DEF ModTypes
<1>4. SeenIsKnown(jar)
  BY <1>1 DEF SeenIsKnown, Files!Mods!Seen
<1> QED
  BY <1>1, <1>2, <1>3, <1>4, ModsConstants DEF ModsInv, InstallsGo, RowsHold, SeenHolds, CacheHolds,
     AnswerHolds, Files!Mods!InstallIsAllOrNothing

\* What a call leaves alone keeps what is said of it.
LEMMA ModsBegins ==
  ASSUME ModsInv, NEW b \in DOMAIN Hosted, Files!Mods!InstallBegins(b)
  PROVE  ModsInv'
<1> USE DEF Files!Mods!Called, Files!Mods!Quiet
<1> DEFINE c == Files!Mods!Asks(b)
<1>0. ModTypes /\ modCall = Nil /\ modCall \notin MInstalls
  BY ModCalls DEF ModsInv, Files!Mods!InstallBegins
<1>1. /\ UNCHANGED <<jar, modRows, sig, scans, check, cache, drops, modDoubt>>
      /\ modCall' = c /\ modCalls < MaxModCalls /\ modCalls' = modCalls + 1 /\ installTold' = Nil
  BY DEF Files!Mods!InstallBegins
<1>2. /\ c \in MInstalls /\ c.at = "downloading" /\ c.build = b /\ c.file = <<Hosted[b], TRUE>>
      /\ c.was = jar /\ ~ c.trouble /\ ~ c.saved
  <2>1. Files!Mods!Empty \in MFolders
    BY ModSets DEF Files!Mods!Empty, MFolders
  <2>2. <<Hosted[b], TRUE>> \in MFiles
    BY ModsConstants, ModFiles
  <2> QED
    BY <1>0, <2>1, <2>2 DEF Files!Mods!Asks, MInstalls, ModTypes
<1> HIDE DEF c
<1>3. ModTypes'
  BY <1>0, <1>1, <1>2, ModsConstants DEF ModTypes
<1>4. InstallsGo'
  BY <1>1, <1>2 DEF InstallsGo, InstallShape, On, Off
<1>5. RowsHold'
  BY <1>0, <1>1, <1>2 DEF ModsInv, RowsHold, RowsMatch
<1>6. SeenHolds'
  BY <1>0, <1>1, <1>2 DEF ModsInv, SeenHolds, SeenIsKnown, Files!Mods!Seen, Files!Mods!Accounted
<1>7. CacheHolds'
  BY <1>0, <1>1, <1>2 DEF ModsInv, CacheHolds, AnswerHolds
<1> QED
  BY <1>1, <1>3, <1>4, <1>5, <1>6, <1>7 DEF ModsInv, Files!Mods!InstallIsAllOrNothing

\* An install that ends without the row leaves the rows as they were.
LEMMA ModsGivesUp ==
  ASSUME ModsInv, modCall \in MInstalls, NEW trouble \in BOOLEAN, Files!Mods!Returns(FALSE, trouble),
         UNCHANGED <<modRows, sig, scans, check, cache, modCalls, drops>>,
         jar' \in MFolders, NEW d, d \subseteq {"rewritten", "outdated"}, modDoubt' = modDoubt \cup d,
         modCall.saved => "outdated" \in d,
         "rewritten" \notin d =>
           \A f \in MFiles : jar'[f] = modCall.was[f] \/ jar'[f] = Nil \/ modRows[f] = Nil,
         \A f \in MFiles : jar'[f] \in {jar[f], modCall.was[f], Nil},
         ~ trouble => jar' = modCall.was
  PROVE  ModsInv'
<1>0. ModTypes /\ "misfiled" \notin d /\ "overlooked" \notin d
  BY DEF ModsInv
<1>1. /\ modCall' = Nil /\ modCall' \notin MInstalls
      /\ installTold' = [ok |-> FALSE, file |-> modCall.file, was |-> modCall.was, wasRows |-> modRows,
                         trouble |-> trouble]
  BY ModsConstants DEF Files!Mods!Returns
<1>2. installTold' \in MEnds /\ ~ installTold'.ok /\ installTold'.was = modCall.was
      /\ installTold'.trouble = trouble
  BY <1>0, <1>1 DEF MEnds, ModTypes, MInstalls
<1>3. ModTypes'
  BY <1>0, <1>1, <1>2 DEF ModTypes
<1>4. InstallsGo'
  BY <1>1 DEF InstallsGo
<1>5. RowsHold'
  BY <1>0, <1>1 DEF ModsInv, RowsHold, RowsMatch
<1>6. SeenHolds'
  <2> SUFFICES ASSUME scans = 0, "overlooked" \notin modDoubt, "misfiled" \notin modDoubt,
                      NEW f \in MFiles, jar'[f] # Nil, Files!Mods!Seen(f[1], jar'[f])
               PROVE  Files!Mods!Accounted(f)
    BY <1>0, <1>1 DEF SeenHolds, SeenIsKnown, Files!Mods!Seen, Files!Mods!Accounted
  <2>1. jar'[f] = jar[f] \/ jar'[f] = modCall.was[f]
    OBVIOUS
  <2> QED
    BY <2>1 DEF ModsInv, SeenHolds, SeenIsKnown
<1>7. CacheHolds'
  BY <1>0, <1>1 DEF ModsInv, CacheHolds, AnswerHolds
<1>8. Files!Mods!InstallIsAllOrNothing'
  BY <1>1, <1>2 DEF Files!Mods!InstallIsAllOrNothing
<1> QED
  BY <1>3, <1>4, <1>5, <1>6, <1>7, <1>8 DEF ModsInv

\* An install that fails puts back what it moved.
LEMMA ModsFails ==
  ASSUME ModsInv, Files!Mods!InstallFails \/ Files!Mods!SupersedeFails \/ Files!Mods!Undoes
  PROVE  ModsInv'
<1> USE DEF Files!Mods!Under, Files!Mods!Doubting, Files!Mods!When, Files!Mods!Present
<1>0. ModTypes /\ modCall \in MInstalls /\ InstallShape(modCall)
  <2>1. modCall # Nil /\ modCall.at # "picked"
    BY DEF Files!Mods!InstallFails, Files!Mods!SupersedeFails, Files!Mods!Undoes
  <2> QED
    BY <2>1, ModCalls DEF ModsInv, InstallsGo
<1>1. /\ modCall.trouble \in BOOLEAN /\ modCall.was \in MFolders /\ modCall.aside \in MFolders
      /\ modCall.file \in MFiles /\ jar \in MFolders
      /\ On(modCall) \in MFiles /\ Off(modCall) \in MFiles /\ On(modCall) # Off(modCall)
  BY <1>0, ModFiles, ModsConstants DEF MInstalls, On, Off, ModTypes
<1>2. UNCHANGED <<modRows, sig, scans, check, cache, modCalls, drops>>
  BY DEF Files!Mods!InstallFails, Files!Mods!SupersedeFails, Files!Mods!Undoes
<1>3. CASE Files!Mods!InstallFails
  <2> DEFINE d == IF modCall.saved THEN {"outdated"} ELSE {}
  <2>1. /\ jar' = jar /\ jar = modCall.was /\ Files!Mods!Returns(FALSE, modCall.trouble)
        /\ modDoubt' = modDoubt \cup d
    BY <1>0, <1>3 DEF Files!Mods!InstallFails, InstallShape
  <2>2. d \subseteq {"rewritten", "outdated"} /\ (modCall.saved => "outdated" \in d)
    OBVIOUS
  <2> QED
    BY <1>0, <1>1, <1>2, <2>1, <2>2, ModsGivesUp
<1>4. CASE Files!Mods!SupersedeFails
  <2>0. modCall.at = "superseding" /\ Files!Mods!Returns(FALSE, TRUE)
    BY <1>4 DEF Files!Mods!SupersedeFails
  <2>1. PICK stuck : /\ jar' = [f \in MFiles |-> IF f \in stuck THEN Nil ELSE jar[f]]
                     /\ modDoubt' = modDoubt \cup
                          ((IF modCall.saved THEN {"outdated"} ELSE {})
                             \cup (IF stuck # {} \/ modRows[modCall.file] # Nil THEN {"rewritten"} ELSE {}))
    BY <1>4, ModSets DEF Files!Mods!SupersedeFails
  <2> DEFINE d == (IF modCall.saved THEN {"outdated"} ELSE {})
                    \cup (IF stuck # {} \/ modRows[modCall.file] # Nil THEN {"rewritten"} ELSE {})
  <2>2. /\ d \subseteq {"rewritten", "outdated"} /\ (modCall.saved => "outdated" \in d)
        /\ "rewritten" \notin d => stuck = {} /\ modRows[modCall.file] = Nil
        /\ modDoubt' = modDoubt \cup d
    BY <2>1
  <2> HIDE DEF d
  <2>3. \A f \in MFiles : jar'[f] \in {jar[f], Nil} /\ (stuck = {} => jar'[f] = jar[f])
    BY <2>1
  <2>4. jar' \in MFolders
    BY <1>1, <2>1 DEF MFolders
  <2>5. \A f \in MFiles : f # modCall.file => jar[f] = modCall.was[f]
    BY <1>0, <2>0 DEF InstallShape
  <2>6. "rewritten" \notin d =>
          \A f \in MFiles : jar'[f] = modCall.was[f] \/ jar'[f] = Nil \/ modRows[f] = Nil
    BY <2>2, <2>3, <2>5
  <2> QED
    BY <1>0, <1>2, <2>0, <2>2, <2>3, <2>4, <2>6, ModsGivesUp
<1>5. CASE Files!Mods!Undoes
  <2> DEFINE a == modCall.aside
  <2>0. modCall.at = "saving"
    BY <1>5 DEF Files!Mods!Undoes
  <2>1. PICK stuck : /\ jar' = [f \in MFiles |-> IF f \in stuck THEN jar[f]
                                                 ELSE IF a[f] # Nil THEN a[f]
                                                 ELSE IF f = modCall.file THEN Nil ELSE jar[f]]
                     /\ Files!Mods!Returns(FALSE, modCall.trouble \/ stuck # {})
                     /\ modDoubt' = modDoubt \cup
                          ((IF modCall.saved THEN {"outdated"} ELSE {})
                             \cup (IF stuck # {} THEN {"rewritten"} ELSE {}))
    BY <1>5, ModSets DEF Files!Mods!Undoes
  <2> DEFINE d == (IF modCall.saved THEN {"outdated"} ELSE {})
                    \cup (IF stuck # {} THEN {"rewritten"} ELSE {})
             trouble == modCall.trouble \/ stuck # {}
  <2>2. /\ d \subseteq {"rewritten", "outdated"} /\ (modCall.saved => "outdated" \in d)
        /\ "rewritten" \notin d => stuck = {}
        /\ modDoubt' = modDoubt \cup d
    BY <2>1
  <2>3. /\ trouble \in BOOLEAN /\ Files!Mods!Returns(FALSE, trouble)
        /\ ~ trouble => stuck = {} /\ ~ modCall.trouble
    BY <2>1
  <2> HIDE DEF d, trouble
  <2>4. /\ modCall.file \in {On(modCall), Off(modCall)}
        /\ ~ modCall.trouble => modCall.was[On(modCall)] = Nil
        /\ \A f \in {On(modCall), Off(modCall)} \ {modCall.file} : jar[f] = Nil
        /\ \A f \in MFiles : a[f] # Nil => a[f] = modCall.was[f] /\ f # On(modCall)
        /\ modCall.was[Off(modCall)] = a[Off(modCall)]
        /\ \A f \in MFiles \ {On(modCall), Off(modCall)} : a[f] = Nil => jar[f] = modCall.was[f]
    BY <1>0, <2>0 DEF InstallShape
  <2>5. jar' \in MFolders
    BY <1>1, <2>1 DEF MFolders
  <2> HIDE DEF a
  <2>6. \A f \in MFiles : jar'[f] \in {jar[f], modCall.was[f], Nil}
    BY <2>1, <2>4
  <2>7. stuck = {} => \A f \in MFiles : jar'[f] = modCall.was[f] \/ jar'[f] = Nil
    BY <2>1, <2>4
  <2>8. ~ trouble => \A f \in MFiles : jar'[f] = modCall.was[f]
    <3> SUFFICES ASSUME ~ trouble, NEW f \in MFiles PROVE jar'[f] = modCall.was[f]
      OBVIOUS
    <3>1. stuck = {} /\ modCall.was[On(modCall)] = Nil
      BY <2>3, <2>4
    <3>2. CASE f = On(modCall)
      BY <2>1, <2>4, <3>1, <3>2
    <3>3. CASE f = Off(modCall)
      BY <2>1, <2>4, <3>1, <3>3
    <3>4. CASE f \notin {On(modCall), Off(modCall)}
      BY <2>1, <2>4, <3>1, <3>4
    <3> QED
      BY <3>2, <3>3, <3>4
  <2>9. ~ trouble => jar' = modCall.was
    BY <1>1, <2>5, <2>8 DEF MFolders
  <2> QED
    BY <1>0, <1>2, <2>2, <2>3, <2>5, <2>6, <2>7, <2>9, ModsGivesUp
<1> QED
  BY <1>3, <1>4, <1>5

\* An install goes on: what it moves it had or takes from what it downloads.
LEMMA ModsGoesOn ==
  ASSUME ModsInv, modCall \in MInstalls, NEW c \in MInstalls, modCall' = c,
         UNCHANGED <<modRows, scans, check, cache, modCalls, drops, modDoubt>>, installTold' = Nil,
         c.was = modCall.was, c.build = modCall.build, c.saved = modCall.saved, c.at # "downloading",
         jar' \in MFolders, sig' = sig \/ sig' = Nil,
         \A f \in MFiles : \/ jar'[f] \in {jar[f], Nil}
                            \/ (f[1] = Hosted[c.build] /\ jar'[f] = c.build),
         ~ Files!Mods!Seen(Hosted[c.build], c.build)' \/ (modCall.at # "downloading" /\ sig' = sig),
         InstallShape(c)'
  PROVE  ModsInv'
<1>0. ModTypes
  BY DEF ModsInv
<1>1. ModTypes'
  BY <1>0 DEF ModTypes
<1>2. InstallsGo' /\ RowsHold' /\ CacheHolds'
  BY ModsConstants DEF ModsInv, InstallsGo, RowsHold, RowsMatch, CacheHolds, AnswerHolds
<1>3. SeenHolds'
  <2> SUFFICES ASSUME scans = 0, "overlooked" \notin modDoubt, "misfiled" \notin modDoubt
               PROVE  /\ SeenIsKnown(jar)' /\ SeenIsKnown(c.was)'
                      /\ ~ Files!Mods!Seen(Hosted[c.build], c.build)'
    BY DEF SeenHolds, SeenIsKnown
  <2>1. \A n, b : Files!Mods!Seen(n, b)' => Files!Mods!Seen(n, b)
    BY DEF Files!Mods!Seen
  <2>2. \A f : Files!Mods!Accounted(f)' <=> Files!Mods!Accounted(f)
    BY DEF Files!Mods!Accounted
  <2>3. /\ SeenIsKnown(jar) /\ SeenIsKnown(modCall.was)
        /\ modCall.at # "downloading" => ~ Files!Mods!Seen(Hosted[modCall.build], modCall.build)
    BY DEF ModsInv, SeenHolds
  <2>4. ~ Files!Mods!Seen(Hosted[c.build], c.build)'
    BY <2>1, <2>3
  <2>5. SeenIsKnown(c.was)'
    BY <2>1, <2>2, <2>3 DEF SeenIsKnown
  <2>6. SeenIsKnown(jar)'
    <3> SUFFICES ASSUME NEW f \in MFiles, jar'[f] # Nil, Files!Mods!Seen(f[1], jar[f])'
                 PROVE  Files!Mods!Accounted(f)'
      BY DEF SeenIsKnown
    <3>1. jar'[f] = jar[f]
      BY <2>4
    <3> QED
      BY <2>1, <2>2, <2>3, <3>1 DEF SeenIsKnown
  <2> QED
    BY <2>4, <2>5, <2>6
<1> QED
  BY <1>1, <1>2, <1>3 DEF ModsInv, Files!Mods!InstallIsAllOrNothing

\* An install moves what it supersedes aside first.
LEMMA ModsInstallMoves ==
  ASSUME ModsInv, Files!Mods!Downloaded \/ Files!Mods!Supersedes \/ Files!Mods!KeepsOff
  PROVE  ModsInv'
<1> USE DEF Files!Mods!Under, Files!Mods!Quiet, Files!Mods!Present
<1> DEFINE n == Hosted[modCall.build]
           file == modCall.file
<1>0. ModTypes /\ modCall \in MInstalls /\ InstallShape(modCall) /\ installTold' = Nil
  <2>1. modCall # Nil /\ modCall.at # "picked" /\ installTold' = Nil
    BY DEF Files!Mods!Downloaded, Files!Mods!Supersedes, Files!Mods!KeepsOff
  <2> QED
    BY <2>1, ModCalls DEF ModsInv, InstallsGo
<1>1. /\ n \in ModNames /\ jar \in MFolders /\ modCall.build \in DOMAIN Hosted
      /\ On(modCall) \in MFiles /\ Off(modCall) \in MFiles /\ On(modCall) # Off(modCall)
      /\ On(modCall) = <<n, TRUE>> /\ Off(modCall) = <<n, FALSE>>
      /\ On(modCall)[1] = n /\ Off(modCall)[1] = n /\ On(modCall)[2] = TRUE /\ Off(modCall)[2] = FALSE
      /\ file \in {On(modCall), Off(modCall)}
      /\ \A f \in MFiles : f[1] = n => f \in {On(modCall), Off(modCall)}
      /\ \A f \in MFiles : f[1] \in ModNames
  <2>1. n \in ModNames /\ jar \in MFolders /\ modCall.build \in DOMAIN Hosted
    BY <1>0, ModsConstants DEF MInstalls, ModTypes
  <2>2. On(modCall) = <<n, TRUE>> /\ Off(modCall) = <<n, FALSE>> /\ file \in {On(modCall), Off(modCall)}
    BY <1>0 DEF On, Off, InstallShape
  <2> HIDE DEF n, file
  <2>3. <<n, TRUE>> \in MFiles /\ <<n, TRUE>>[1] = n /\ <<n, TRUE>>[2] = TRUE
    BY <2>1, ModFiles
  <2>4. <<n, FALSE>> \in MFiles /\ <<n, FALSE>>[1] = n /\ <<n, FALSE>>[2] = FALSE
    BY <2>1, ModFiles
  <2>5. <<n, TRUE>> # <<n, FALSE>> /\ \A f \in MFiles : f[1] \in ModNames
    BY <2>1, ModFiles
  <2>6. \A f \in MFiles : f[1] = n => f \in {<<n, TRUE>>, <<n, FALSE>>}
    BY ModFiles
  <2> QED
    BY <2>1, <2>2, <2>3, <2>4, <2>5, <2>6
<1> HIDE DEF n
<1>2. CASE Files!Mods!Downloaded
  <2>0. PICK c : c = [modCall EXCEPT !.at = "superseding", !.trouble = @ \/ jar[file] # Nil]
    OBVIOUS
  <2>1. /\ modCall.at = "downloading" /\ modCall' = c /\ jar' = [jar EXCEPT ![file] = modCall.build]
        /\ sig' = IF jar[file] # Nil \/ Files!Mods!Seen(file[1], jar'[file]) THEN Nil ELSE sig
        /\ UNCHANGED <<modRows, scans, check, cache, modCalls, drops, modDoubt>>
    BY <1>2, <2>0 DEF Files!Mods!Downloaded, Files!Mods!Rewrites
  <2>2. /\ c \in MInstalls /\ c.at = "superseding" /\ c.build = modCall.build /\ c.file = file
        /\ c.was = modCall.was /\ c.saved = modCall.saved /\ (~ c.trouble => jar[file] = Nil)
    BY <1>0, <2>0 DEF MInstalls
  <2>3. file = On(modCall) /\ On(c) = On(modCall) /\ Off(c) = Off(modCall) /\ jar = modCall.was
    BY <1>0, <2>1, <2>2 DEF InstallShape, On, Off
  <2>4. /\ jar' \in MFolders /\ jar'[file] = modCall.build
        /\ \A f \in MFiles \ {file} : jar'[f] = jar[f]
    BY <1>1, <2>1, <2>3 DEF MFolders
  <2>5. InstallShape(c)'
    BY <1>1, <2>2, <2>3, <2>4 DEF InstallShape, On, Off
  <2>6. (sig' = sig \/ sig' = Nil) /\ ~ Files!Mods!Seen(Hosted[c.build], c.build)'
    BY ZenonT(30), <1>1, <2>1, <2>2, <2>3, <2>4 DEF Files!Mods!Seen, n
  <2>7. \A f \in MFiles : \/ jar'[f] \in {jar[f], Nil}
                          \/ (f[1] = Hosted[c.build] /\ jar'[f] = c.build)
    BY <1>1, <2>2, <2>3, <2>4 DEF n
  <2> QED
    BY <1>0, <2>1, <2>2, <2>4, <2>5, <2>6, <2>7, ModsGoesOn
<1>3. CASE Files!Mods!Supersedes
  <2> DEFINE M == Files!Mods!Moved
             R == Files!Mods!Recognised
             a == [f \in MFiles |-> IF f \in M THEN jar[f] ELSE Nil]
             off == \E f \in M : ~f[2] /\ \A g \in M : ~g[2]
  <2>0. PICK c : c = [modCall EXCEPT !.at = "saving", !.aside = a, !.off = off,
                                     !.gone = R \cup {f[1] : f \in M}]
    OBVIOUS
  <2>1. /\ modCall.at = "superseding" /\ modCall' = c
        /\ jar' = [f \in MFiles |-> IF f \in M THEN Nil ELSE jar[f]]
        /\ UNCHANGED <<modRows, sig, scans, check, cache, modCalls, drops, modDoubt>>
    BY <1>3, <2>0, ModSets DEF Files!Mods!Supersedes
  <2>2. file = On(modCall)
    BY <1>0, <2>1 DEF InstallShape
  <2>3. /\ R \subseteq ModNames \ {n}
        /\ \A m \in ModNames \ {n} : KnownName(m) => m \in R
        /\ M \subseteq MFiles
        /\ \A f \in MFiles : f \in M <=> jar[f] # Nil /\ (f[1] \in R \/ f = Off(modCall))
    BY <1>1, <2>2, ModSets DEF Files!Mods!Recognised, Files!Mods!Moved, KnownName
  <2> HIDE DEF M, R
  <2>4. a \in MFolders /\ off \in BOOLEAN /\ {f[1] : f \in M} \subseteq ModNames
    BY <1>1, <2>3 DEF MFolders
  <2>5. /\ jar' \in MFolders /\ \A f \in MFiles : jar'[f] = IF f \in M THEN Nil ELSE jar[f]
    BY <1>1, <2>1 DEF MFolders
  <2>6. \A f \in MFiles : a[f] = IF f \in M THEN jar[f] ELSE Nil
    OBVIOUS
  <2> HIDE DEF a, off
  <2>7. /\ c \in MInstalls /\ c.at = "saving" /\ c.build = modCall.build /\ c.file = file
        /\ c.was = modCall.was /\ c.saved = modCall.saved /\ c.trouble = modCall.trouble
        /\ c.aside = a /\ c.gone = R \cup {f[1] : f \in M}
    BY <1>0, <2>0, <2>3, <2>4 DEF MInstalls
  <2>8. /\ On(c) = On(modCall) /\ Off(c) = Off(modCall) /\ Hosted[c.build] = n
        /\ \A f \in MFiles \ {On(modCall)} : jar[f] = modCall.was[f]
        /\ jar[On(modCall)] = modCall.build
        /\ ~ modCall.trouble => modCall.was[On(modCall)] = Nil
    BY <1>0, <2>1, <2>2, <2>7 DEF InstallShape, On, Off, n
  <2>9. On(modCall) \notin M
    BY <1>1, <2>3
  <2>10. \A f \in MFiles : f[1] \in c.gone /\ f # On(modCall) => jar'[f] = Nil
    <3> SUFFICES ASSUME NEW f \in MFiles, f[1] \in c.gone, f # On(modCall), jar'[f] # Nil
                 PROVE  FALSE
      OBVIOUS
    <3>1. f \notin M /\ jar[f] # Nil /\ f[1] \notin R
      BY <2>3, <2>5
    <3>2. PICK g \in M : f[1] = g[1]
      BY <2>7, <3>1
    <3>3. g = Off(modCall)
      BY <2>3, <3>1, <3>2
    <3> QED
      BY <1>1, <2>3, <3>1, <3>2, <3>3
  <2>11. \A f \in MFiles : f[1] # n /\ KnownName(f[1]) => jar'[f] = Nil
    BY <1>1, <2>3, <2>5
  <2>12. \A m : KnownName(m)' <=> KnownName(m)
    BY <2>1 DEF KnownName
  <2>13. /\ \A f \in {On(c), Off(c)} \ {c.file} : jar'[f] = Nil
         /\ \A f \in MFiles : c.aside[f] # Nil => /\ c.aside[f] = c.was[f] /\ f # On(c)
                                                  /\ f # Off(c) => jar'[f] = Nil
         /\ c.was[Off(c)] = c.aside[Off(c)]
         /\ \A f \in MFiles \ {On(c), Off(c)} : c.aside[f] = Nil => jar'[f] = c.was[f]
    <3>1. \A f \in MFiles : a[f] # Nil => /\ f \in M /\ f # On(modCall) /\ jar'[f] = Nil
                                          /\ a[f] = modCall.was[f]
      BY <2>5, <2>6, <2>8, <2>9
    <3>2. jar'[Off(modCall)] = Nil /\ modCall.was[Off(modCall)] = a[Off(modCall)]
      BY ZenonT(30), <1>1, <2>3, <2>5, <2>6, <2>8
    <3>3. \A f \in MFiles \ {On(modCall), Off(modCall)} : a[f] = Nil => jar'[f] = modCall.was[f]
      BY <2>3, <2>5, <2>6, <2>8
    <3> QED
      BY <2>2, <2>7, <2>8, <3>1, <3>2, <3>3
  <2>14. InstallShape(c)'
    <3>1. jar'[On(modCall)] = modCall.build
      BY <1>1, <2>5, <2>8, <2>9
    <3> QED
      BY <2>2, <2>7, <2>8, <2>10, <2>11, <2>12, <2>13, <3>1 DEF InstallShape, n
  <2>15. \A f \in MFiles : jar'[f] \in {jar[f], Nil}
    BY <2>5
  <2> QED
    BY <1>0, <1>1, <2>1, <2>5, <2>7, <2>14, <2>15, ModsGoesOn
<1>4. CASE Files!Mods!KeepsOff
  <2>0. PICK c : c = [modCall EXCEPT !.file = <<@[1], FALSE>>]
    OBVIOUS
  <2>1. /\ modCall.at = "saving" /\ file[2] /\ modCall' = c
        /\ jar' = [jar EXCEPT ![file] = Nil, ![<<file[1], FALSE>>] = jar[file]]
        /\ UNCHANGED <<modRows, sig, scans, check, cache, modCalls, drops, modDoubt>>
    BY <1>4, <2>0 DEF Files!Mods!KeepsOff
  <2>2. file = On(modCall) /\ file[1] = n
    BY <1>1, <2>1
  <2>3. /\ c \in MInstalls /\ c.at = "saving" /\ c.build = modCall.build /\ c.file = Off(modCall)
        /\ c.was = modCall.was /\ c.saved = modCall.saved /\ c.trouble = modCall.trouble
        /\ c.aside = modCall.aside /\ c.gone = modCall.gone
    BY <1>0, <1>1, <2>0, <2>1, <2>2 DEF MInstalls
  <2>4. /\ On(c) = On(modCall) /\ Off(c) = Off(modCall) /\ Hosted[c.build] = n
    BY <2>3 DEF On, Off, n
  <2>5. /\ jar' \in MFolders /\ jar'[On(modCall)] = Nil /\ jar'[Off(modCall)] = jar[On(modCall)]
        /\ \A f \in MFiles \ {On(modCall), Off(modCall)} : jar'[f] = jar[f]
    BY <1>1, <2>1, <2>2 DEF MFolders
  <2>6. jar[On(modCall)] = modCall.build
    BY <1>0, <2>1, <2>2 DEF InstallShape
  <2>7. \A m : KnownName(m)' <=> KnownName(m)
    BY <2>1 DEF KnownName
  <2>8. /\ ~ modCall.trouble => modCall.was[On(modCall)] = Nil
        /\ \A f \in MFiles : modCall.aside[f] # Nil =>
              /\ modCall.aside[f] = modCall.was[f] /\ f # On(modCall)
              /\ f # Off(modCall) => jar[f] = Nil
        /\ modCall.was[Off(modCall)] = modCall.aside[Off(modCall)]
        /\ \A f \in MFiles \ {On(modCall), Off(modCall)} :
              modCall.aside[f] = Nil => jar[f] = modCall.was[f]
        /\ \A f \in MFiles : f[1] \in modCall.gone /\ f # On(modCall) => jar[f] = Nil
        /\ \A f \in MFiles : f[1] # n /\ KnownName(f[1]) => jar[f] = Nil
    BY <1>0, <2>1, <2>2 DEF InstallShape, n
  <2>9. \A f \in MFiles : f[1] \in c.gone /\ f # c.file => jar'[f] = Nil
    BY <2>3, <2>5, <2>8
  <2>10. \A f \in MFiles : f[1] # n /\ KnownName(f[1]) => jar'[f] = Nil
    BY <1>1, <2>5, <2>8
  <2>11. InstallShape(c)'
    <3>1. /\ \A f \in {On(c), Off(c)} \ {c.file} : jar'[f] = Nil
          /\ jar'[c.file] = c.build /\ c.file \in {On(c), Off(c)}
          /\ \A f \in MFiles : c.aside[f] # Nil => /\ c.aside[f] = c.was[f] /\ f # On(c)
                                                   /\ f # Off(c) => jar'[f] = Nil
      <4>1. c.file = Off(c) /\ jar'[On(c)] = Nil /\ jar'[c.file] = c.build
        BY <2>3, <2>4, <2>5, <2>6
      <4>2. \A f \in MFiles : modCall.aside[f] # Nil =>
              /\ modCall.aside[f] = modCall.was[f] /\ f # On(modCall)
              /\ f # Off(modCall) => jar'[f] = Nil
        BY <2>5, <2>8
      <4> QED
        BY <2>3, <2>4, <4>1, <4>2
    <3>2. \A f \in MFiles \ {On(c), Off(c)} : c.aside[f] = Nil => jar'[f] = c.was[f]
      BY <2>3, <2>4, <2>5, <2>8
    <3> QED
      BY <2>3, <2>4, <2>7, <2>8, <2>9, <2>10, <3>1, <3>2 DEF InstallShape, n
  <2>12. \A f \in MFiles : \/ jar'[f] \in {jar[f], Nil}
                           \/ (f[1] = Hosted[c.build] /\ jar'[f] = c.build)
    BY <1>1, <2>3, <2>4, <2>5, <2>6
  <2> QED
    BY <1>0, <1>1, <2>1, <2>3, <2>5, <2>11, <2>12, ModsGoesOn
<1> QED
  BY <1>2, <1>3, <1>4

\* The rows are saved when the files are in place.
LEMMA ModsSaves ==
  ASSUME ModsInv, Files!Mods!Saves
  PROVE  ModsInv'
<1> USE DEF Files!Mods!Under, Files!Mods!Quiet
<1> DEFINE file == modCall.file
           own == Files!Mods!Installed(modCall.build)
<1>0. ModTypes /\ modCall \in MInstalls /\ InstallShape(modCall) /\ modCall.at = "saving"
  <2>1. modCall # Nil /\ modCall.at # "picked" /\ modCall.at = "saving"
    BY DEF Files!Mods!Saves
  <2> QED
    BY <2>1, ModCalls DEF ModsInv, InstallsGo
<1>1. /\ modRows' = [f \in MFiles |-> IF f = file THEN own
                                    ELSE IF f[1] \in modCall.gone THEN Nil ELSE modRows[f]]
      /\ UNCHANGED <<jar, sig, scans, check, modCalls, drops>>
  BY ModSets DEF Files!Mods!Saves
<1>2. /\ own \in MRows /\ own.build = modCall.build /\ own.asked /\ own # Nil
      /\ modCall.build \in DOMAIN Hosted /\ file \in MFiles
  <2>1. modCall.build \in DOMAIN Hosted /\ file \in MFiles
    BY <1>0 DEF MInstalls
  <2>2. own \in MRows
    BY <2>1 DEF Files!Mods!Installed, MRows
  <2>3. own.build = modCall.build
    BY DEF Files!Mods!Installed
  <2>4. own.asked
    BY DEF Files!Mods!Installed
  <2> HIDE DEF own
  <2>5. own # Nil
    BY <2>2, ModsConstants
  <2> QED
    BY <2>1, <2>2, <2>3, <2>4, <2>5
<1> HIDE DEF own
<1>3. /\ modRows' \in [MFiles -> MRows \cup {Nil}] /\ modRows'[file] = own
      /\ \A f \in MFiles \ {file} : modRows'[f] = IF f[1] \in modCall.gone THEN Nil ELSE modRows[f]
  BY <1>0, <1>1, <1>2 DEF ModTypes
<1>4. /\ jar[file] = modCall.build
      /\ \A f \in {On(modCall), Off(modCall)} \ {file} : jar[f] = Nil
      /\ \A f \in MFiles \ {On(modCall), Off(modCall)} :
           jar[f] # Nil => modCall.aside[f] = Nil /\ jar[f] = modCall.was[f]
      /\ \A f \in MFiles \ {file} : f[1] \in modCall.gone => jar[f] = Nil
      /\ \A f \in MFiles : f[1] # Hosted[modCall.build] /\ KnownName(f[1]) => jar[f] = Nil
      /\ file \in {On(modCall), Off(modCall)}
  BY <1>0 DEF InstallShape
<1>5. \A f \in MFiles \ {file} : jar[f] # Nil => /\ jar[f] = modCall.was[f]
                                              /\ modRows'[f] = modRows[f]
  BY <1>3, <1>4
<1>6. "rewritten" \notin modDoubt /\ "misfiled" \notin modDoubt => RowsMatch(jar)'
  <2> SUFFICES ASSUME "rewritten" \notin modDoubt, "misfiled" \notin modDoubt, NEW f \in MFiles,
                      jar[f] # Nil, modRows'[f] # Nil, modRows'[f].build # Nil
               PROVE  jar[f] = modRows'[f].build
    BY <1>1 DEF RowsMatch
  <2>1. RowsMatch(modCall.was)
    BY <1>0 DEF ModsInv, RowsHold
  <2>2. CASE f = file
    BY <1>2, <1>3, <1>4, <2>2
  <2>3. CASE f # file
    BY <1>5, <2>1, <2>3 DEF RowsMatch
  <2> QED
    BY <2>2, <2>3
<1>7. scans = 0 /\ "overlooked" \notin modDoubt /\ "misfiled" \notin modDoubt => SeenIsKnown(jar)'
  <2> SUFFICES ASSUME scans = 0, "overlooked" \notin modDoubt, "misfiled" \notin modDoubt,
                      NEW f \in MFiles, jar[f] # Nil, Files!Mods!Seen(f[1], jar[f])
               PROVE  modRows'[f] # Nil /\ (modRows'[f].build # Nil \/ modRows'[f].asked)
    BY <1>1 DEF SeenIsKnown, Files!Mods!Seen, Files!Mods!Accounted
  <2>1. SeenIsKnown(jar)
    BY DEF ModsInv, SeenHolds
  <2>2. CASE f = file
    BY <1>2, <1>3, <2>2
  <2>3. CASE f # file
    BY <1>5, <2>1, <2>3 DEF SeenIsKnown, Files!Mods!Accounted
  <2> QED
    BY <2>2, <2>3
<1>8. CASE Files!Mods!Returns(TRUE, modCall.trouble) /\ Files!Mods!ClearsCache
  <2> DEFINE d == IF check # Nil THEN {"outdated"} ELSE {}
  <2>1. /\ modCall' = Nil /\ modCall' \notin MInstalls /\ cache' = Nil
        /\ installTold' = [ok |-> TRUE, file |-> file, was |-> modCall.was, wasRows |-> modRows,
                           trouble |-> modCall.trouble]
        /\ modDoubt' = modDoubt \cup d
    BY <1>8, ModsConstants DEF Files!Mods!Returns, Files!Mods!ClearsCache, Files!Mods!Doubting, Files!Mods!When
  <2>2. /\ installTold' \in MEnds /\ installTold'.ok /\ installTold'.file = file
        /\ installTold'.wasRows = modRows
    BY <1>0, <2>1 DEF MEnds, ModTypes, MInstalls
  <2>3. d \subseteq {"outdated"} /\ ("outdated" \notin d => check = Nil)
    OBVIOUS
  <2> HIDE DEF d
  <2>4. ModTypes'
    BY <1>0, <1>1, <1>3, <2>1, <2>2, <2>3 DEF ModTypes
  <2>5. InstallsGo' /\ RowsHold' /\ SeenHolds' /\ CacheHolds'
    BY <1>1, <1>6, <1>7, <2>1, <2>3 DEF InstallsGo, RowsHold, SeenHolds, CacheHolds, AnswerHolds
  <2>6. ASSUME NEW f \in MFiles, jar[f] # Nil, f # file
        PROVE  /\ f[1] # file[1]
               /\ \A on \in BOOLEAN : modRows[<<f[1], on>>] = Nil \/ ~ modRows[<<f[1], on>>].known
    <3>1. On(modCall)[1] = Hosted[modCall.build] /\ Off(modCall)[1] = Hosted[modCall.build]
      BY DEF On, Off
    <3>2. f \notin {On(modCall), Off(modCall)} /\ f = <<f[1], f[2]>> /\ f[2] \in BOOLEAN
      BY <1>4, <2>6, ModFiles
    <3>3. f[1] # Hosted[modCall.build]
      BY <3>2, ModFiles DEF On, Off
    <3>4. ~ KnownName(f[1])
      BY <1>4, <2>6, <3>3
    <3> QED
      BY <1>4, <3>1, <3>3, <3>4 DEF KnownName
  <2>7. Files!Mods!InstallIsAllOrNothing'
    BY <1>1, <2>2, <2>6, ModSets DEF Files!Mods!InstallIsAllOrNothing, Files!Mods!Present
  <2> QED
    BY <2>4, <2>5, <2>7 DEF ModsInv
<1>9. CASE \E next \in DOMAIN Hosted \ {modCall.build} :
             /\ modCall' = [Files!Mods!Asks(next) EXCEPT !.saved = TRUE]
             /\ installTold' = Nil /\ UNCHANGED <<cache, modDoubt>>
  <2>1. PICK b \in DOMAIN Hosted :
             /\ modCall' = [Files!Mods!Asks(b) EXCEPT !.saved = TRUE]
             /\ installTold' = Nil /\ UNCHANGED <<cache, modDoubt>>
    BY <1>9
  <2>2. /\ modCall' \in MInstalls /\ modCall'.at = "downloading" /\ modCall'.build = b
        /\ modCall'.file = <<Hosted[b], TRUE>> /\ modCall'.was = jar /\ ~ modCall'.trouble
        /\ modCall'.saved /\ modCall' # Nil
    <3>1. Files!Mods!Empty \in MFolders
      BY ModSets DEF Files!Mods!Empty, MFolders
    <3>2. <<Hosted[b], TRUE>> \in MFiles
      BY ModsConstants, ModFiles
    <3> DEFINE e == Files!Mods!Asks(b)
    <3>3. /\ e \in MInstalls /\ e.at = "downloading" /\ e.build = b /\ e.file = <<Hosted[b], TRUE>>
          /\ e.was = jar /\ ~ e.trouble
      BY <1>0, <3>1, <3>2 DEF Files!Mods!Asks, MInstalls, ModTypes
    <3> HIDE DEF e
    <3>4. /\ modCall' \in MInstalls /\ modCall'.at = "downloading" /\ modCall'.build = b
          /\ modCall'.file = <<Hosted[b], TRUE>> /\ modCall'.was = jar /\ ~ modCall'.trouble
          /\ modCall'.saved
      BY <2>1, <3>3 DEF MInstalls, e
    <3> QED
      BY <3>4, ModsConstants
  <2>3. ModTypes'
    BY <1>0, <1>1, <1>3, <2>1, <2>2 DEF ModTypes
  <2>4. InstallsGo'
    BY <1>1, <2>2 DEF InstallsGo, InstallShape, On, Off
  <2>5. RowsHold' /\ CacheHolds'
    BY <1>1, <1>6, <2>1, <2>2 DEF RowsHold, RowsMatch, CacheHolds
  <2>6. SeenHolds'
    BY <1>1, <1>7, <2>1, <2>2 DEF SeenHolds, SeenIsKnown, Files!Mods!Seen, Files!Mods!Accounted
  <2> QED
    BY <2>1, <2>3, <2>4, <2>5, <2>6 DEF ModsInv, Files!Mods!InstallIsAllOrNothing
<1> QED
  BY <1>8, <1>9 DEF Files!Mods!Saves

\* A toggle moves a file and its row to the other name of the two.
LEMMA ModsMovesName ==
  ASSUME ModsInv, modCall = Nil, NEW a \in MFiles, NEW z \in MFiles, a # z, a[1] = z[1],
         \A f \in MFiles : f[1] = a[1] => f \in {a, z},
         UNCHANGED <<modCall, sig, scans, check, cache, drops>>, installTold' = Nil,
         modCalls < MaxModCalls, modCalls' = modCalls + 1,
         jar[z] # Nil \/ jar[a] # Nil,
         jar' = IF jar[z] # Nil THEN [jar EXCEPT ![a] = jar[z], ![z] = Nil] ELSE jar,
         \/ /\ \E row \in {modRows[a], modRows[z]} :
                 /\ row = Nil => modRows[a] = Nil /\ modRows[z] = Nil
                 /\ modRows' = [modRows EXCEPT ![a] = row, ![z] = Nil]
            /\ \/ modDoubt' = modDoubt \cup {"misfiled"}
               \/ /\ modDoubt' = modDoubt
                  /\ jar[a] = Nil \/ jar[z] = Nil
                  /\ modRows[a] # Nil => jar[a] # Nil
                  /\ modRows[z] # Nil => jar[z] # Nil
         \/ UNCHANGED modRows /\ modDoubt' = modDoubt \cup {"misfiled"}
  PROVE  ModsInv'
<1>0. ModTypes /\ modCall \notin MInstalls
  BY ModCalls DEF ModsInv
<1>1. jar \in MFolders /\ modRows \in [MFiles -> MRows \cup {Nil}]
  BY <1>0 DEF ModTypes
<1>2. /\ jar' \in MFolders /\ jar'[a] = (IF jar[z] # Nil THEN jar[z] ELSE jar[a]) /\ jar'[z] = Nil
      /\ \A f \in MFiles \ {a, z} : jar'[f] = jar[f]
  <2>1. CASE jar[z] # Nil
    BY <1>1, <2>1 DEF MFolders
  <2>2. CASE jar[z] = Nil
    BY <1>1, <2>2
  <2> QED
    BY <2>1, <2>2
<1>3. modRows' \in [MFiles -> MRows \cup {Nil}]
  BY <1>1
<1>4. ModTypes'
  BY <1>0, <1>2, <1>3, ModsConstants DEF ModTypes
<1>5. CASE "misfiled" \in modDoubt'
  BY <1>0, <1>4, <1>5 DEF ModsInv, InstallsGo, RowsHold, SeenHolds, CacheHolds, Files!Mods!InstallIsAllOrNothing
<1>6. CASE "misfiled" \notin modDoubt'
  <2>1. /\ modDoubt' = modDoubt /\ "misfiled" \notin modDoubt
        /\ jar[a] = Nil \/ jar[z] = Nil
        /\ modRows[a] # Nil => jar[a] # Nil
        /\ modRows[z] # Nil => jar[z] # Nil
    BY <1>6
  <2>2. PICK row \in {modRows[a], modRows[z]} :
          /\ row = Nil => modRows[a] = Nil /\ modRows[z] = Nil
          /\ modRows' = [modRows EXCEPT ![a] = row, ![z] = Nil]
    BY <1>6
  <2>3. /\ modRows'[z] = Nil /\ \A f \in MFiles \ {a, z} : modRows'[f] = modRows[f]
        /\ modRows'[a] = IF jar[z] # Nil THEN modRows[z] ELSE modRows[a]
        /\ jar[z] # Nil => modRows[a] = Nil
        /\ jar[z] = Nil => modRows[z] = Nil
    BY <1>1, <2>1, <2>2
  <2>4. RowsMatch(jar) => RowsMatch(jar)'
    <3> SUFFICES ASSUME RowsMatch(jar), NEW f \in MFiles, jar'[f] # Nil, modRows'[f] # Nil,
                        modRows'[f].build # Nil
                 PROVE  jar'[f] = modRows'[f].build
      BY DEF RowsMatch
    <3>1. CASE f = a /\ jar[z] # Nil
      BY <1>2, <2>3, <3>1 DEF RowsMatch
    <3>2. CASE f = a /\ jar[z] = Nil
      BY <1>2, <2>3, <3>2 DEF RowsMatch
    <3>3. CASE f \notin {a, z}
      BY <1>2, <2>3, <3>3 DEF RowsMatch
    <3> QED
      BY <1>2, <3>1, <3>2, <3>3
  <2>5. SeenIsKnown(jar) => SeenIsKnown(jar)'
    <3> SUFFICES ASSUME SeenIsKnown(jar), NEW f \in MFiles, jar'[f] # Nil,
                        Files!Mods!Seen(f[1], jar'[f])
                 PROVE  modRows'[f] # Nil /\ (modRows'[f].build # Nil \/ modRows'[f].asked)
      BY DEF SeenIsKnown, Files!Mods!Seen, Files!Mods!Accounted
    <3>1. CASE f \notin {a, z}
      BY <1>2, <2>3, <3>1 DEF SeenIsKnown, Files!Mods!Accounted
    <3>2. CASE f = a /\ jar[z] # Nil
      <4>1. jar[z] # Nil /\ Files!Mods!Seen(z[1], jar[z])
        BY <1>2, <3>2
      <4>2. Files!Mods!Accounted(z)
        BY <4>1 DEF SeenIsKnown
      <4> QED
        BY <2>3, <3>2, <4>2 DEF Files!Mods!Accounted
    <3>3. CASE f = a /\ jar[z] = Nil
      BY <1>2, <2>3, <3>3 DEF SeenIsKnown, Files!Mods!Accounted
    <3> QED
      BY <1>2, <3>1, <3>2, <3>3
  <2>6. \A x : AnswerHolds(x) => AnswerHolds(x)'
    <3> SUFFICES ASSUME NEW x, AnswerHolds(x), x # Nil, NEW f \in MFiles, x[f] # Nil
                 PROVE  /\ modRows'[f] # Nil => modRows'[f].build = x[f]
                        /\ modRows'[f] = Nil =>
                             \A g \in MFiles : g[1] = f[1] /\ modRows'[g] # Nil => modRows'[g].build = x[f]
      BY DEF AnswerHolds
    <3>1. /\ modRows[f] # Nil => modRows[f].build = x[f]
          /\ modRows[f] = Nil =>
               \A g \in MFiles : g[1] = f[1] /\ modRows[g] # Nil => modRows[g].build = x[f]
      BY DEF AnswerHolds
    <3>2. CASE f[1] # a[1]
      BY <2>3, <3>1, <3>2
    <3>3. CASE f = a
      BY <2>3, <3>1, <3>3
    <3>4. CASE f = z
      BY <2>3, <3>1, <3>4
    <3> QED
      BY <3>2, <3>3, <3>4
  <2>7. CacheHolds'
    <3> SUFFICES ASSUME "outdated" \notin modDoubt
                 PROVE  AnswerHolds(check)' /\ AnswerHolds(cache)'
      BY <2>1 DEF CacheHolds
    <3>1. AnswerHolds(check) /\ AnswerHolds(cache)
      BY <2>1 DEF ModsInv, CacheHolds
    <3> QED
      BY <2>6, <3>1 DEF AnswerHolds
  <2>8. RowsHold' /\ SeenHolds' /\ InstallsGo'
    BY <1>0, <2>1, <2>4, <2>5 DEF ModsInv, RowsHold, SeenHolds, InstallsGo
  <2> QED
    BY <1>4, <2>7, <2>8 DEF ModsInv, Files!Mods!InstallIsAllOrNothing
<1> QED
  BY <1>5, <1>6

\* A toggle renames a mod's file and its row.
LEMMA ModsToggles ==
  ASSUME ModsInv, NEW n \in ModNames, NEW on \in BOOLEAN, Files!Mods!SetEnabled(n, on)
  PROVE  ModsInv'
<1> DEFINE a == <<n, on>>
           z == <<n, ~ on>>
<1>1. /\ a \in MFiles /\ z \in MFiles /\ a[1] = n /\ z[1] = n /\ a # z
      /\ \A f \in MFiles : f[1] = n => f \in {a, z}
  <2>1. CASE on = TRUE
    BY <2>1, ModFiles
  <2>2. CASE on = FALSE
    BY <2>2, ModFiles
  <2> QED
    BY <2>1, <2>2
<1>2. /\ \A b \in BOOLEAN : <<n, b>> \in {a, z}
      /\ {modRows[<<n, b>>] : b \in BOOLEAN} = {modRows[a], modRows[z]}
  <2>1. CASE on = TRUE
    BY <2>1
  <2>2. CASE on = FALSE
    BY <2>2
  <2> QED
    BY <2>1, <2>2
<1>3. ASSUME ~ Files!Mods!Twins(n)
      PROVE  /\ jar[a] = Nil \/ jar[z] = Nil
             /\ modRows[a] # Nil => jar[a] # Nil
             /\ modRows[z] # Nil => jar[z] # Nil
  <2>1. CASE on = TRUE
    BY <1>3, <2>1 DEF Files!Mods!Twins, Files!Mods!Present
  <2>2. CASE on = FALSE
    BY <1>3, <2>2 DEF Files!Mods!Twins, Files!Mods!Present
  <2> QED
    BY <2>1, <2>2
<1>4. /\ modCall = Nil /\ modCalls < MaxModCalls /\ modCalls' = modCalls + 1
      /\ jar[z] # Nil \/ jar[a] # Nil
      /\ jar' = IF jar[z] # Nil THEN [jar EXCEPT ![a] = jar[z], ![z] = Nil] ELSE jar
      /\ installTold' = Nil /\ UNCHANGED <<modCall, sig, scans, check, cache, drops>>
  BY DEF Files!Mods!SetEnabled, Files!Mods!Called, Files!Mods!Present, Files!Mods!Quiet
<1>5. \/ /\ \E row \in {modRows[<<n, b>>] : b \in BOOLEAN} :
              /\ row = Nil => \A b \in BOOLEAN : modRows[<<n, b>>] = Nil
              /\ modRows' = [modRows EXCEPT ![a] = row, ![z] = Nil]
         /\ modDoubt' = modDoubt \cup (IF Files!Mods!Twins(n) THEN {"misfiled"} ELSE {})
      \/ UNCHANGED modRows /\ modDoubt' = modDoubt \cup {"misfiled"}
  BY DEF Files!Mods!SetEnabled, Files!Mods!Doubting, Files!Mods!When
<1>6. (\A b \in BOOLEAN : modRows[<<n, b>>] = Nil) => modRows[a] = Nil /\ modRows[z] = Nil
  OBVIOUS
<1> HIDE DEF a, z
<1>7. \/ /\ \E row \in {modRows[a], modRows[z]} :
              /\ row = Nil => modRows[a] = Nil /\ modRows[z] = Nil
              /\ modRows' = [modRows EXCEPT ![a] = row, ![z] = Nil]
         /\ modDoubt' = modDoubt \cup (IF Files!Mods!Twins(n) THEN {"misfiled"} ELSE {})
      \/ UNCHANGED modRows /\ modDoubt' = modDoubt \cup {"misfiled"}
  BY <1>2, <1>5, <1>6
<1>8. PICK c, d : c = a /\ d = z
  OBVIOUS
<1> QED
  BY <1>1, <1>3, <1>4, <1>7, <1>8, ModsMovesName

\* Files removed or put there by hand.
LEMMA ModsRemoves ==
  ASSUME ModsInv, NEW n \in ModNames, Files!Mods!Uninstall(n)
  PROVE  ModsInv'
<1>0. ModTypes /\ modCall = Nil /\ modCall \notin MInstalls
  BY ModCalls DEF ModsInv, Files!Mods!Uninstall
<1>1. /\ jar' = [f \in MFiles |-> IF f[1] = n THEN Nil ELSE jar[f]] /\ cache' = Nil
      /\ installTold' = Nil /\ UNCHANGED <<modCall, sig, scans, check, drops>>
      /\ modCalls < MaxModCalls /\ modCalls' = modCalls + 1
  BY ModSets DEF Files!Mods!Uninstall, Files!Mods!Called, Files!Mods!Quiet
<1>2. PICK saved \in BOOLEAN :
        /\ modRows' = [f \in MFiles |-> IF saved /\ f[1] = n THEN Nil ELSE modRows[f]]
        /\ modDoubt' = modDoubt \cup ((IF ~ saved THEN {"misfiled"} ELSE {})
                                        \cup (IF check # Nil THEN {"outdated"} ELSE {}))
  BY ModSets DEF Files!Mods!Uninstall, Files!Mods!Doubting, Files!Mods!When
<1>3. /\ modDoubt \subseteq modDoubt' /\ modDoubt' \subseteq modDoubt \cup {"misfiled", "outdated"}
      /\ "misfiled" \notin modDoubt' => saved
      /\ "outdated" \notin modDoubt' => check = Nil
  BY <1>2
<1>4. jar' \in MFolders /\ modRows' \in [MFiles -> MRows \cup {Nil}]
  BY <1>0, <1>1, <1>2 DEF ModTypes, MFolders
<1>5. ModTypes'
  BY <1>0, <1>1, <1>3, <1>4, ModsConstants DEF ModTypes
<1>6. saved => \A f \in MFiles : jar'[f] # Nil => jar'[f] = jar[f] /\ modRows'[f] = modRows[f]
  BY <1>1, <1>2
<1>7. RowsHold' /\ SeenHolds'
  BY <1>0, <1>1, <1>3, <1>6 DEF ModsInv, RowsHold, RowsMatch, SeenHolds, SeenIsKnown, Files!Mods!Seen,
     Files!Mods!Accounted
<1> QED
  BY <1>0, <1>1, <1>3, <1>5, <1>7 DEF ModsInv, InstallsGo, CacheHolds, AnswerHolds,
     Files!Mods!InstallIsAllOrNothing

\* A file the user picks is copied with a row of its own.
LEMMA ModsPicks ==
  ASSUME ModsInv, NEW n \in ModNames, NEW b \in DOMAIN Hosted \cup Foreign, Files!Mods!InstallLocal(n, b)
  PROVE  ModsInv'
<1> DEFINE T == <<n, TRUE>>
           e == [build |-> Nil, known |-> TRUE, asked |-> FALSE]
<1>0. ModTypes /\ modCall = Nil /\ modCall \notin MInstalls /\ T \in MFiles
  BY ModCalls, ModFiles DEF ModsInv, Files!Mods!InstallLocal
<1>1. /\ jar' = [jar EXCEPT ![T] = b] /\ sig' = Nil
      /\ installTold' = Nil /\ UNCHANGED <<scans, check, cache, drops>>
      /\ modCalls < MaxModCalls /\ modCalls' = modCalls + 1
      /\ \/ /\ modRows' = [modRows EXCEPT ![T] = e]
            /\ modCall' = [at |-> "picked"] /\ UNCHANGED modDoubt
         \/ /\ UNCHANGED <<modRows, modCall>>
            /\ modDoubt' = modDoubt \cup (IF modRows[T] # Nil THEN {"rewritten"} ELSE {})
  BY DEF Files!Mods!InstallLocal, Files!Mods!Called, Files!Mods!Quiet, Files!Mods!Doubting, Files!Mods!When
<1>2. e \in MRows /\ e.build = Nil /\ [at |-> "picked"] \in [at : {"picked"}]
  BY DEF MRows
<1> HIDE DEF T, e
<1>3. /\ jar' \in MFolders /\ \A f \in MFiles \ {T} : jar'[f] = jar[f]
      /\ modRows' \in [MFiles -> MRows \cup {Nil}] /\ \A f \in MFiles \ {T} : modRows'[f] = modRows[f]
      /\ modRows'[T] = e \/ "rewritten" \in modDoubt' \/ modRows'[T] = Nil
  BY <1>0, <1>1, <1>2 DEF ModTypes, MFolders
<1>4. /\ modCall' \notin MInstalls /\ modCall' \in [at : {"picked"}] \cup {Nil}
      /\ modDoubt \subseteq modDoubt' /\ modDoubt' \subseteq modDoubt \cup {"rewritten"}
      /\ modCall' = Nil => UNCHANGED <<modRows, modCall>>
  BY <1>0, <1>1, <1>2, ModCalls
<1>5. ModTypes'
  BY <1>0, <1>1, <1>3, <1>4, ModsConstants DEF ModTypes
<1>6. RowsHold'
  BY <1>0, <1>2, <1>3, <1>4 DEF ModsInv, RowsHold, RowsMatch
<1>7. SeenHolds'
  BY <1>1, <1>4 DEF SeenHolds, SeenIsKnown, Files!Mods!Seen
<1>8. CacheHolds'
  BY <1>0, <1>1, <1>4 DEF ModsInv, CacheHolds, AnswerHolds
<1> QED
  BY <1>1, <1>4, <1>5, <1>6, <1>7, <1>8 DEF ModsInv, InstallsGo, Files!Mods!InstallIsAllOrNothing

\* A file put there or taken away by hand has no row, or a stale one.
LEMMA ModsDrops ==
  ASSUME ModsInv, NEW n \in ModNames, NEW b \in DOMAIN Hosted \cup Foreign,
         Files!Mods!Drops(n, b) \/ Files!Mods!DropEnds(n, b)
  PROVE  ModsInv'
<1> DEFINE T == <<n, TRUE>>
<1>0. ModTypes /\ modCall \notin MInstalls /\ T \in MFiles /\ T[1] = n
  BY ModCalls, ModFiles DEF ModsInv, Files!Mods!Drops, Files!Mods!DropEnds, Files!Mods!Under
<1>1. /\ installTold' = Nil /\ UNCHANGED <<modRows, modCall, scans, check, cache, modCalls>>
      /\ drops' \in 0 .. MaxDrops /\ sig' \in {sig, Nil}
      /\ modDoubt \subseteq modDoubt' /\ modDoubt' \subseteq modDoubt \cup {"rewritten", "overlooked"}
      /\ \E written \in {b, "half"} :
           /\ jar' = [jar EXCEPT ![T] = written]
           /\ "overlooked" \notin modDoubt' => ~ Files!Mods!Seen(n, written)
      /\ \/ "rewritten" \in modDoubt' \/ modRows[T] = Nil \/ jar[T] = "half"
  <2>1. CASE Files!Mods!Drops(n, b)
    <3>1. /\ drops' \in 0 .. MaxDrops /\ sig' \in {sig, Nil}
          /\ installTold' = Nil /\ UNCHANGED <<modRows, modCall, scans, check, cache, modCalls>>
      BY <1>0, <2>1, ModsConstants DEF Files!Mods!Drops, Files!Mods!Quiet, ModTypes
    <3>2. PICK written \in {b, "half"} : jar' = [jar EXCEPT ![T] = written]
      BY <2>1 DEF Files!Mods!Drops
    <3>3. jar'[T] = written
      BY <1>0, <3>2 DEF ModTypes, MFolders
    <3>4. modDoubt' = modDoubt \cup ((IF jar[T] # Nil \/ modRows[T] # Nil THEN {"rewritten"} ELSE {})
                                       \cup (IF Files!Mods!Seen(n, jar'[T]) THEN {"overlooked"} ELSE {}))
      BY <2>1 DEF Files!Mods!Drops, Files!Mods!Doubting, Files!Mods!When, Files!Mods!Present
    <3>5. /\ "overlooked" \notin modDoubt' => ~ Files!Mods!Seen(n, written)
          /\ "rewritten" \in modDoubt' \/ modRows[T] = Nil
          /\ modDoubt \subseteq modDoubt' /\ modDoubt' \subseteq modDoubt \cup {"rewritten", "overlooked"}
      BY <3>3, <3>4
    <3> QED
      BY <3>1, <3>2, <3>5
  <2>2. CASE Files!Mods!DropEnds(n, b)
    BY <1>0, <2>2 DEF Files!Mods!DropEnds, Files!Mods!Quiet, Files!Mods!Doubting, Files!Mods!When, ModTypes
  <2> QED
    BY <2>1, <2>2
<1> HIDE DEF T
<1>2. PICK written \in {b, "half"} :
        /\ jar' = [jar EXCEPT ![T] = written]
        /\ "overlooked" \notin modDoubt' => ~ Files!Mods!Seen(n, written)
  BY <1>1
<1>3. jar' \in MFolders /\ jar'[T] = written /\ \A f \in MFiles \ {T} : jar'[f] = jar[f]
  BY <1>0, <1>2 DEF ModTypes, MFolders
<1>4. ModTypes'
  BY <1>0, <1>1, <1>3 DEF ModTypes
<1>5. RowsHold'
  <2> SUFFICES ASSUME "rewritten" \notin modDoubt', "misfiled" \notin modDoubt', NEW f \in MFiles,
                      jar'[f] # Nil, modRows[f] # Nil, modRows[f].build # Nil
               PROVE  jar'[f] = modRows[f].build
    BY <1>0, <1>1 DEF RowsHold, RowsMatch
  <2>1. RowsMatch(jar)
    BY <1>0, <1>1 DEF ModsInv, RowsHold
  <2>2. CASE f = T
    <3>1. jar[T] = "half" /\ modRows[T] # Nil
      BY <1>1, <2>2
    <3>2. modRows[T].build \in DOMAIN Hosted
      BY <1>0, <2>2, <3>1 DEF ModTypes, MRows
    <3>3. jar[T] # Nil => FALSE
      BY <1>0, <2>1, <2>2, <3>1, <3>2, ModsConstants DEF RowsMatch
    <3> QED
      BY <1>0, <3>1, <3>2, <3>3, ModsConstants DEF ModTypes
  <2>3. CASE f # T
    BY <1>3, <2>1, <2>3 DEF RowsMatch
  <2> QED
    BY <2>2, <2>3
<1>6. SeenHolds'
  <2> SUFFICES ASSUME scans = 0, "overlooked" \notin modDoubt', "misfiled" \notin modDoubt',
                      NEW f \in MFiles, jar'[f] # Nil, Files!Mods!Seen(f[1], jar[f])'
               PROVE  Files!Mods!Accounted(f)
    BY <1>0, <1>1 DEF SeenHolds, SeenIsKnown, Files!Mods!Accounted
  <2>1. SeenIsKnown(jar)
    BY <1>1 DEF ModsInv, SeenHolds
  <2>2. Files!Mods!Seen(f[1], jar'[f])
    BY <1>1 DEF Files!Mods!Seen
  <2>3. f # T
    BY <1>0, <1>2, <1>3, <2>2
  <2> QED
    BY <1>3, <2>1, <2>2, <2>3 DEF SeenIsKnown
<1>7. CacheHolds'
  BY <1>0, <1>1 DEF ModsInv, CacheHolds, AnswerHolds
<1> QED
  BY <1>0, <1>1, <1>4, <1>5, <1>6, <1>7 DEF ModsInv, InstallsGo, Files!Mods!InstallIsAllOrNothing

\* The provider's answers: they make rows true and files accounted for.
LEMMA ModsIdentifies ==
  ASSUME ModTypes, NEW asked \in SUBSET Files!Mods!Unknown, NEW clears \in BOOLEAN,
         Files!Mods!Identifies(asked, clears)
  PROVE  /\ modRows' \in [MFiles -> MRows \cup {Nil}]
         /\ cache' \in {cache, Nil} /\ (asked = {} => modRows' = modRows)
         /\ clears => cache' = Nil /\ (check = Nil \/ "outdated" \in modDoubt')
         /\ ~ clears => cache' = cache
         /\ modDoubt \subseteq modDoubt'
         /\ modDoubt' \subseteq modDoubt \cup {"outdated", "overlooked", "rewritten"}
         /\ \A f \in MFiles :
              /\ modRows'[f] # modRows[f] =>
                   jar[f] # Nil /\ (modRows'[f].build = Nil \/ modRows'[f].build = jar[f])
              /\ Files!Mods!Accounted(f) => Files!Mods!Accounted(f)'
              /\ jar[f] # Nil /\ "overlooked" \notin modDoubt' => Files!Mods!Accounted(f)'
<1> USE DEF Files!Mods!Identifies, Files!Mods!Doubting, Files!Mods!When
<1>1. /\ modRows' = [f \in MFiles |-> IF f \in asked THEN Files!Mods!Answer(f) ELSE modRows[f]]
      /\ cache' = IF clears THEN Nil ELSE cache
  BY ModSets
<1>2. modDoubt' = modDoubt \cup ((IF clears /\ check # Nil THEN {"outdated"} ELSE {})
         \cup (IF asked # Files!Mods!Unknown THEN {"overlooked"} ELSE {})
         \cup (IF \E f \in asked : jar[f] = "half" THEN {"rewritten"} ELSE {}))
  OBVIOUS
<1>3. /\ modDoubt \subseteq modDoubt'
      /\ modDoubt' \subseteq modDoubt \cup {"outdated", "overlooked", "rewritten"}
      /\ clears => check = Nil \/ "outdated" \in modDoubt'
      /\ "overlooked" \notin modDoubt' => asked = Files!Mods!Unknown
  BY <1>2
<1>4. \A f \in MFiles : /\ Files!Mods!Answer(f) \in MRows /\ Files!Mods!Answer(f).asked
                        /\ Files!Mods!Answer(f).build = Nil \/ Files!Mods!Answer(f).build = jar[f]
                        /\ Files!Mods!Answer(f) # Nil
  <2> SUFFICES ASSUME NEW f \in MFiles
               PROVE  /\ Files!Mods!Answer(f) \in MRows /\ Files!Mods!Answer(f).asked
                      /\ Files!Mods!Answer(f).build = Nil \/ Files!Mods!Answer(f).build = jar[f]
                      /\ Files!Mods!Answer(f) # Nil
    OBVIOUS
  <2>1. Files!Mods!Answer(f) \in MRows
    BY DEF Files!Mods!Answer, MRows
  <2>2. Files!Mods!Answer(f).asked
    BY DEF Files!Mods!Answer
  <2>3. Files!Mods!Answer(f).build = Nil \/ Files!Mods!Answer(f).build = jar[f]
    BY DEF Files!Mods!Answer
  <2> QED
    BY <2>1, <2>2, <2>3, ModsConstants
<1>5. modRows' \in [MFiles -> MRows \cup {Nil}]
  BY <1>1, <1>4 DEF ModTypes
<1>6. \A f \in MFiles : f \in Files!Mods!Unknown <=> jar[f] # Nil /\ ~ Files!Mods!Accounted(f)
  BY ModSets DEF Files!Mods!Unknown, Files!Mods!Present
<1>7. \A f \in MFiles : modRows'[f] = IF f \in asked THEN Files!Mods!Answer(f) ELSE modRows[f]
  BY <1>1
<1>8. \A f \in asked : f \in MFiles /\ f \in Files!Mods!Unknown
  BY ModSets DEF Files!Mods!Unknown
<1>9. ASSUME NEW f \in MFiles
      PROVE  /\ Files!Mods!Accounted(f) => Files!Mods!Accounted(f)'
             /\ f \in asked => Files!Mods!Accounted(f)'
  <2>1. CASE f \in asked
    BY <1>4, <1>7, <2>1 DEF Files!Mods!Accounted
  <2>2. CASE f \notin asked
    BY <1>7, <2>2 DEF Files!Mods!Accounted
  <2> QED
    BY <2>1, <2>2
<1>10. ASSUME NEW f \in MFiles
       PROVE  /\ modRows'[f] # modRows[f] =>
                   jar[f] # Nil /\ (modRows'[f].build = Nil \/ modRows'[f].build = jar[f])
              /\ Files!Mods!Accounted(f) => Files!Mods!Accounted(f)'
              /\ jar[f] # Nil /\ "overlooked" \notin modDoubt' => Files!Mods!Accounted(f)'
  BY <1>3, <1>4, <1>6, <1>7, <1>8, <1>9
<1>11. asked = {} => modRows' = modRows
  BY <1>1 DEF ModTypes
<1> QED
  BY <1>1, <1>3, <1>5, <1>10, <1>11

\* What the rows then say of the folder.
LEMMA ModsAnswered ==
  ASSUME ModTypes, NEW asked \in SUBSET Files!Mods!Unknown, NEW clears \in BOOLEAN,
         Files!Mods!Identifies(asked, clears), UNCHANGED jar, sig' \in {sig, Nil}
  PROVE  /\ RowsMatch(jar) => RowsMatch(jar)'
         /\ SeenIsKnown(jar) => SeenIsKnown(jar)'
         /\ "overlooked" \notin modDoubt' => SeenIsKnown(jar)'
<1>1. \A f \in MFiles :
        /\ modRows'[f] # modRows[f] =>
             jar[f] # Nil /\ (modRows'[f].build = Nil \/ modRows'[f].build = jar[f])
        /\ Files!Mods!Accounted(f) => Files!Mods!Accounted(f)'
        /\ jar[f] # Nil /\ "overlooked" \notin modDoubt' => Files!Mods!Accounted(f)'
  BY ModsIdentifies
<1>2. \A n, b : Files!Mods!Seen(n, b)' => Files!Mods!Seen(n, b)
  BY DEF Files!Mods!Seen
<1>3. RowsMatch(jar) => RowsMatch(jar)'
  BY <1>1 DEF RowsMatch
<1>4. SeenIsKnown(jar) => SeenIsKnown(jar)'
  BY <1>1, <1>2 DEF SeenIsKnown
<1>5. "overlooked" \notin modDoubt' => SeenIsKnown(jar)'
  BY <1>1 DEF SeenIsKnown
<1> QED
  BY <1>3, <1>4, <1>5

\* A scan reads the folder it asks Modrinth about.
LEMMA ModsAsk ==
  ASSUME ModsInv, Files!Mods!PickEnds \/ Files!Mods!ScanAsks
  PROVE  ModsInv'
<1>0. /\ ModTypes /\ modCall \notin MInstalls /\ modCall' = Nil /\ modCall' \notin MInstalls
      /\ installTold' = Nil /\ UNCHANGED <<jar, check, modCalls, drops>>
  BY ModCalls, ModsConstants
     DEF ModsInv, Files!Mods!PickEnds, Files!Mods!ScanAsks, Files!Mods!Under, Files!Mods!Quiet
<1>1. CASE Files!Mods!PickEnds
  <2>1. UNCHANGED <<sig, scans>>
    BY <1>1 DEF Files!Mods!PickEnds
  <2>2. CASE \E asked \in SUBSET Files!Mods!Unknown : Files!Mods!Identifies(asked, TRUE)
    <3>1. PICK asked \in SUBSET Files!Mods!Unknown : Files!Mods!Identifies(asked, TRUE)
      BY <2>2
    <3>2. /\ modRows' \in [MFiles -> MRows \cup {Nil}] /\ cache' = Nil
          /\ check = Nil \/ "outdated" \in modDoubt'
          /\ modDoubt \subseteq modDoubt'
          /\ modDoubt' \subseteq modDoubt \cup {"outdated", "overlooked", "rewritten"}
      BY <1>0, <3>1, ModsIdentifies
    <3>3. /\ RowsMatch(jar) => RowsMatch(jar)'
          /\ SeenIsKnown(jar) => SeenIsKnown(jar)'
      BY <1>0, <2>1, <3>1, ModsAnswered
    <3>4. ModTypes'
      BY <1>0, <2>1, <3>2 DEF ModTypes
    <3>5. RowsHold' /\ SeenHolds' /\ CacheHolds'
      BY <1>0, <2>1, <3>2, <3>3 DEF ModsInv, RowsHold, SeenHolds, CacheHolds, AnswerHolds
    <3> QED
      BY <1>0, <3>4, <3>5 DEF ModsInv, InstallsGo, Files!Mods!InstallIsAllOrNothing
  <2>3. CASE UNCHANGED modRows /\ Files!Mods!ClearsCache
    <3>1. /\ UNCHANGED modRows /\ cache' = Nil
          /\ modDoubt' = modDoubt \cup (IF check # Nil THEN {"outdated"} ELSE {})
      BY <2>3 DEF Files!Mods!ClearsCache, Files!Mods!Doubting, Files!Mods!When
    <3>2. ModTypes'
      BY <1>0, <2>1, <3>1 DEF ModTypes
    <3>3. RowsHold' /\ SeenHolds' /\ CacheHolds'
      BY <1>0, <2>1, <3>1 DEF ModsInv, RowsHold, RowsMatch, SeenHolds, SeenIsKnown, Files!Mods!Seen,
         Files!Mods!Accounted, CacheHolds, AnswerHolds
    <3> QED
      BY <1>0, <3>2, <3>3 DEF ModsInv, InstallsGo, Files!Mods!InstallIsAllOrNothing
  <2> QED
    BY <1>1, <2>2, <2>3 DEF Files!Mods!PickEnds
<1>2. CASE Files!Mods!ScanAsks
  <2>1. scans > 0 /\ modCall = Nil /\ scans' = scans - 1
    BY <1>2 DEF Files!Mods!ScanAsks
  <2>2. scans' \in Nat /\ scans' <= modCalls
    BY <1>0, <2>1, ModsConstants DEF ModTypes
  <2>3. CASE UNCHANGED sig /\ \E asked \in SUBSET Files!Mods!Unknown : Files!Mods!Identifies(asked, asked # {})
    <3>1. PICK asked \in SUBSET Files!Mods!Unknown : Files!Mods!Identifies(asked, asked # {})
      BY <2>3
    <3>2. /\ modRows' \in [MFiles -> MRows \cup {Nil}] /\ cache' \in {cache, Nil}
          /\ asked # {} => cache' = Nil /\ (check = Nil \/ "outdated" \in modDoubt')
          /\ asked = {} => cache' = cache /\ modRows' = modRows
          /\ modDoubt \subseteq modDoubt'
          /\ modDoubt' \subseteq modDoubt \cup {"outdated", "overlooked", "rewritten"}
      <4>1. (asked # {}) \in BOOLEAN
        OBVIOUS
      <4> QED
        BY <1>0, <3>1, <4>1, ModsIdentifies
    <3>3. /\ RowsMatch(jar) => RowsMatch(jar)'
          /\ "overlooked" \notin modDoubt' => SeenIsKnown(jar)'
      <4>1. (asked # {}) \in BOOLEAN
        OBVIOUS
      <4> QED
        BY <1>0, <2>3, <3>1, <4>1, ModsAnswered
    <3>4. ModTypes'
      BY <1>0, <2>2, <2>3, <3>2 DEF ModTypes
    <3>5. RowsHold' /\ SeenHolds'
      BY <1>0, <3>2, <3>3 DEF ModsInv, RowsHold, SeenHolds
    <3>6. CacheHolds'
      <4>1. CASE asked = {}
        BY <1>0, <2>1, <3>2, <4>1 DEF ModsInv, CacheHolds, AnswerHolds
      <4>2. CASE asked # {}
        BY <1>0, <3>2, <4>2 DEF CacheHolds, AnswerHolds
      <4> QED
        BY <4>1, <4>2
    <3> QED
      BY <1>0, <3>4, <3>5, <3>6 DEF ModsInv, InstallsGo, Files!Mods!InstallIsAllOrNothing
  <2>4. CASE sig' = Nil /\ UNCHANGED <<modRows, cache, modDoubt>>
    <3>1. ModTypes'
      BY <1>0, <2>2, <2>4 DEF ModTypes
    <3>2. RowsHold' /\ SeenHolds' /\ CacheHolds'
      BY <1>0, <2>1, <2>4 DEF ModsInv, RowsHold, RowsMatch, SeenHolds, SeenIsKnown, Files!Mods!Seen,
         CacheHolds, AnswerHolds
    <3> QED
      BY <1>0, <3>1, <3>2 DEF ModsInv, InstallsGo, Files!Mods!InstallIsAllOrNothing
  <2> QED
    BY <1>2, <2>3, <2>4 DEF Files!Mods!ScanAsks
<1> QED
  BY <1>1, <1>2

\* Looks at the folder and at the rows, and the end of the program.
LEMMA ModsLooks ==
  ASSUME ModsInv,
         Files!Mods!ScanLooks \/ Files!Mods!CheckBegins \/ Files!Mods!CheckEnds \/ UNCHANGED Files!modVars
  PROVE  ModsInv'
<1> USE DEF Files!Mods!Called, Files!Mods!Quiet
<1>0. /\ ModTypes /\ UNCHANGED <<jar, modRows, modCall, drops, modDoubt>>
      /\ installTold' = Nil \/ UNCHANGED installTold
  BY DEF ModsInv, Files!Mods!ScanLooks, Files!Mods!CheckBegins, Files!Mods!CheckEnds, Files!modVars
<1>1. InstallsGo' /\ RowsHold' /\ Files!Mods!InstallIsAllOrNothing'
  BY SMTT(30), <1>0 DEF ModsInv, InstallsGo, InstallShape, KnownName, RowsHold, RowsMatch,
     Files!Mods!InstallIsAllOrNothing, Files!Mods!Present
<1>2. CASE Files!Mods!ScanLooks
  <2>1. /\ modCalls < MaxModCalls /\ modCalls' = modCalls + 1 /\ sig' = jar
        /\ scans' = IF sig = jar THEN scans ELSE scans + 1
        /\ UNCHANGED <<check, cache>> /\ installTold' = Nil
    BY <1>2 DEF Files!Mods!ScanLooks
  <2>2. ModTypes'
    BY <1>0, <2>1, ModsConstants DEF ModTypes
  <2>3. CacheHolds'
    BY <1>0, <2>1 DEF ModsInv, CacheHolds, AnswerHolds
  <2>4. SeenHolds'
    <3>1. scans' = 0 => sig' = sig /\ scans = 0
      BY <1>0, <2>1 DEF ModTypes
    <3> QED
      BY <1>0, <3>1 DEF ModsInv, SeenHolds, SeenIsKnown, Files!Mods!Seen, Files!Mods!Accounted
  <2> QED
    BY <1>1, <2>2, <2>3, <2>4 DEF ModsInv
<1>3. CASE Files!Mods!CheckBegins \/ Files!Mods!CheckEnds \/ UNCHANGED Files!modVars
  <2>1. UNCHANGED <<sig, scans, modCalls>>
    BY <1>3 DEF Files!Mods!CheckBegins, Files!Mods!CheckEnds, Files!modVars
  <2>2. SeenHolds'
    BY <1>0, <2>1 DEF ModsInv, SeenHolds, SeenIsKnown, Files!Mods!Seen, Files!Mods!Accounted
  <2>3. Files!Mods!Listed \in MAnswers /\ AnswerHolds(Files!Mods!Listed)
    <3>1. Files!Mods!Listed = [f \in MFiles |-> IF jar[f] # Nil /\ modRows[f] # Nil THEN modRows[f].build ELSE Nil]
      BY ModSets DEF Files!Mods!Listed, Files!Mods!Present
    <3>2. \A f \in MFiles : modRows[f] # Nil => modRows[f].build \in DOMAIN Hosted \cup {Nil}
      BY <1>0 DEF ModTypes, MRows
    <3> QED
      BY <3>1, <3>2 DEF AnswerHolds, MAnswers
  <2>4. /\ check' \in {check, Nil, Files!Mods!Listed} /\ cache' \in {cache, check}
    BY <1>3 DEF Files!Mods!CheckBegins, Files!Mods!CheckEnds, Files!modVars
  <2>5. ModTypes'
    BY <1>0, <2>1, <2>3, <2>4 DEF ModTypes
  <2>6. \A x : AnswerHolds(x)' <=> AnswerHolds(x)
    BY <1>0 DEF AnswerHolds
  <2>7. AnswerHolds(Nil)
    BY DEF AnswerHolds
  <2>8. CacheHolds'
    <3> SUFFICES ASSUME "outdated" \notin modDoubt, "misfiled" \notin modDoubt,
                        modCall = Nil \/ (modCall \in MInstalls /\ ~ modCall.saved)
                 PROVE  AnswerHolds(check)' /\ AnswerHolds(cache)'
      BY <1>0 DEF CacheHolds
    <3>1. AnswerHolds(check) /\ AnswerHolds(cache)
      BY DEF ModsInv, CacheHolds
    <3>2. PICK x, y : x = check' /\ y = cache'
      OBVIOUS
    <3>3. AnswerHolds(x) /\ AnswerHolds(y)
      BY <2>3, <2>4, <2>7, <3>1, <3>2
    <3>4. AnswerHolds(x)' /\ AnswerHolds(y)'
      BY <2>6, <3>3
    <3> QED
      BY <3>2, <3>4 DEF AnswerHolds
  <2> QED
    BY <1>1, <2>2, <2>5, <2>8 DEF ModsInv
<1> QED
  BY <1>2, <1>3

\* A program that ends leaves the folder and the rows.
LEMMA ModsEnds ==
  ASSUME ModsInv, Files!Mods!ProgramEnds
  PROVE  ModsInv'
<1>0. /\ ModTypes /\ modCall' = Nil /\ modCall' \notin MInstalls /\ sig' = Nil /\ scans' = 0
      /\ check' = Nil /\ cache' = Nil /\ installTold' = Nil /\ UNCHANGED <<jar, modRows, modCalls, drops>>
      /\ modDoubt' = modDoubt \cup (IF modCall # Nil THEN {"rewritten"} ELSE {})
  BY ModCalls DEF ModsInv, Files!Mods!ProgramEnds, Files!Mods!Quiet, Files!Mods!Doubting, Files!Mods!When
<1>1. ModTypes'
  BY <1>0, ModsConstants DEF ModTypes
<1>2. RowsHold'
  <2>1. CASE modCall = Nil
    BY <1>0, <2>1, ModCalls DEF ModsInv, RowsHold, RowsMatch
  <2>2. CASE modCall # Nil
    BY <1>0, <2>2 DEF RowsHold
  <2> QED
    BY <2>1, <2>2
<1> QED
  BY <1>0, <1>1, <1>2 DEF ModsInv, InstallsGo, SeenHolds, SeenIsKnown, Files!Mods!Seen, CacheHolds,
     AnswerHolds, Files!Mods!InstallIsAllOrNothing

\* No step of a call, of a scan or of the user breaks it.
LEMMA ModsStep == ModsInv /\ [Files!Mods!ModNext]_(Files!modVars) => ModsInv'
<1> SUFFICES ASSUME ModsInv, [Files!Mods!ModNext]_(Files!modVars)
             PROVE  ModsInv'
  OBVIOUS
<1>1. CASE Files!Mods!InstallStep
  BY <1>1, ModsBegins, ModsFails, ModsInstallMoves, ModsSaves DEF Files!Mods!InstallStep
<1>2. CASE \E n \in ModNames, on \in BOOLEAN : Files!Mods!SetEnabled(n, on)
  BY <1>2, ModsToggles
<1>3. CASE \E n \in ModNames : Files!Mods!Uninstall(n)
  BY <1>3, ModsRemoves
<1>4. CASE \E n \in ModNames, b \in DOMAIN Hosted \cup Foreign :
             Files!Mods!InstallLocal(n, b) \/ Files!Mods!Drops(n, b) \/ Files!Mods!DropEnds(n, b)
  BY <1>4, ModsPicks, ModsDrops
<1>5. CASE Files!Mods!PickEnds \/ Files!Mods!ScanAsks
  BY <1>5, ModsAsk
<1>6. CASE Files!Mods!ScanLooks \/ Files!Mods!CheckBegins \/ Files!Mods!CheckEnds \/ UNCHANGED Files!modVars
  BY <1>6, ModsLooks
<1>7. CASE Files!Mods!ProgramEnds
  BY <1>7, ModsEnds
<1> QED
  BY <1>1, <1>2, <1>3, <1>4, <1>5, <1>6, <1>7, ModSets DEF Files!Mods!ModNext

-----------------------------------------------------------------------------
(****************************************************************************)
(* The connectors' sign-ins and grants (remote_oauth.go, remote_grants.go). *)
(****************************************************************************)
CSigns == 1 .. MaxSignIns
CTokens == 1 .. MaxGrantTokens
CGrants == [refresh : CTokens, prev : CTokens \cup {0}, earned : 1 .. MaxHashes]
CPages == [at : {"page", "waiting", "allowed", "denied"}, earned : 1 .. MaxHashes]

ConnectorTypes ==
  /\ consents \in [CSigns -> CPages \cup {Nil}]
  /\ checking \subseteq [on : CSigns, nth : 1 .. MaxChecks, ok : BOOLEAN, earned : 1 .. MaxHashes]
  /\ bucketBusy \in BOOLEAN
  /\ askedOf \subseteq CSigns /\ codes \in [CSigns -> (1 .. MaxHashes) \cup {Nil}]
  /\ grants \in [CSigns -> CGrants \cup {Nil}]
  /\ remoteJson \in [grants : [CSigns -> CGrants \cup {Nil}], password : 1 .. MaxHashes]
  /\ remotePassword \in 1 .. MaxHashes /\ holds \in [CSigns -> CTokens \cup {0, Nil}]
  /\ signIns \in 0 .. MaxSignIns /\ tokensIssued \in 0 .. MaxGrantTokens
  /\ prompted \in [CSigns -> Nat] /\ issued \in [CSigns -> Nat]
  /\ grantsEnded \subseteq CSigns /\ grantDoubt \subseteq CSigns
  /\ lingering \in BOOLEAN /\ passwordsCrossed \in BOOLEAN

\* A sign-in is asked about after its page, has a code after that, and then a grant.
StagesFollow(s) ==
  /\ s > signIns => /\ consents[s] = Nil /\ codes[s] = Nil
                    /\ prompted[s] = 0 /\ issued[s] = 0
  /\ consents[s] # Nil /\ consents[s].at = "page" => prompted[s] = 0 /\ codes[s] = Nil
  /\ consents[s] # Nil /\ consents[s].at = "waiting" => prompted[s] > 0 /\ codes[s] = Nil
  /\ consents[s] # Nil /\ consents[s].at \in {"page", "waiting"} => issued[s] = 0
  /\ codes[s] # Nil => prompted[s] > 0 /\ issued[s] = 0
  /\ issued[s] <= 1 /\ issued[s] <= prompted[s]

\* What a page and a code cost is the password that is set.
EarnedWithIt(s) ==
  /\ consents[s] # Nil => consents[s].earned = remotePassword
  /\ codes[s] # Nil => codes[s] = remotePassword

\* A verification is of a sign-in that began, and of the password its page was
\* shown under.
ChecksFollow ==
  \A c \in checking :
    /\ c.on <= signIns
    /\ consents[c.on] # Nil => c.earned = remotePassword

\* Of one page at a time, unless a password was set meanwhile.
OneCheckAtATime ==
  /\ \A c, d \in checking : c = d
  /\ \A c \in checking :
       bucketBusy /\ (consents[c.on] # Nil => consents[c.on].at = "page")
  /\ \A s \in CSigns : prompted[s] <= 1

\* The grants g, those in memory or those on the disk, are the ones that were
\* earned and not ended.
GrantsFollow(g) ==
  \A s \in CSigns :
    /\ g[s] # Nil =>
         /\ issued[s] > 0 /\ g[s].prev < g[s].refresh
         /\ ~ lingering => g[s].earned = remotePassword
    /\ g[s] # Nil => g[s].refresh <= tokensIssued
    /\ holds[s] \in CTokens /\ s \notin grantDoubt \cup grantsEnded =>
         g[s] # Nil /\ g[s].refresh = holds[s]
    /\ s \in grantsEnded /\ ~ lingering => g[s] = Nil

ConnectorsInv ==
  /\ ConnectorTypes
  /\ \A s \in CSigns : StagesFollow(s) /\ EarnedWithIt(s)
  /\ ChecksFollow
  /\ ~ passwordsCrossed => OneCheckAtATime
  /\ GrantsFollow(grants) /\ GrantsFollow(remoteJson.grants)
  /\ remoteJson.password = remotePassword
  /\ \A s \in grantsEnded : issued[s] > 0

\* No connector has signed in.
LEMMA ConnectorsStart == Files!Connectors!ConnectorInit => ConnectorsInv
<1> SUFFICES ASSUME Files!Connectors!ConnectorInit PROVE ConnectorsInv
  OBVIOUS
<1> USE DEF Files!Connectors!ConnectorInit, Files!Connectors!None, Files!Connectors!SignIns, CSigns
<1>1. 1 \in 1 .. MaxHashes /\ 0 \in 0 .. MaxSignIns /\ 0 \in 0 .. MaxGrantTokens /\ 0 \in Nat
  BY ConnectorsAssumption
<1>2. ConnectorTypes
  BY <1>1 DEF ConnectorTypes
<1>3. Nil \notin CTokens
  BY HistoryAssumption, ConnectorsAssumption DEF CTokens
<1>4. remoteJson.grants = grants /\ remoteJson.password = remotePassword
  OBVIOUS
<1>5. GrantsFollow(grants)
  BY <1>3 DEF GrantsFollow
<1>6. \A s \in CSigns : StagesFollow(s) /\ EarnedWithIt(s)
  BY DEF StagesFollow, EarnedWithIt
<1>7. ChecksFollow /\ OneCheckAtATime
  BY DEF ChecksFollow, OneCheckAtATime
<1> QED
  BY <1>2, <1>4, <1>5, <1>6, <1>7 DEF ConnectorsInv

\* A grant is earned with the password of its time, and ends with it
\* (remote_grants.go).
LEMMA ConnectorsPromise ==
  ConnectorsInv => Files!Connectors!ConnectorTypeOK /\ Files!Connectors!ConnectorIsSound
<1> SUFFICES ASSUME ConnectorsInv
             PROVE  Files!Connectors!ConnectorTypeOK /\ Files!Connectors!ConnectorIsSound
  OBVIOUS
<1> USE DEF Files!Connectors!SignIns, CSigns, Files!Connectors!Tokens, CTokens
<1>1. Files!Connectors!ConnectorTypeOK
  BY DEF ConnectorsInv, ConnectorTypes, Files!Connectors!ConnectorTypeOK, Files!Connectors!Grants,
         Files!Connectors!Passwords, CGrants, CPages
<1>2. Files!Connectors!SignsInOnce
  BY DEF ConnectorsInv, StagesFollow, OneCheckAtATime, Files!Connectors!SignsInOnce
<1>3. Files!Connectors!NothingOfAnOldPassword
  BY DEF ConnectorsInv, EarnedWithIt, GrantsFollow, Files!Connectors!NothingOfAnOldPassword
<1>4. Files!Connectors!GrantsLast
  BY DEF ConnectorsInv, GrantsFollow, Files!Connectors!GrantsLast
<1> QED
  BY <1>1, <1>2, <1>3, <1>4 DEF Files!Connectors!ConnectorIsSound

\* A step of the pages and codes leaves the grants alone.
LEMMA GrantsRest ==
  ASSUME ConnectorsInv,
         UNCHANGED <<grants, remoteJson, remotePassword, tokensIssued, issued, grantsEnded,
                     grantDoubt, lingering>>,
         \A s \in CSigns : holds'[s] = holds[s] \/ holds'[s] = 0
  PROVE  /\ GrantsFollow(grants)' /\ GrantsFollow(remoteJson.grants)'
         /\ remoteJson'.password = remotePassword'
         /\ \A s \in grantsEnded' : issued'[s] > 0
<1>1. 0 \notin CTokens
  BY ConnectorsAssumption DEF CTokens
<1>2. GrantsFollow(grants)'
  BY <1>1 DEF ConnectorsInv, GrantsFollow
<1>3. GrantsFollow(remoteJson.grants)'
  BY <1>1 DEF ConnectorsInv, GrantsFollow
<1> QED
  BY <1>2, <1>3 DEF ConnectorsInv

\* Its page changes for one sign-in: it opens, is answered or forgotten.
LEMMA PageMoves ==
  ASSUME ConnectorsInv, NEW s \in CSigns,
         UNCHANGED <<grants, remoteJson, remotePassword, tokensIssued, issued, grantsEnded,
                     grantDoubt, lingering, passwordsCrossed>>,
         holds' \in [CSigns -> CTokens \cup {0, Nil}],
         \A t \in CSigns : holds'[t] = holds[t] \/ holds'[t] = 0,
         consents' \in [CSigns -> CPages \cup {Nil}],
         codes' \in [CSigns -> (1 .. MaxHashes) \cup {Nil}],
         prompted' \in [CSigns -> Nat],
         askedOf' \subseteq CSigns, bucketBusy' \in BOOLEAN,
         signIns' \in 0 .. MaxSignIns, signIns <= signIns',
         \A t \in CSigns : t # s =>
           consents'[t] = consents[t] /\ codes'[t] = codes[t] /\ prompted'[t] = prompted[t],
         checking' \subseteq [on : CSigns, nth : 1 .. MaxChecks, ok : BOOLEAN, earned : 1 .. MaxHashes],
         (StagesFollow(s) /\ EarnedWithIt(s) /\ ChecksFollow)',
         (~ passwordsCrossed => OneCheckAtATime)'
  PROVE  ConnectorsInv'
<1>1. ConnectorTypes'
  BY DEF ConnectorsInv, ConnectorTypes
<1>2. ASSUME NEW t \in CSigns, t # s
      PROVE  (StagesFollow(t) /\ EarnedWithIt(t))'
  <2>1. StagesFollow(t) /\ EarnedWithIt(t)
    BY DEF ConnectorsInv
  <2>2. t > signIns' => t > signIns
    BY DEF ConnectorsInv, ConnectorTypes, CSigns
  <2>3. /\ consents'[t] = consents[t] /\ codes'[t] = codes[t] /\ prompted'[t] = prompted[t]
    BY <1>2
  <2> QED
    BY <2>1, <2>2, <2>3 DEF StagesFollow, EarnedWithIt
<1>3. \A t \in CSigns : (StagesFollow(t) /\ EarnedWithIt(t))'
  BY <1>2
<1> QED
  BY <1>1, <1>3, GrantsRest DEF ConnectorsInv

\* A consent page that is decided, left or expires earns nothing more.
LEMMA ConnectorsPages ==
  ASSUME ConnectorsInv, NEW s \in CSigns,
         \/ \E b \in BOOLEAN : Files!Connectors!ConsentGone(s, b)
         \/ \E b \in BOOLEAN : Files!Connectors!Decide(s, b)
         \/ Files!Connectors!Wait(s) \/ Files!Connectors!CodeExpires(s)
  PROVE  ConnectorsInv'
<1> USE DEF Files!Connectors!pages, Files!Connectors!kept, Files!Connectors!client,
            Files!Connectors!excuses, Files!Connectors!seen, Files!Connectors!Stage,
            Files!Connectors!Code
<1>0. /\ ConnectorTypes /\ StagesFollow(s) /\ EarnedWithIt(s) /\ ChecksFollow
      /\ ~ passwordsCrossed => OneCheckAtATime
  BY DEF ConnectorsInv
<1>1. UNCHANGED <<grants, remoteJson, remotePassword, tokensIssued, issued, grantsEnded,
                  grantDoubt, lingering, passwordsCrossed, bucketBusy, signIns, checking, prompted>>
  BY DEF Files!Connectors!ConsentGone, Files!Connectors!Decide, Files!Connectors!Wait, Files!Connectors!CodeExpires
<1>2. ASSUME holds' \in [CSigns -> CTokens \cup {0, Nil}],
             \A t \in CSigns : holds'[t] = holds[t] \/ holds'[t] = 0,
             consents' \in [CSigns -> CPages \cup {Nil}],
             codes' \in [CSigns -> (1 .. MaxHashes) \cup {Nil}],
             askedOf' \subseteq CSigns,
             \A t \in CSigns : t # s => consents'[t] = consents[t] /\ codes'[t] = codes[t],
             (StagesFollow(s) /\ EarnedWithIt(s))',
             consents'[s] # Nil => consents[s] # Nil /\ (consents'[s].at = "page" \/ consents[s].at # "page")
      PROVE  ConnectorsInv'
  <2>1. ChecksFollow'
    BY <1>0, <1>1, <1>2 DEF ChecksFollow, ConnectorTypes
  <2>2. (~ passwordsCrossed => OneCheckAtATime)'
    <3>1. ASSUME ~ passwordsCrossed', NEW c \in checking', consents'[c.on] # Nil
          PROVE  consents'[c.on].at = "page"
      <4>1. c.on \in CSigns
        BY <1>0, <1>1, <3>1 DEF ConnectorTypes
      <4>2. consents[c.on] # Nil => consents[c.on].at = "page"
        BY <1>0, <1>1, <3>1 DEF OneCheckAtATime
      <4> QED
        BY <1>2, <3>1, <4>1, <4>2
    <3> QED
      BY <1>0, <1>1, <3>1 DEF OneCheckAtATime
  <2>3. /\ checking' \subseteq [on : CSigns, nth : 1 .. MaxChecks, ok : BOOLEAN, earned : 1 .. MaxHashes]
        /\ prompted' \in [CSigns -> Nat] /\ bucketBusy' \in BOOLEAN
        /\ signIns' \in 0 .. MaxSignIns /\ signIns <= signIns'
    BY <1>0, <1>1 DEF ConnectorTypes
  <2>4. \A t \in CSigns : prompted'[t] = prompted[t]
    BY <1>1
  <2> QED
    BY <1>1, <1>2, <2>1, <2>2, <2>3, <2>4, PageMoves
<1>3. ASSUME NEW b \in BOOLEAN, Files!Connectors!ConsentGone(s, b)
      PROVE  ConnectorsInv'
  <2>1. consents' = [consents EXCEPT ![s] = Nil] /\ UNCHANGED <<askedOf, codes, holds>>
    BY <1>3 DEF Files!Connectors!ConsentGone
  <2>2. /\ consents' \in [CSigns -> CPages \cup {Nil}] /\ consents'[s] = Nil
        /\ \A t \in CSigns : t # s => consents'[t] = consents[t]
    BY <1>0, <2>1 DEF ConnectorTypes
  <2>3. (StagesFollow(s) /\ EarnedWithIt(s))'
    BY <1>0, <1>1, <2>1, <2>2 DEF StagesFollow, EarnedWithIt
  <2> QED
    BY <1>0, <1>2, <2>1, <2>2, <2>3 DEF ConnectorTypes
<1>4. ASSUME NEW agreed \in BOOLEAN, Files!Connectors!Decide(s, agreed)
      PROVE  ConnectorsInv'
  <2>1. askedOf' \subseteq CSigns /\ UNCHANGED holds
    BY <1>0, <1>4 DEF Files!Connectors!Decide, ConnectorTypes
  <2>2. CASE UNCHANGED <<consents, codes>>
    BY <1>0, <1>1, <1>2, <2>1, <2>2 DEF ConnectorTypes, StagesFollow, EarnedWithIt
  <2>3. CASE ~ UNCHANGED <<consents, codes>>
    <3>1. PICK at \in {"allowed", "denied"} :
            /\ consents[s] # Nil /\ consents[s].at = "waiting"
            /\ consents' = [consents EXCEPT ![s].at = at]
            /\ codes' = IF agreed THEN [codes EXCEPT ![s] = consents[s].earned] ELSE codes
      BY <1>4, <2>3 DEF Files!Connectors!Decide
    <3>2. consents[s] \in CPages
      BY <1>0, <3>1 DEF ConnectorTypes
    <3>3. [consents[s] EXCEPT !.at = at] \in CPages /\ [consents[s] EXCEPT !.at = at].at = at
          /\ [consents[s] EXCEPT !.at = at].earned = consents[s].earned /\ consents[s].earned \in 1 .. MaxHashes
      BY <3>2 DEF CPages
    <3>4. /\ consents' \in [CSigns -> CPages \cup {Nil}]
          /\ consents'[s] = [consents[s] EXCEPT !.at = at]
          /\ \A t \in CSigns : t # s => consents'[t] = consents[t]
      BY <1>0, <3>1, <3>3 DEF ConnectorTypes
    <3>5. /\ codes' \in [CSigns -> (1 .. MaxHashes) \cup {Nil}]
          /\ codes'[s] = IF agreed THEN consents[s].earned ELSE codes[s]
          /\ \A t \in CSigns : t # s => codes'[t] = codes[t]
      BY <1>0, <3>1, <3>3 DEF ConnectorTypes
    <3>6. s <= signIns
      BY <1>0, <3>1 DEF StagesFollow, ConnectorTypes, CSigns
    <3>7. StagesFollow(s)'
      BY <1>0, <1>1, <3>1, <3>3, <3>4, <3>5, <3>6 DEF StagesFollow, ConnectorTypes, CSigns
    <3>8. EarnedWithIt(s)'
      BY <1>0, <1>1, <3>1, <3>3, <3>4, <3>5 DEF EarnedWithIt
    <3>9. consents'[s] # Nil => consents[s] # Nil /\ (consents'[s].at = "page" \/ consents[s].at # "page")
      BY <3>1
    <3> QED
      BY <1>0, <1>2, <2>1, <3>4, <3>5, <3>7, <3>8, <3>9 DEF ConnectorTypes
  <2> QED
    BY <2>2, <2>3
<1>5. CASE Files!Connectors!Wait(s)
  <2>1. /\ consents' = [consents EXCEPT ![s] = Nil] /\ UNCHANGED <<askedOf, codes>>
        /\ holds' = [holds EXCEPT ![s] = 0] \/ UNCHANGED holds
    BY <1>5 DEF Files!Connectors!Wait
  <2>2. /\ consents' \in [CSigns -> CPages \cup {Nil}] /\ consents'[s] = Nil
        /\ \A t \in CSigns : t # s => consents'[t] = consents[t]
    BY <1>0, <2>1 DEF ConnectorTypes
  <2>3. (StagesFollow(s) /\ EarnedWithIt(s))'
    BY <1>0, <1>1, <2>1, <2>2 DEF StagesFollow, EarnedWithIt
  <2>4. /\ holds' \in [CSigns -> CTokens \cup {0, Nil}]
        /\ \A t \in CSigns : holds'[t] = holds[t] \/ holds'[t] = 0
    BY <1>0, <2>1 DEF ConnectorTypes
  <2> QED
    BY <1>0, <1>2, <2>1, <2>2, <2>3, <2>4 DEF ConnectorTypes
<1>6. CASE Files!Connectors!CodeExpires(s)
  <2>1. codes' = [codes EXCEPT ![s] = Nil] /\ UNCHANGED <<consents, askedOf, holds>>
    BY <1>6 DEF Files!Connectors!CodeExpires
  <2>2. /\ codes' \in [CSigns -> (1 .. MaxHashes) \cup {Nil}] /\ codes'[s] = Nil
        /\ \A t \in CSigns : t # s => codes'[t] = codes[t]
    BY <1>0, <2>1 DEF ConnectorTypes
  <2>3. (StagesFollow(s) /\ EarnedWithIt(s))'
    BY <1>0, <1>1, <2>1, <2>2 DEF StagesFollow, EarnedWithIt
  <2> QED
    BY <1>0, <1>2, <2>1, <2>2, <2>3 DEF ConnectorTypes
<1> QED
  BY <1>3, <1>4, <1>5, <1>6

\* A connector opens a consent page.
LEMMA ConnectorsAuthorizes == ConnectorsInv /\ Files!Connectors!Authorize => ConnectorsInv'
<1> SUFFICES ASSUME ConnectorsInv, Files!Connectors!Authorize PROVE ConnectorsInv'
  OBVIOUS
<1> USE DEF Files!Connectors!kept, Files!Connectors!excuses, Files!Connectors!seen
<1>0. /\ ConnectorTypes /\ ChecksFollow
      /\ ~ passwordsCrossed => OneCheckAtATime
  BY DEF ConnectorsInv
<1> DEFINE e == [at |-> "page", earned |-> remotePassword]
<1>1. /\ signIns' = signIns + 1 /\ signIns < MaxSignIns
      /\ consents' = [consents EXCEPT ![signIns + 1] = e]
      /\ UNCHANGED <<grants, remoteJson, remotePassword, tokensIssued, issued, grantsEnded,
                     grantDoubt, lingering, passwordsCrossed, bucketBusy, checking, prompted,
                     askedOf, codes, holds>>
  BY DEF Files!Connectors!Authorize
<1>2. /\ signIns + 1 \in CSigns /\ signIns' \in 0 .. MaxSignIns /\ signIns <= signIns'
      /\ signIns \in Nat
  BY <1>0, <1>1, ConnectorsAssumption DEF ConnectorTypes, CSigns
<1>3. e \in CPages /\ e.at = "page" /\ e.earned = remotePassword
  BY <1>0 DEF CPages, ConnectorTypes
<1> HIDE DEF e
<1>a. PICK s \in CSigns : s = signIns + 1
  BY <1>2
<1>b. s = signIns' /\ s > signIns
  BY <1>1, <1>2, <1>a
<1>4. /\ consents' \in [CSigns -> CPages \cup {Nil}] /\ consents'[s] = e
      /\ \A t \in CSigns : t # s => consents'[t] = consents[t]
  BY <1>0, <1>1, <1>a, <1>3 DEF ConnectorTypes
<1>5. StagesFollow(s) /\ EarnedWithIt(s)
  BY DEF ConnectorsInv
<1>6. codes[s] = Nil /\ prompted[s] = 0 /\ issued[s] = 0
  BY <1>5, <1>b DEF StagesFollow
<1>7. \A c \in checking : c.on \in CSigns /\ c.on <= signIns /\ c.on # s
  BY <1>0, <1>2, <1>a DEF ChecksFollow, ConnectorTypes, CSigns
<1>8. ChecksFollow'
  BY <1>0, <1>1, <1>2, <1>4, <1>7 DEF ChecksFollow, CSigns
<1>9. (~ passwordsCrossed => OneCheckAtATime)'
  BY <1>0, <1>1, <1>4, <1>7 DEF OneCheckAtATime
<1>10. ~ (s > signIns')
  BY <1>b DEF CSigns
<1>11. StagesFollow(s)'
  <2>1. consents'[s].at = "page" /\ codes'[s] = Nil /\ prompted'[s] = 0 /\ issued'[s] = 0
    BY <1>1, <1>3, <1>4, <1>6
  <2> QED
    BY <1>10, <2>1 DEF StagesFollow
<1>12. EarnedWithIt(s)'
  BY <1>1, <1>3, <1>4, <1>6 DEF EarnedWithIt
<1>13. \A t \in CSigns : codes'[t] = codes[t] /\ prompted'[t] = prompted[t] /\ holds'[t] = holds[t]
  BY <1>1
<1>14. /\ holds' \in [CSigns -> CTokens \cup {0, Nil}]
       /\ codes' \in [CSigns -> (1 .. MaxHashes) \cup {Nil}]
       /\ prompted' \in [CSigns -> Nat]
       /\ askedOf' \subseteq CSigns /\ bucketBusy' \in BOOLEAN
       /\ checking' \subseteq [on : CSigns, nth : 1 .. MaxChecks, ok : BOOLEAN, earned : 1 .. MaxHashes]
  BY <1>0, <1>1 DEF ConnectorTypes
<1> QED
  BY <1>1, <1>2, <1>4, <1>8, <1>9, <1>11, <1>12, <1>13, <1>14, PageMoves

\* A password is submitted on a page.
LEMMA ConnectorsSubmits ==
  ASSUME ConnectorsInv, NEW s \in CSigns, NEW ok \in BOOLEAN, Files!Connectors!Submit(s, ok)
  PROVE  ConnectorsInv'
<1> USE DEF Files!Connectors!kept, Files!Connectors!excuses, Files!Connectors!seen,
            Files!Connectors!client, Files!Connectors!Stage
<1>0. /\ ConnectorTypes /\ ChecksFollow /\ StagesFollow(s) /\ EarnedWithIt(s)
      /\ ~ passwordsCrossed => OneCheckAtATime
  BY DEF ConnectorsInv
<1>1. /\ consents[s] # Nil /\ consents[s].at = "page" /\ ~ bucketBusy /\ bucketBusy' = TRUE
      /\ UNCHANGED <<grants, remoteJson, remotePassword, tokensIssued, issued, grantsEnded,
                     grantDoubt, lingering, passwordsCrossed, consents, prompted,
                     askedOf, codes, holds, signIns>>
  BY DEF Files!Connectors!Submit
<1>2. PICK n \in 1 .. MaxChecks :
        checking' = checking \cup {[on |-> s, nth |-> n, ok |-> ok, earned |-> remotePassword]}
  BY DEF Files!Connectors!Submit
<1> DEFINE e == [on |-> s, nth |-> n, ok |-> ok, earned |-> remotePassword]
<1>3. /\ e \in [on : CSigns, nth : 1 .. MaxChecks, ok : BOOLEAN, earned : 1 .. MaxHashes]
      /\ e.on = s /\ e.earned = remotePassword /\ checking' = checking \cup {e}
  BY <1>0, <1>2 DEF ConnectorTypes
<1> HIDE DEF e
<1>4. s <= signIns
  BY <1>0, <1>1 DEF StagesFollow, ConnectorTypes, CSigns
<1>5. ChecksFollow'
  BY <1>0, <1>1, <1>3, <1>4 DEF ChecksFollow
<1>6. (~ passwordsCrossed => OneCheckAtATime)'
  <2> SUFFICES ASSUME ~ passwordsCrossed PROVE OneCheckAtATime'
    BY <1>1
  <2>1. checking = {}
    BY <1>0, <1>1 DEF OneCheckAtATime
  <2> QED
    BY <1>0, <1>1, <1>3, <2>1 DEF OneCheckAtATime
<1>7. (StagesFollow(s) /\ EarnedWithIt(s))'
  BY <1>0, <1>1 DEF StagesFollow, EarnedWithIt
<1>8. \A t \in CSigns : codes'[t] = codes[t] /\ prompted'[t] = prompted[t] /\ holds'[t] = holds[t]
                        /\ consents'[t] = consents[t]
  BY <1>1
<1>9. /\ holds' \in [CSigns -> CTokens \cup {0, Nil}] /\ consents' \in [CSigns -> CPages \cup {Nil}]
      /\ codes' \in [CSigns -> (1 .. MaxHashes) \cup {Nil}]
      /\ prompted' \in [CSigns -> Nat]
      /\ askedOf' \subseteq CSigns /\ bucketBusy' \in BOOLEAN /\ signIns' \in 0 .. MaxSignIns
      /\ signIns <= signIns'
      /\ checking' \subseteq [on : CSigns, nth : 1 .. MaxChecks, ok : BOOLEAN, earned : 1 .. MaxHashes]
  BY <1>0, <1>1, <1>3 DEF ConnectorTypes
<1> QED
  BY <1>1, <1>5, <1>6, <1>7, <1>8, <1>9, PageMoves

\* A password that was verified is the one of its check.
LEMMA ConnectorsVerifies ==
  ASSUME ConnectorsInv, NEW c \in checking, Files!Connectors!Verified(c)
  PROVE  ConnectorsInv'
<1> USE DEF Files!Connectors!kept, Files!Connectors!excuses, Files!Connectors!seen,
            Files!Connectors!client, Files!Connectors!Stage
<1> DEFINE e == [at |-> "waiting", earned |-> c.earned]
<1>0. /\ ConnectorTypes /\ ChecksFollow
      /\ ~ passwordsCrossed => OneCheckAtATime
  BY DEF ConnectorsInv
<1>1. /\ checking' = checking \ {c} /\ bucketBusy' = FALSE
      /\ UNCHANGED <<grants, remoteJson, remotePassword, tokensIssued, issued, grantsEnded,
                     grantDoubt, lingering, passwordsCrossed, codes, holds, signIns>>
  BY DEF Files!Connectors!Verified
<1>2. PICK s \in CSigns : s = c.on
  BY <1>0 DEF ConnectorTypes
<1>3. /\ s <= signIns /\ c.earned \in 1 .. MaxHashes
      /\ consents[s] # Nil => c.earned = remotePassword
  BY <1>0, <1>2 DEF ChecksFollow, ConnectorTypes
<1>4. StagesFollow(s) /\ EarnedWithIt(s)
  BY DEF ConnectorsInv
<1>5. e \in CPages /\ e.at = "waiting" /\ e.earned = c.earned
  BY <1>3 DEF CPages
<1> HIDE DEF e
<1>6. \/ UNCHANGED <<consents, askedOf, prompted>>
      \/ /\ consents[s] # Nil
         /\ consents' = IF consents[s].at = "page" THEN [consents EXCEPT ![s] = e] ELSE consents
         /\ askedOf' = askedOf \cup {s}
         /\ prompted' = [prompted EXCEPT ![s] = @ + 1]
  BY <1>2 DEF Files!Connectors!Verified, e
<1>7. /\ consents' \in [CSigns -> CPages \cup {Nil}]
      /\ \A t \in CSigns : t # s => consents'[t] = consents[t]
      /\ \/ consents'[s] = consents[s]
         \/ consents[s] # Nil /\ consents[s].at = "page" /\ consents'[s] = e
  BY <1>0, <1>5, <1>6 DEF ConnectorTypes
<1>8. /\ prompted' \in [CSigns -> Nat] /\ prompted[s] \in Nat
      /\ \A t \in CSigns : t # s => prompted'[t] = prompted[t]
      /\ prompted'[s] = prompted[s] \/ prompted'[s] = prompted[s] + 1
      /\ prompted'[s] # prompted[s] => consents[s] # Nil
      /\ consents'[s] # consents[s] => prompted'[s] = prompted[s] + 1
  BY <1>0, <1>6 DEF ConnectorTypes
<1>9. askedOf' \subseteq CSigns
  BY <1>0, <1>6 DEF ConnectorTypes
<1>10. ChecksFollow'
  BY <1>0, <1>1, <1>7 DEF ChecksFollow, ConnectorTypes
<1>11. (~ passwordsCrossed => OneCheckAtATime)'
  <2> SUFFICES ASSUME ~ passwordsCrossed PROVE OneCheckAtATime'
    BY <1>1
  <2>1. checking' = {}
    BY <1>0, <1>1 DEF OneCheckAtATime
  <2>2. consents[s] # Nil => prompted[s] = 0
    BY <1>0, <1>2, <1>4 DEF OneCheckAtATime, StagesFollow
  <2>3. \A t \in CSigns : prompted[t] <= 1
    BY <1>0 DEF OneCheckAtATime
  <2>4. prompted'[s] <= 1
    BY <1>8, <2>2, <2>3
  <2>5. \A t \in CSigns : prompted'[t] <= 1
    BY <1>8, <2>3, <2>4
  <2> QED
    BY <2>1, <2>5 DEF OneCheckAtATime
<1>12. issued'[s] \in Nat /\ issued[s] \in Nat /\ signIns \in Nat
  BY <1>0, <1>1, ConnectorsAssumption DEF ConnectorTypes
<1>13. StagesFollow(s)'
  <2>1. CASE consents'[s] = consents[s]
    <3>1. prompted'[s] # prompted[s] => consents[s] # Nil /\ consents[s].at # "page"
      BY <1>6, <1>7, <1>8, <1>5, <2>1, <1>0 DEF ConnectorTypes
    <3> QED
      BY <1>1, <1>3, <1>4, <1>8, <1>12, <2>1, <3>1 DEF StagesFollow, CSigns
  <2>2. CASE consents'[s] # consents[s]
    BY <1>1, <1>3, <1>4, <1>5, <1>7, <1>8, <1>12, <2>2 DEF StagesFollow, CSigns
  <2> QED
    BY <2>1, <2>2
<1>14. EarnedWithIt(s)'
  BY <1>1, <1>3, <1>4, <1>5, <1>7 DEF EarnedWithIt
<1>15. \A t \in CSigns : codes'[t] = codes[t] /\ holds'[t] = holds[t]
  BY <1>1
<1>16. /\ holds' \in [CSigns -> CTokens \cup {0, Nil}]
       /\ codes' \in [CSigns -> (1 .. MaxHashes) \cup {Nil}]
       /\ signIns' \in 0 .. MaxSignIns /\ signIns <= signIns'
  BY <1>0, <1>1, <1>12 DEF ConnectorTypes
<1>17. checking' \subseteq [on : CSigns, nth : 1 .. MaxChecks, ok : BOOLEAN, earned : 1 .. MaxHashes]
  BY <1>0, <1>1 DEF ConnectorTypes
<1>18. bucketBusy' \in BOOLEAN
  BY <1>1
<1> QED
  BY <1>1, <1>7, <1>8, <1>9, <1>10, <1>11, <1>13, <1>14, <1>15, <1>16, <1>17, <1>18,
     PageMoves

\* A sign-in's grant is made, renewed or ended in memory, and on the disk if it
\* can be written.
LEMMA GrantMoves ==
  ASSUME ConnectorsInv, NEW s \in CSigns, NEW e \in CGrants \cup {Nil},
         grants' = [grants EXCEPT ![s] = e],
         \/ remoteJson' = [remoteJson EXCEPT !.grants = grants']
         \/ UNCHANGED remoteJson /\ s \in grantDoubt' \cup grantsEnded,
         UNCHANGED <<consents, checking, bucketBusy, askedOf, remotePassword, signIns,
                     prompted, grantsEnded, lingering, passwordsCrossed>>,
         tokensIssued' \in 0 .. MaxGrantTokens, tokensIssued <= tokensIssued',
         codes' \in [CSigns -> (1 .. MaxHashes) \cup {Nil}],
         issued' \in [CSigns -> Nat],
         \A t \in CSigns \ {s} :
           holds'[t] = holds[t] /\ issued'[t] = issued[t] /\ codes'[t] = codes[t],
         issued[s] <= issued'[s],
         holds' \in [CSigns -> CTokens \cup {0, Nil}],
         grantDoubt \subseteq grantDoubt' /\ grantDoubt' \subseteq grantDoubt \cup {s},
         (StagesFollow(s) /\ EarnedWithIt(s))',
         e # Nil => /\ issued'[s] > 0 /\ e.prev < e.refresh /\ e.refresh <= tokensIssued'
                    /\ ~ lingering => e.earned = remotePassword,
         holds'[s] \in CTokens /\ s \notin grantDoubt' \cup grantsEnded =>
           e # Nil /\ e.refresh = holds'[s],
         s \in grantsEnded /\ ~ lingering => e = Nil
  PROVE  ConnectorsInv'
<1>0. /\ ConnectorTypes /\ GrantsFollow(grants) /\ GrantsFollow(remoteJson.grants)
      /\ remoteJson.password = remotePassword
  BY DEF ConnectorsInv
<1>1. /\ grants' \in [CSigns -> CGrants \cup {Nil}] /\ grants'[s] = e
      /\ \A t \in CSigns \ {s} : grants'[t] = grants[t]
  BY <1>0 DEF ConnectorTypes
<1>2. /\ remoteJson' \in [grants : [CSigns -> CGrants \cup {Nil}], password : 1 .. MaxHashes]
      /\ remoteJson'.password = remotePassword'
      /\ \/ remoteJson'.grants = grants'
         \/ remoteJson'.grants = remoteJson.grants /\ s \in grantDoubt' \cup grantsEnded
  BY <1>0, <1>1 DEF ConnectorTypes
<1>3. ConnectorTypes'
  BY <1>0, <1>1, <1>2 DEF ConnectorTypes
<1>4. ASSUME NEW t \in CSigns
      PROVE  (StagesFollow(t) /\ EarnedWithIt(t))'
  <2>1. CASE t = s
    BY <2>1
  <2>2. CASE t # s
    <3>1. StagesFollow(t) /\ EarnedWithIt(t)
      BY DEF ConnectorsInv
    <3>2. issued'[t] = issued[t] /\ codes'[t] = codes[t]
      BY <2>2
    <3> QED
      BY <3>1, <3>2 DEF StagesFollow, EarnedWithIt
  <2> QED
    BY <2>1, <2>2
<1>5. /\ ChecksFollow' /\ (~ passwordsCrossed => OneCheckAtATime)'
      /\ \A t \in grantsEnded' : issued'[t] > 0
  <2>1. ChecksFollow' /\ (~ passwordsCrossed => OneCheckAtATime)'
    BY DEF ConnectorsInv, ChecksFollow, OneCheckAtATime
  <2>2. ASSUME NEW t \in grantsEnded'
        PROVE  issued'[t] > 0
    <3>1. t \in CSigns /\ issued[t] > 0 /\ issued[t] \in Nat /\ issued'[t] \in Nat
      BY <1>0 DEF ConnectorsInv, ConnectorTypes
    <3>2. issued[t] <= issued'[t]
      BY <3>1
    <3> QED
      BY <3>1, <3>2
  <2> QED
    BY <2>1, <2>2
<1>6. \A t \in CSigns : issued[t] \in Nat /\ issued'[t] \in Nat /\ issued[t] <= issued'[t]
  BY <1>0 DEF ConnectorTypes
<1>7. ASSUME NEW t \in CSigns, t # s
      PROVE  /\ holds'[t] = holds[t]
             /\ (t \in grantDoubt' <=> t \in grantDoubt)
  BY <1>7
<1>8. GrantsFollow(grants)'
  <2> SUFFICES ASSUME NEW t \in CSigns
               PROVE  /\ grants'[t] # Nil =>
                          /\ issued'[t] > 0 /\ grants'[t].prev < grants'[t].refresh
                          /\ ~ lingering => grants'[t].earned = remotePassword
                      /\ grants'[t] # Nil => grants'[t].refresh <= tokensIssued'
                      /\ holds'[t] \in CTokens /\ t \notin grantDoubt' \cup grantsEnded =>
                          grants'[t] # Nil /\ grants'[t].refresh = holds'[t]
                      /\ t \in grantsEnded /\ ~ lingering => grants'[t] = Nil
    BY DEF GrantsFollow
  <2>1. CASE t = s
    BY <1>1, <2>1
  <2>2. CASE t # s
    <3>1. grants'[t] # Nil => grants'[t].refresh \in Nat
      BY <1>1, ConnectorsAssumption DEF CGrants, CTokens
    <3>2. tokensIssued \in Nat /\ tokensIssued' \in Nat
      BY <1>0, ConnectorsAssumption DEF ConnectorTypes
    <3> QED
      BY <1>0, <1>1, <1>6, <1>7, <2>2, <3>1, <3>2 DEF GrantsFollow
  <2> QED
    BY <2>1, <2>2
<1>9. GrantsFollow(remoteJson.grants)'
  <2>1. CASE remoteJson'.grants = grants'
    BY <1>8, <2>1 DEF GrantsFollow
  <2>2. CASE remoteJson'.grants = remoteJson.grants /\ s \in grantDoubt' \cup grantsEnded
    <3> SUFFICES ASSUME NEW t \in CSigns, NEW g, g = remoteJson.grants
               PROVE  /\ g[t] # Nil =>
                          /\ issued'[t] > 0 /\ g[t].prev < g[t].refresh
                          /\ ~ lingering => g[t].earned = remotePassword
                      /\ g[t] # Nil => g[t].refresh <= tokensIssued'
                      /\ holds'[t] \in CTokens /\ t \notin grantDoubt' \cup grantsEnded =>
                          g[t] # Nil /\ g[t].refresh = holds'[t]
                      /\ t \in grantsEnded /\ ~ lingering => g[t] = Nil
      BY <2>2 DEF GrantsFollow
    <3>1. g[t] # Nil => g[t].refresh \in Nat
      BY <1>0, ConnectorsAssumption DEF ConnectorTypes, CGrants, CTokens
    <3>2. tokensIssued \in Nat /\ tokensIssued' \in Nat
      BY <1>0, ConnectorsAssumption DEF ConnectorTypes
    <3>3. t # s => holds'[t] = holds[t] /\ (t \in grantDoubt' <=> t \in grantDoubt)
      BY <1>7
    <3> QED
      BY <1>0, <1>6, <2>2, <3>1, <3>2, <3>3 DEF GrantsFollow
  <2> QED
    BY <1>2, <2>1, <2>2
<1> QED
  BY <1>2, <1>3, <1>4, <1>5, <1>8, <1>9 DEF ConnectorsInv

\* A code is exchanged for a grant once.
LEMMA ConnectorsExchange ==
  ASSUME ConnectorsInv, NEW s \in CSigns, Files!Connectors!Exchange(s)
  PROVE  ConnectorsInv'
<1> USE DEF Files!Connectors!pages, Files!Connectors!kept, Files!Connectors!client,
            Files!Connectors!Code, Files!Connectors!Writes, Files!Connectors!Replied
<1>0. ConnectorTypes /\ StagesFollow(s) /\ EarnedWithIt(s)
  BY DEF ConnectorsInv
<1>1. /\ holds[s] = 0 /\ codes[s] # Nil /\ codes' = [codes EXCEPT ![s] = Nil]
      /\ UNCHANGED <<consents, checking, bucketBusy, askedOf, remotePassword, signIns,
                     prompted, grantsEnded, lingering, passwordsCrossed>>
  BY DEF Files!Connectors!Exchange
<1>2. /\ codes[s] \in 1 .. MaxHashes /\ codes[s] = remotePassword
      /\ issued[s] = 0 /\ prompted[s] > 0 /\ prompted[s] \in Nat
      /\ s \notin grantsEnded
      /\ consents[s] # Nil => consents[s].at \notin {"page", "waiting"}
  BY <1>0, <1>1 DEF ConnectorsInv, ConnectorTypes, StagesFollow, EarnedWithIt
<1>3. /\ codes' \in [CSigns -> (1 .. MaxHashes) \cup {Nil}] /\ codes'[s] = Nil
      /\ \A t \in CSigns \ {s} : codes'[t] = codes[t]
  BY <1>0, <1>1 DEF ConnectorTypes
<1>4. ~ (s > signIns)
  BY <1>0, <1>1 DEF StagesFollow
<1>5. EarnedWithIt(s)'
  BY <1>0, <1>1, <1>3 DEF EarnedWithIt
<1>6. 0 \notin CTokens /\ tokensIssued \in Nat
  BY <1>0, ConnectorsAssumption DEF CTokens, ConnectorTypes
<1>7. CASE UNCHANGED <<grants, remoteJson, holds, tokensIssued, issued, grantDoubt>>
  <2>1. StagesFollow(s)'
    BY <1>1, <1>2, <1>3, <1>4, <1>7 DEF StagesFollow
  <2>2. ASSUME NEW t \in CSigns
        PROVE  (StagesFollow(t) /\ EarnedWithIt(t))'
    <3>1. CASE t # s
      <4>1. StagesFollow(t) /\ EarnedWithIt(t)
        BY DEF ConnectorsInv
      <4> QED
        BY <1>1, <1>3, <1>7, <3>1, <4>1 DEF StagesFollow, EarnedWithIt
    <3> QED
      BY <1>5, <2>1, <3>1
  <2>3. ConnectorTypes'
    BY <1>0, <1>1, <1>3, <1>7 DEF ConnectorTypes
  <2>4. ChecksFollow' /\ (~ passwordsCrossed => OneCheckAtATime)'
    BY <1>1 DEF ConnectorsInv, ChecksFollow, OneCheckAtATime
  <2> QED
    BY <1>1, <1>7, <2>2, <2>3, <2>4, GrantsRest DEF ConnectorsInv
<1>8. CASE /\ tokensIssued < MaxGrantTokens /\ tokensIssued' = tokensIssued + 1
           /\ grants' = [grants EXCEPT ![s] = [refresh |-> tokensIssued + 1, prev |-> 0, earned |-> codes[s]]]
           /\ remoteJson' = [remoteJson EXCEPT !.grants = grants']
           /\ issued' = [issued EXCEPT ![s] = @ + 1]
           /\ \/ holds' = [holds EXCEPT ![s] = tokensIssued'] /\ UNCHANGED grantDoubt
              \/ UNCHANGED holds /\ grantDoubt' = grantDoubt \cup {s}
  <2> DEFINE e == [refresh |-> tokensIssued + 1, prev |-> 0, earned |-> codes[s]]
  <2>1. tokensIssued + 1 \in CTokens /\ tokensIssued' \in 0 .. MaxGrantTokens /\ tokensIssued <= tokensIssued'
    BY <1>6, <1>8, ConnectorsAssumption DEF CTokens
  <2>2. /\ e \in CGrants /\ e.prev = 0 /\ e.refresh = tokensIssued + 1 /\ e.earned = remotePassword
        /\ grants' = [grants EXCEPT ![s] = e]
    BY <1>2, <1>8, <2>1 DEF CGrants
  <2> HIDE DEF e
  <2>3. e # Nil
    BY <2>2, ConnectorsAssumption DEF CGrants, CTokens
  <2>4. /\ issued' \in [CSigns -> Nat] /\ issued'[s] = 1
        /\ \A t \in CSigns \ {s} : issued'[t] = issued[t]
    BY <1>0, <1>2, <1>8 DEF ConnectorTypes
  <2>5. /\ holds' \in [CSigns -> CTokens \cup {0, Nil}]
        /\ \A t \in CSigns \ {s} : holds'[t] = holds[t]
        /\ holds'[s] = tokensIssued + 1 \/ holds'[s] = 0
    BY <1>0, <1>1, <1>8, <2>1 DEF ConnectorTypes
  <2>6. grantDoubt \subseteq grantDoubt' /\ grantDoubt' \subseteq grantDoubt \cup {s}
    BY <1>8
  <2>7. StagesFollow(s)'
    BY <1>1, <1>2, <1>3, <1>4, <2>4 DEF StagesFollow
  <2>8. holds'[s] \in CTokens => e.refresh = holds'[s]
    BY <1>6, <2>2, <2>5
  <2>9. e.prev < e.refresh /\ e.refresh <= tokensIssued' /\ issued'[s] > 0 /\ issued[s] <= issued'[s]
    BY <1>2, <1>6, <1>8, <2>2, <2>4
  <2>10. e \in CGrants \cup {Nil}
    BY <2>2
  <2> QED
    BY <1>1, <1>2, <1>3, <1>5, <1>8, <2>1, <2>2, <2>3, <2>4, <2>5, <2>6, <2>7, <2>8, <2>9, <2>10, GrantMoves
<1> QED
  BY <1>7, <1>8 DEF Files!Connectors!Exchange

\* A token that is refreshed takes the place of the one before.
LEMMA ConnectorsRefresh ==
  ASSUME ConnectorsInv, NEW s \in CSigns, Files!Connectors!Refresh(s)
  PROVE  ConnectorsInv'
<1> USE DEF Files!Connectors!pages, Files!Connectors!Writes, Files!Connectors!Replied
<1>0. ConnectorTypes /\ StagesFollow(s) /\ EarnedWithIt(s) /\ GrantsFollow(grants)
  BY DEF ConnectorsInv
<1>1. /\ holds[s] \in CTokens /\ grants[s] # Nil
      /\ UNCHANGED <<consents, checking, bucketBusy, askedOf, remotePassword, signIns, codes,
                     prompted, issued, grantsEnded, lingering, passwordsCrossed>>
  BY DEF Files!Connectors!Refresh, Files!Connectors!Tokens, CTokens
<1>2. /\ grants[s] \in CGrants /\ grants[s].prev < grants[s].refresh
      /\ grants[s].refresh <= tokensIssued /\ issued[s] > 0
      /\ ~ lingering => grants[s].earned = remotePassword
      /\ ~ lingering => s \notin grantsEnded
      /\ s \notin grantDoubt \cup grantsEnded => grants[s].refresh = holds[s]
  BY <1>0, <1>1 DEF ConnectorTypes, GrantsFollow
<1>3. (StagesFollow(s) /\ EarnedWithIt(s))'
  BY <1>0, <1>1 DEF StagesFollow, EarnedWithIt
<1>4. /\ codes' \in [CSigns -> (1 .. MaxHashes) \cup {Nil}] /\ issued' \in [CSigns -> Nat]
      /\ \A t \in CSigns \ {s} : codes'[t] = codes[t] /\ issued'[t] = issued[t]
      /\ issued[s] <= issued'[s] /\ issued'[s] > 0
  BY <1>0, <1>1, <1>2 DEF ConnectorTypes
<1>5. tokensIssued \in 0 .. MaxGrantTokens /\ tokensIssued \in Nat
  BY <1>0, ConnectorsAssumption DEF ConnectorTypes
<1>6. CASE /\ holds[s] = grants[s].prev
           /\ grants' = [grants EXCEPT ![s] = Nil]
           /\ remoteJson' = [remoteJson EXCEPT !.grants = grants'] \/ UNCHANGED remoteJson
           /\ UNCHANGED <<tokensIssued, holds, grantDoubt>>
  <2>1. s \in grantDoubt \cup grantsEnded
    BY <1>1, <1>2, <1>6, ConnectorsAssumption DEF CGrants, CTokens
  <2>2. /\ tokensIssued' \in 0 .. MaxGrantTokens /\ tokensIssued <= tokensIssued'
        /\ holds' \in [CSigns -> CTokens \cup {0, Nil}]
        /\ \A t \in CSigns \ {s} : holds'[t] = holds[t]
        /\ grantDoubt' = grantDoubt
    BY <1>0, <1>5, <1>6 DEF ConnectorTypes
  <2> QED
    BY <1>1, <1>3, <1>4, <1>6, <2>1, <2>2, GrantMoves
<1>7. CASE /\ holds[s] = grants[s].refresh /\ tokensIssued < MaxGrantTokens /\ tokensIssued' = tokensIssued + 1
           /\ grants' = Files!Connectors!Rotated(s)
           /\ \/ /\ remoteJson' = [remoteJson EXCEPT !.grants = grants']
                 /\ \/ holds' = [holds EXCEPT ![s] = tokensIssued'] /\ UNCHANGED grantDoubt
                    \/ UNCHANGED holds /\ grantDoubt' = grantDoubt \cup {s}
              \/ grantDoubt' = grantDoubt \cup {s} /\ UNCHANGED <<remoteJson, holds>>
  <2> DEFINE e == [refresh |-> tokensIssued + 1, prev |-> grants[s].refresh, earned |-> grants[s].earned]
  <2>1. tokensIssued + 1 \in CTokens /\ tokensIssued' \in 0 .. MaxGrantTokens /\ tokensIssued <= tokensIssued'
    BY <1>5, <1>7, ConnectorsAssumption DEF CTokens
  <2>2. /\ e \in CGrants /\ e.prev = grants[s].refresh /\ e.refresh = tokensIssued + 1
        /\ e.earned = grants[s].earned
    BY <1>2, <2>1 DEF CGrants
  <2>3. grants' = [grants EXCEPT ![s] = e]
    <3>1. grants' = [grants EXCEPT ![s].refresh = tokensIssued + 1, ![s].prev = grants[s].refresh]
      BY <1>7 DEF Files!Connectors!Rotated
    <3>2. grants \in [CSigns -> CGrants \cup {Nil}]
      BY <1>0 DEF ConnectorTypes
    <3> DEFINE g == [grants EXCEPT ![s].refresh = tokensIssued + 1]
    <3>3. /\ DOMAIN g = CSigns /\ g[s] = [grants[s] EXCEPT !.refresh = tokensIssued + 1]
          /\ \A t \in CSigns \ {s} : g[t] = grants[t]
      BY <3>2
    <3>4. grants' = [g EXCEPT ![s].prev = grants[s].refresh]
      BY <3>1
    <3> HIDE DEF g
    <3>5. [g[s] EXCEPT !.prev = grants[s].refresh] = e
      <4>1. PICK x \in CGrants : x = grants[s]
        BY <1>2
      <4>2. PICK y : y = [x EXCEPT !.refresh = tokensIssued + 1]
        OBVIOUS
      <4>3. y = [refresh |-> tokensIssued + 1, prev |-> x.prev, earned |-> x.earned]
        BY <4>2 DEF CGrants
      <4>4. [y EXCEPT !.prev = x.refresh]
              = [refresh |-> tokensIssued + 1, prev |-> x.refresh, earned |-> x.earned]
        BY <4>3
      <4> QED
        BY <3>3, <4>1, <4>2, <4>4 DEF e
    <3>6. /\ DOMAIN grants' = CSigns /\ grants'[s] = e
          /\ \A t \in CSigns \ {s} : grants'[t] = grants[t]
          /\ grants' = [t \in CSigns |-> grants'[t]]
      BY <3>3, <3>4, <3>5
    <3> QED
      BY <3>2, <3>6
  <2> HIDE DEF e
  <2>4. e # Nil
    BY <2>2, ConnectorsAssumption DEF CGrants, CTokens
  <2>5. /\ holds' \in [CSigns -> CTokens \cup {0, Nil}]
        /\ \A t \in CSigns \ {s} : holds'[t] = holds[t]
        /\ s \notin grantDoubt' => holds'[s] = tokensIssued + 1
    BY <1>0, <1>1, <1>7, <2>1 DEF ConnectorTypes
  <2>6. /\ grantDoubt \subseteq grantDoubt' /\ grantDoubt' \subseteq grantDoubt \cup {s}
        /\ \/ remoteJson' = [remoteJson EXCEPT !.grants = grants']
           \/ UNCHANGED remoteJson /\ s \in grantDoubt'
    BY <1>7
  <2>7. e.prev < e.refresh /\ e.refresh <= tokensIssued'
    <3>1. grants[s].refresh \in Nat
      BY <1>2, ConnectorsAssumption DEF CGrants, CTokens
    <3> QED
      BY <1>2, <1>5, <1>7, <2>2, <3>1
  <2>8. ~ lingering => e.earned = remotePassword
    BY <1>2, <2>2
  <2>9. s \notin grantDoubt' => e.refresh = holds'[s]
    BY <2>2, <2>5
  <2>10. ~ (s \in grantsEnded /\ ~ lingering)
    BY <1>2
  <2>11. e \in CGrants \cup {Nil}
    BY <2>2
  <2> QED
    BY <1>1, <1>3, <1>4, <2>1, <2>3, <2>4, <2>5, <2>6, <2>7, <2>8, <2>9, <2>10, <2>11, GrantMoves
<1> QED
  BY <1>6, <1>7 DEF Files!Connectors!Refresh

\* The grants that are ended are gone from memory and, if that could be written,
\* from the disk; the pages and codes stay or all go.
LEMMA ConnectorsRevokes ==
  ASSUME ConnectorsInv, NEW gone \in SUBSET CSigns, Files!Connectors!Revoke(gone)
  PROVE  ConnectorsInv'
<1> USE DEF Files!Connectors!pages, Files!Connectors!Writes, Files!Connectors!excuses,
            Files!Connectors!client, Files!Connectors!SignIns
<1>0. ConnectorTypes /\ GrantsFollow(grants) /\ GrantsFollow(remoteJson.grants)
  BY DEF ConnectorsInv
<1>1. /\ UNCHANGED <<consents, checking, bucketBusy, askedOf, codes, remotePassword, holds, signIns,
                     tokensIssued, prompted, issued, grantDoubt, lingering, passwordsCrossed>>
      /\ grantsEnded' = grantsEnded \cup gone
      /\ \A s \in gone : grants[s] # Nil
      /\ grants' = [s \in CSigns |-> IF s \in gone THEN Nil ELSE grants[s]]
      /\ remoteJson' = [remoteJson EXCEPT !.grants = grants']
  BY DEF Files!Connectors!Revoke, Files!Connectors!Live, CSigns
<1>2. /\ grants' \in [CSigns -> CGrants \cup {Nil}]
      /\ \A s \in CSigns : grants'[s] = IF s \in gone THEN Nil ELSE grants[s]
  BY <1>0, <1>1 DEF ConnectorTypes
<1>3. /\ remoteJson' \in [grants : [CSigns -> CGrants \cup {Nil}], password : 1 .. MaxHashes]
      /\ remoteJson'.grants = grants' /\ remoteJson'.password = remoteJson.password
  BY <1>0, <1>1, <1>2 DEF ConnectorTypes
<1>4. ConnectorTypes'
  BY <1>0, <1>1, <1>2, <1>3 DEF ConnectorTypes
<1>5. GrantsFollow(grants)'
  BY <1>0, <1>1, <1>2 DEF GrantsFollow
<1>6. GrantsFollow(remoteJson.grants)'
  BY <1>3, <1>5 DEF GrantsFollow
<1>7. \A s \in grantsEnded' : issued'[s] > 0
  BY <1>0, <1>1 DEF ConnectorsInv, GrantsFollow
<1>8. /\ \A s \in CSigns : (StagesFollow(s) /\ EarnedWithIt(s))'
      /\ ChecksFollow' /\ (~ passwordsCrossed => OneCheckAtATime)'
  BY <1>1 DEF ConnectorsInv, StagesFollow, EarnedWithIt, ChecksFollow, OneCheckAtATime
<1> QED
  BY <1>1, <1>3, <1>4, <1>5, <1>6, <1>7, <1>8 DEF ConnectorsInv

\* Pages, codes and the verifications that count are gone.
LEMMA PagesEnd ==
  ASSUME ConnectorsInv, consents' = Files!Connectors!None, codes' = Files!Connectors!None,
         UNCHANGED <<prompted, issued, signIns>>
  PROVE  /\ consents' \in [CSigns -> CPages \cup {Nil}] /\ \A s \in CSigns : consents'[s] = Nil
         /\ codes' \in [CSigns -> (1 .. MaxHashes) \cup {Nil}]
         /\ \A s \in CSigns : (StagesFollow(s) /\ EarnedWithIt(s))'
<1>1. /\ consents' \in [CSigns -> CPages \cup {Nil}]
      /\ codes' \in [CSigns -> (1 .. MaxHashes) \cup {Nil}]
      /\ \A s \in CSigns : consents'[s] = Nil /\ codes'[s] = Nil
  BY DEF Files!Connectors!None, Files!Connectors!SignIns, CSigns
<1>2. \A s \in CSigns : StagesFollow(s)
  BY DEF ConnectorsInv
<1>3. \A s \in CSigns : (StagesFollow(s) /\ EarnedWithIt(s))'
  BY <1>1, <1>2 DEF StagesFollow, EarnedWithIt
<1> QED
  BY <1>1, <1>3

\* SetPassword ends every page, code and grant.
LEMMA ConnectorsSetsPassword == ConnectorsInv /\ Files!Connectors!SetPassword => ConnectorsInv'
<1> SUFFICES ASSUME ConnectorsInv, Files!Connectors!SetPassword PROVE ConnectorsInv'
  OBVIOUS
<1> USE DEF Files!Connectors!client
<1>0. /\ ConnectorTypes /\ ChecksFollow /\ GrantsFollow(grants) /\ GrantsFollow(remoteJson.grants)
      /\ ~ passwordsCrossed => OneCheckAtATime
  BY DEF ConnectorsInv
<1>1. /\ remotePassword' = remotePassword + 1 /\ remotePassword < MaxHashes
      /\ bucketBusy' = FALSE /\ consents' = Files!Connectors!None /\ codes' = Files!Connectors!None
      /\ grants' = Files!Connectors!None
      /\ UNCHANGED <<checking, askedOf, holds, signIns, tokensIssued, prompted, issued, grantDoubt>>
  BY DEF Files!Connectors!SetPassword
<1>2. /\ remotePassword' \in 1 .. MaxHashes
      /\ grants' \in [CSigns -> CGrants \cup {Nil}] /\ \A s \in CSigns : grants'[s] = Nil
  BY <1>0, <1>1, ConnectorsAssumption
  DEF ConnectorTypes, Files!Connectors!None, Files!Connectors!SignIns, CSigns
<1>3. /\ grantsEnded' \subseteq CSigns
      /\ \A s \in CSigns : s \in grantsEnded' <=> s \in grantsEnded \/ grants[s] # Nil
  BY <1>0 DEF Files!Connectors!SetPassword, Files!Connectors!Live, Files!Connectors!SignIns, CSigns, ConnectorTypes
<1>4. /\ remoteJson' \in [grants : [CSigns -> CGrants \cup {Nil}], password : 1 .. MaxHashes]
      /\ remoteJson'.password = remotePassword'
      /\ \/ remoteJson'.grants = grants' /\ UNCHANGED lingering
         \/ remoteJson'.grants = grants /\ lingering' = TRUE
  <2>1. CASE remoteJson' = [grants |-> Files!Connectors!None, password |-> remotePassword'] /\ UNCHANGED lingering
    BY <1>1, <1>2, <2>1
  <2>2. CASE remoteJson' = [grants |-> grants, password |-> remotePassword'] /\ lingering' = TRUE
    BY <1>0, <1>2, <2>2 DEF ConnectorTypes
  <2> QED
    BY <2>1, <2>2 DEF Files!Connectors!SetPassword
<1>5. lingering' \in BOOLEAN
  BY <1>0, <1>4 DEF ConnectorTypes
<1>6. passwordsCrossed' \in BOOLEAN /\ (~ passwordsCrossed' => checking = {} /\ ~ passwordsCrossed)
  <2>1. passwordsCrossed' = (passwordsCrossed \/ checking # {})
    BY DEF Files!Connectors!SetPassword
  <2> QED
    BY <2>1
<1>7. /\ consents' \in [CSigns -> CPages \cup {Nil}] /\ \A s \in CSigns : consents'[s] = Nil
      /\ codes' \in [CSigns -> (1 .. MaxHashes) \cup {Nil}]
      /\ \A s \in CSigns : (StagesFollow(s) /\ EarnedWithIt(s))'
  BY <1>1, PagesEnd
<1>8. ConnectorTypes'
  BY <1>0, <1>1, <1>2, <1>3, <1>4, <1>5, <1>6, <1>7 DEF ConnectorTypes
<1>9. ChecksFollow'
  BY <1>0, <1>1, <1>7 DEF ChecksFollow, ConnectorTypes
<1>10. (~ passwordsCrossed => OneCheckAtATime)'
  BY <1>0, <1>1, <1>6 DEF OneCheckAtATime
<1>11. ASSUME NEW s \in CSigns
       PROVE  ~ (holds'[s] \in CTokens /\ s \notin grantDoubt' \cup grantsEnded')
  BY <1>0, <1>1, <1>3 DEF GrantsFollow
<1>12. GrantsFollow(grants)'
  BY <1>2, <1>11 DEF GrantsFollow
<1>13. GrantsFollow(remoteJson.grants)'
  <2>1. CASE remoteJson'.grants = grants'
    BY <1>12, <2>1 DEF GrantsFollow
  <2>2. CASE remoteJson'.grants = grants /\ lingering'
    <3> SUFFICES ASSUME NEW s \in CSigns
                 PROVE  grants[s] # Nil =>
                          /\ issued'[s] > 0 /\ grants[s].prev < grants[s].refresh
                          /\ grants[s].refresh <= tokensIssued'
      BY <1>11, <2>2 DEF GrantsFollow
    <3> QED
      BY <1>0, <1>1 DEF GrantsFollow
  <2> QED
    BY <1>4, <2>1, <2>2
<1>14. \A s \in grantsEnded' : issued'[s] > 0
  BY <1>0, <1>1, <1>3 DEF ConnectorsInv, GrantsFollow
<1> QED
  BY <1>4, <1>7, <1>8, <1>9, <1>10, <1>12, <1>13, <1>14 DEF ConnectorsInv

\* After a restart the grants are those on the disk.
LEMMA ConnectorsRestart == ConnectorsInv /\ Files!Connectors!Restart => ConnectorsInv'
<1> SUFFICES ASSUME ConnectorsInv, Files!Connectors!Restart PROVE ConnectorsInv'
  OBVIOUS
<1> USE DEF Files!Connectors!client, Files!Connectors!seen, Files!Connectors!excuses
<1>0. /\ ConnectorTypes /\ GrantsFollow(remoteJson.grants) /\ remoteJson.password = remotePassword
      /\ ~ passwordsCrossed => OneCheckAtATime
  BY DEF ConnectorsInv
<1>1. /\ checking' = {} /\ bucketBusy' = FALSE /\ askedOf' = {}
      /\ consents' = Files!Connectors!None /\ codes' = Files!Connectors!None
      /\ grants' = remoteJson.grants /\ remotePassword' = remotePassword
      /\ UNCHANGED <<remoteJson, holds, signIns, tokensIssued, prompted, issued, grantDoubt,
                     grantsEnded, lingering, passwordsCrossed>>
  BY <1>0 DEF Files!Connectors!Restart
<1>2. /\ consents' \in [CSigns -> CPages \cup {Nil}]
      /\ codes' \in [CSigns -> (1 .. MaxHashes) \cup {Nil}]
      /\ \A s \in CSigns : (StagesFollow(s) /\ EarnedWithIt(s))'
  BY <1>1, PagesEnd
<1>3. ConnectorTypes'
  BY <1>0, <1>1, <1>2 DEF ConnectorTypes
<1>4. GrantsFollow(remoteJson.grants)'
  BY <1>0, <1>1 DEF GrantsFollow
<1>5. GrantsFollow(grants)'
  BY <1>1, <1>4 DEF GrantsFollow
<1>6. ChecksFollow' /\ (~ passwordsCrossed => OneCheckAtATime)'
  BY <1>0, <1>1 DEF ChecksFollow, OneCheckAtATime
<1>7. \A s \in grantsEnded' : issued'[s] > 0
  BY <1>1 DEF ConnectorsInv
<1> QED
  BY <1>0, <1>1, <1>2, <1>3, <1>4, <1>5, <1>6, <1>7 DEF ConnectorsInv

\* No step of a connector, of the user or of the desktop breaks it.
LEMMA ConnectorsStep ==
  ConnectorsInv /\ [Files!Connectors!ConnectorNext]_(Files!connectorVars) => ConnectorsInv'
<1> SUFFICES ASSUME ConnectorsInv, [Files!Connectors!ConnectorNext]_(Files!connectorVars)
             PROVE  ConnectorsInv'
  OBVIOUS
<1>1. CASE UNCHANGED Files!connectorVars
  BY <1>1 DEF Files!connectorVars, ConnectorsInv, ConnectorTypes, StagesFollow, EarnedWithIt,
     ChecksFollow, OneCheckAtATime, GrantsFollow
<1>2. CASE Files!Connectors!ConnectorNext
  <2>1. Files!Connectors!SignIns = CSigns /\ Files!Connectors!Live(grants) \in SUBSET CSigns
    BY DEF Files!Connectors!SignIns, CSigns, Files!Connectors!Live
  <2>2. ASSUME NEW s \in CSigns, Files!Connectors!Revoke({s})
        PROVE  ConnectorsInv'
    <3>1. {s} \in SUBSET CSigns
      OBVIOUS
    <3> QED
      BY <2>2, <3>1, ConnectorsRevokes
  <2>3. CASE Files!Connectors!Revoke(Files!Connectors!Live(grants))
    BY <2>1, <2>3, ConnectorsRevokes
  <2> QED
    BY <1>2, <2>1, <2>2, <2>3, ConnectorsAuthorizes, ConnectorsSubmits, ConnectorsVerifies,
       ConnectorsPages, ConnectorsExchange, ConnectorsRefresh, ConnectorsSetsPassword,
       ConnectorsRestart DEF Files!Connectors!ConnectorNext
<1> QED
  BY <1>1, <1>2

-----------------------------------------------------------------------------
(****************************************************************************)
(* The files: one part at a time.                                           *)
(****************************************************************************)
\* The invariant of the part at work, the link's where it has one prefix.
KeptInv ==
  /\ kept = "snapshots" => SnapshotsInv
  /\ kept = "link" /\ OnePrefix => LinkInv
  /\ kept = "meta" => MetaInv
  /\ kept = "loader" => LoaderInv
  /\ kept = "mods" => ModsInv
  /\ kept = "connectors" => ConnectorsInv

\* The part at work is not set down for another, and it alone moves.
LEMMA OneFolderMoves ==
  ASSUME [Files!KeptNext]_(keptVars)
  PROVE  /\ kept' = kept
         /\ kept = "snapshots" => [Files!Snapshots!DHNext]_(Files!snapshotVars)
         /\ kept = "link" => [Files!Snapshots!LinkNext]_(Files!linkVars)
         /\ kept = "meta" => [Files!Meta!MetaNext]_(Files!metaVars)
         /\ kept = "loader" => [Files!Loader!UpdateNext]_(Files!loaderVars)
         /\ kept = "mods" => [Files!Mods!ModNext]_(Files!modVars)
         /\ kept = "connectors" => [Files!Connectors!ConnectorNext]_(Files!connectorVars)
<1>1. CASE Files!KeptNext
  BY <1>1 DEF Files!KeptNext, Files!SnapshotsStep, Files!LinkStep, Files!MetaStep, Files!LoaderStep,
     Files!ModsStep, Files!ConnectorsStep
<1>2. CASE UNCHANGED keptVars
  BY <1>2 DEF keptVars, Files!snapshotVars, Files!linkVars, Files!metaVars, Files!loaderVars, Files!modVars,
     Files!connectorVars
<1> QED
  BY <1>1, <1>2

\* Every part begins as its invariant says.
LEMMA KeptBegins == Files!KeptInit => KeptInv
BY SnapshotsStart, LinkStart, MetaStart, LoaderStart, ModsStart, ConnectorsStart DEF KeptInv, Files!KeptInit

\* A step is one of the part at work, whose invariant it keeps.
LEMMA KeptGoesOn == KeptInv /\ [Files!KeptNext]_(keptVars) => KeptInv'
<1> SUFFICES ASSUME KeptInv, [Files!KeptNext]_(keptVars) PROVE KeptInv'
  OBVIOUS
<1>1. ASSUME kept' = "snapshots" PROVE SnapshotsInv'
  BY <1>1, OneFolderMoves, SnapshotsStep DEF KeptInv
<1>2. ASSUME kept' = "link", OnePrefix PROVE LinkInv'
  BY <1>2, OneFolderMoves, LinkStep DEF KeptInv
<1>3. ASSUME kept' = "meta" PROVE MetaInv'
  BY <1>3, OneFolderMoves, MetaStep DEF KeptInv
<1>4. ASSUME kept' = "loader" PROVE LoaderInv'
  BY <1>4, OneFolderMoves, LoaderStep DEF KeptInv
<1>5. ASSUME kept' = "mods" PROVE ModsInv'
  BY <1>5, OneFolderMoves, ModsStep DEF KeptInv
<1>6. ASSUME kept' = "connectors" PROVE ConnectorsInv'
  BY <1>6, OneFolderMoves, ConnectorsStep DEF KeptInv
<1> QED
  BY <1>1, <1>2, <1>3, <1>4, <1>5, <1>6 DEF KeptInv

\* Each part's invariant holds what the part promises.
LEMMA KeptKeepsPromises ==
  ASSUME KeptInv, kept = "link" => OnePrefix
  PROVE  Files!KeptTypeOK /\ Files!KeptIsWhole
BY LinkPromise, MetaPromise, ModsPromise, ConnectorsPromise
DEF KeptInv, Files!KeptTypeOK, Files!KeptIsWhole, SnapshotsInv, LoaderInv

\* The files' parts begin and move with the whole.
LEMMA KeptInvariant == Spec => [](which = "kept" => KeptInv)
<1>1. Init => (which = "kept" => KeptInv)
  BY KeptBegins DEF Init
<1>2. (which = "kept" => KeptInv) /\ [Next]_vars => (which = "kept" => KeptInv)'
  <2> SUFFICES ASSUME which = "kept" => KeptInv, [Next]_vars, which' = "kept"
               PROVE  KeptInv'
    OBVIOUS
  <2>1. which = "kept" /\ [Files!KeptNext]_(keptVars)
    BY DEF Next, vars, ConsoleStep, SchedulesStep, PanelStep, ConfigsStep, WrittenStep, HistoryStep,
       ShellStep, KeptStep
  <2> QED
    BY <2>1, KeptGoesOn
<1> QED
  BY <1>1, <1>2, PTL DEF Spec

\* What is kept in folders and buckets stays whole, for any parts, archives,
\* launch files, names and builds and any number of snapshots, calls, updates and
\* sign-ins: a published snapshot has its parts (dhsnapshot_publish.go), an
\* archive keeps its name and flag (backup.go), an update is done or undone
\* (loader.go), the mods' rows and scans are true of the folder (modservice.go),
\* and no grant outlives its password (remote_grants.go).  So does the link they
\* are published under (dhsnapshot_move.go), where it has one prefix.
THEOREM KeptTheorem ==
  Spec => []((kept = "link" => OnePrefix) => ShellIsSound)
<1>1. (which = "kept" => KeptInv) /\ (which = "shell" => ShellInv)
        => ((kept = "link" => OnePrefix) => ShellIsSound)
  BY KeptKeepsPromises, ShellKeepsPromises DEF ShellIsSound
<1> QED
  BY <1>1, KeptInvariant, ShellInvariant, PTL

\* With one prefix, every part around the stores keeps its promises in every
\* state.
THEOREM PartsTheorem == OnePrefix => (Spec => []ShellIsSound)
<1> SUFFICES ASSUME OnePrefix
             PROVE  Spec => []ShellIsSound
  OBVIOUS
<1>1. ((kept = "link" => OnePrefix) => ShellIsSound) => ShellIsSound
  OBVIOUS
<1> QED
  BY <1>1, KeptTheorem, PTL
=============================================================================
