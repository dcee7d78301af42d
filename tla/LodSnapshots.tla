---------------------------- MODULE LodSnapshots ----------------------------
(* Distant Horizons snapshots in their folder and in a bucket, and the link  *)
(* they are published under (dhsnapshot_*.go).  Neither reads the other's    *)
(* state; each has its Init and Next.                                        *)
EXTENDS Naturals, FiniteSets

CONSTANTS
  Parts, Nil,
  MaxSnapshots,                        \* bound on the snapshots taken
  Keep,                                \* the publish block's `keep`
  Prefixes,
  MaxTokens,                           \* bound on the tokens made; 0 is the public layout
  MaxVersions                          \* bound on the snapshots published

VARIABLES
  staged, index,                       \* the staging folder: its parts, and of which snapshot
                                       \* its index.json is, or Nil
  taken,                               \* of each snapshot, the parts its index names
  up,                                  \* the parts in the bucket
  folders,                             \* of each snapshot, the objects in its folder
  latest,                              \* the snapshot latest.json points at, or Nil
  snapshot,                            \* the run that holds the server's claim, or Nil
  link,                                \* the destination's link file
  objects,                             \* of each base, its snapshots' objects
  pointer,                             \* of each base, the snapshot of its latest.json, or 0
  tokensMade,                          \* the tokens made so far
  published,                           \* the snapshots published so far
  publishing,                          \* the publishes under way, which hold the link
  change,                              \* the change of the link under way, or Nil
  tokensUsed,                          \* the tokens that have been the live one
  newest,                              \* of each prefix, the last snapshot published
  missed                               \* the bases that answer and no record names: of a prefix no
                                       \* move looked at, or of a switch to public not yet noted

(* One server's Distant Horizons snapshots and the bucket they are           *)
(* published to (dhsnapshot_run.go, _index.go, _publish.go, _prune.go).      *)
(* The database is the set of its parts, which are named by their hash, so a *)
(* part staged or sent twice is the same part.  A run (one at a time, see    *)
(* dhsnapshot_claim.go) fails, is cancelled or ends with the program at any  *)
(* step.  The levels, sizes, the warning and the private layout are left out *)
(* (the latter is the link's below), and nobody else writes to the bucket.     *)
Snapshots == 1 .. MaxSnapshots
Objects == {"database", "index", "page"}

Run ==
  [kind : {"checked", "copying", "clearing"}, prev : SUBSET Parts,
   bucket : BOOLEAN, database : SUBSET Parts, read : SUBSET Parts]
    \cup [kind : {"sending", "indexing", "paging", "pointing", "pruning"},
          send : SUBSET Parts]
    \cup [kind : {"deleting", "sweeping"}, old : SUBSET Snapshots, orphans : SUBSET Parts]

DHTypeOK ==
  /\ staged \subseteq Parts /\ index \in Snapshots \cup {Nil}
  /\ taken \in [Snapshots -> SUBSET Parts]
  /\ up \subseteq Parts /\ folders \in [Snapshots -> SUBSET Objects]
  /\ latest \in Snapshots \cup {Nil} /\ snapshot \in Run \cup {Nil}

DHInit ==
  /\ staged = {} /\ index = Nil /\ taken = [s \in Snapshots |-> {}]
  /\ up = {} /\ folders = [s \in Snapshots |-> {}] /\ latest = Nil /\ snapshot = Nil

local == <<staged, index, taken>>
bucket == <<up, folders, latest>>

Of(kind) == snapshot # Nil /\ snapshot.kind = kind
Becomes(kind) == snapshot' = [snapshot EXCEPT !.kind = kind]
PartsOf(taking) == IF taking = Nil THEN {} ELSE taken[taking]

\* What latest.json points at is read, index and all: one that is not there
\* refuses the run.
LatestReadable == latest # Nil => "index" \in folders[latest]

\* Without a bucket the staged index is the previous one.
Previous(withBucket) == PartsOf(IF withBucket THEN latest ELSE index)

\* The checks before the warning.
Preflight(withBucket) ==
  /\ snapshot = Nil /\ (withBucket => LatestReadable)
  /\ snapshot' = [kind |-> "checked", database |-> {}, read |-> {},
                  prev |-> Previous(withBucket),
                  bucket |-> withBucket /\ latest # Nil]
  /\ UNCHANGED <<local, bucket>>

\* After the warning the server is stopped, and its database is what it is until
\* the copy is over: the power gate is held.
Stopped ==
  /\ Of("checked")
  /\ \E database \in (SUBSET Parts) \ {{}} :
       snapshot' = [snapshot EXCEPT !.kind = "copying", !.database = database]
  /\ UNCHANGED <<local, bucket>>

\* indexDHDatabase reads the next part, and stages one the previous index lacks.
CopyPart(part) ==
  /\ Of("copying") /\ part \in snapshot.database \ snapshot.read
  /\ snapshot' = [snapshot EXCEPT !.read = @ \cup {part}]
  /\ staged' = IF part \in snapshot.prev THEN staged ELSE staged \cup {part}
  /\ UNCHANGED <<index, taken, bucket>>

\* The index is written last.
WriteIndex ==
  /\ Of("copying") /\ snapshot.read = snapshot.database
  /\ \E s \in Snapshots :
       /\ taken[s] = {} /\ \A t \in Snapshots : t < s => taken[t] # {}
       /\ taken' = [taken EXCEPT ![s] = snapshot.database] /\ index' = s
  /\ Becomes("clearing")
  /\ UNCHANGED <<staged, bucket>>

\* pruneStagedParts keeps what the new index names and the bucket's lacks; a
\* file that cannot be removed stays.
Unneeded == staged \ (PartsOf(index) \ (IF snapshot.bucket THEN snapshot.prev ELSE {}))

PruneStaging ==
  /\ Of("clearing") /\ snapshot' = Nil
  /\ \E removed \in SUBSET Unneeded : staged' = staged \ removed
  /\ UNCHANGED <<index, taken, bucket>>

\* readStagedSnapshot, readLatestIndex and planParts: a part is sent unless the
\* previous index names it or it is listed, and one that is nowhere refuses the
\* run.  A listing that fails offers each part again.
ToSend(listed) == (PartsOf(index) \cap staged) \ (PartsOf(latest) \cup listed)

PlanParts ==
  /\ snapshot = Nil /\ index # Nil /\ LatestReadable
  /\ PartsOf(index) \subseteq staged \cup up \cup PartsOf(latest)
  /\ \E listed \in {up, {}} : snapshot' = [kind |-> "sending", send |-> ToSend(listed)]
  /\ UNCHANGED <<local, bucket>>

SendPart(part) ==
  /\ Of("sending") /\ part \in snapshot.send /\ up' = up \cup {part}
  /\ snapshot' = [snapshot EXCEPT !.send = @ \ {part}]
  /\ UNCHANGED <<local, folders, latest>>

\* assembleLevels builds the file from the parts, each of which must be up, or
\* from the file of a previous snapshot that did not change.
AssembleLevels ==
  /\ Of("sending") /\ snapshot.send = {}
  /\ \/ PartsOf(index) \subseteq up
     \/ /\ latest # Nil /\ PartsOf(latest) = PartsOf(index)
        /\ "database" \in folders[latest]
  /\ folders' = [folders EXCEPT ![index] = @ \cup {"database"}] /\ Becomes("indexing")
  /\ UNCHANGED <<local, up, latest>>

PutIndex ==
  /\ Of("indexing") /\ folders' = [folders EXCEPT ![index] = @ \cup {"index"}]
  /\ Becomes("paging") /\ UNCHANGED <<local, up, latest>>

PutPage ==
  /\ Of("paging") /\ folders' = [folders EXCEPT ![index] = @ \cup {"page"}]
  /\ Becomes("pointing") /\ UNCHANGED <<local, up, latest>>

WriteLatest ==
  /\ Of("pointing") /\ latest' = index
  /\ Becomes("pruning") /\ UNCHANGED <<local, up, folders>>

\* pruneDHSnapshots: everything is read before anything is deleted.
Complete == {s \in Snapshots : "index" \in folders[s]}
KeptStamps ==
  {s \in Complete : Cardinality({t \in Complete : t > s}) < Keep} \cup {latest}
KeptParts == UNION {taken[s] : s \in KeptStamps}
OldFolders ==
  {s \in Snapshots \ KeptStamps : folders[s] # {} /\
     (s \in Complete \/ \A k \in KeptStamps : s < k)}

PlanPrune ==
  /\ Of("pruning") /\ LatestReadable
  /\ snapshot' = [kind |-> "deleting", old |-> OldFolders, orphans |-> up \ KeptParts]
  /\ UNCHANGED <<local, bucket>>

\* A delete of many keys that fails has deleted some of them.
DeleteFolders ==
  /\ Of("deleting")
  /\ \/ /\ folders' = [s \in Snapshots |-> IF s \in snapshot.old THEN {} ELSE folders[s]]
        /\ Becomes("sweeping")
     \/ /\ folders' \in {left \in [Snapshots -> SUBSET Objects] :
                         \A s \in Snapshots : left[s] \subseteq folders[s] /\
                           (s \notin snapshot.old => left[s] = folders[s])}
        /\ snapshot' = Nil
  /\ UNCHANGED <<local, up, latest>>

DeleteParts ==
  /\ Of("sweeping") /\ snapshot' = Nil
  /\ \E gone \in SUBSET snapshot.orphans : up' = up \ gone
  /\ UNCHANGED <<local, folders, latest>>

\* An error, a cancellation, the time limit or the end of the program.
CutOff ==
  /\ snapshot # Nil /\ snapshot' = Nil
  /\ UNCHANGED <<local, bucket>>

DHNext ==
  \/ Stopped \/ WriteIndex \/ PruneStaging
  \/ \E withBucket \in BOOLEAN : Preflight(withBucket)
  \/ \E part \in Parts : CopyPart(part) \/ SendPart(part)
  \/ PlanParts \/ AssembleLevels \/ PutIndex \/ PutPage \/ WriteLatest
  \/ PlanPrune \/ DeleteFolders \/ DeleteParts \/ CutOff

\* "latest.json is the last object written, so a reader that finds it finds an
\* index whose parts, assembled files and page are all already there"
\* (dhsnapshot_publish.go:22), prunes and cut-off runs included.
LatestIsWhole ==
  latest # Nil => folders[latest] = Objects /\ PartsOf(latest) \subseteq up

\* An index in the bucket names only parts that are there.
IndexHasItsParts == \A s \in Complete : taken[s] \subseteq up

\* A staged index can be published whatever was cut off: what it names is staged
\* or up.
StagedIsPublishable == PartsOf(index) \subseteq staged \cup up

SnapshotsAreWhole == LatestIsWhole /\ IndexHasItsParts /\ StagedIsPublishable

-----------------------------------------------------------------------------
(* The link a destination's snapshots are published under                    *)
(* (dhsnapshot_link.go, dhsnapshot_move.go): switching it between public and *)
(* private and rotating it move the latest snapshot from one base (a prefix  *)
(* and a token) to another, beside publishes that hold it still.  Any write  *)
(* fails and the program ends at any step.  What a publish writes, and in    *)
(* what order, is DHSnapshots'.                                              *)
Tokens == 0 .. MaxTokens
Bases == Prefixes \X Tokens
Versions == 1 .. MaxVersions
LinkObjects == {"page", "index", "database"}
Stages == {"page", "index", "database", "pointer", "commit", "drop"}

LinkTypeOK ==
  /\ link \in [token : Tokens, pending : Tokens, prefix : Prefixes \cup {Nil},
               stale : SUBSET Bases]
  /\ objects \in [Bases -> SUBSET (Versions \X LinkObjects)]
  /\ pointer \in [Bases -> Versions \cup {0}]
  /\ tokensMade \in Tokens /\ published \in Versions \cup {0}
  /\ publishing \subseteq [prefix : Prefixes, wrote : BOOLEAN]
  /\ change \in [stage : Stages, to : Tokens, moved : BOOLEAN,
                 left : SUBSET Bases, kept : SUBSET Bases] \cup {Nil}
  /\ tokensUsed \subseteq Tokens /\ missed \subseteq Bases
  /\ newest \in [Prefixes -> Versions \cup {0}]

LinkInit ==
  /\ link = [token |-> 0, pending |-> 0, prefix |-> Nil, stale |-> {}]
  /\ objects = [b \in Bases |-> {}] /\ pointer = [b \in Bases |-> 0]
  /\ tokensMade = 0 /\ published = 0 /\ publishing = {} /\ change = Nil
  /\ tokensUsed = {0} /\ newest = [p \in Prefixes |-> 0] /\ missed = {}

tokens == <<tokensMade, tokensUsed, missed>>
snapshots == <<published, newest>>
linkBucket == <<objects, pointer>>

\* HoldLink: a publish waits for no change, it is refused.
PublishBegins(prefix) ==
  /\ change = Nil /\ \A p \in publishing : p.prefix # prefix
  /\ publishing' = publishing \cup {[prefix |-> prefix, wrote |-> FALSE]}
  /\ UNCHANGED <<link, linkBucket, tokens, snapshots, change>>

\* The token cannot change while the link is held.
PublishWrites(p) ==
  LET base == <<p.prefix, link.token>>
      version == published + 1
  IN
    /\ ~p.wrote /\ published < MaxVersions /\ published' = version
    /\ objects' = [objects EXCEPT ![base] = @ \cup ({version} \X LinkObjects)]
    /\ pointer' = [pointer EXCEPT ![base] = version]
    /\ newest' = [newest EXCEPT ![p.prefix] = version]
    /\ publishing' = (publishing \ {p}) \cup {[p EXCEPT !.wrote = TRUE]}
    /\ UNCHANGED <<link, tokens, change>>

\* The run is over: RecordLinkPrefix after what was written, unless that fails.
PublishEnds(p) ==
  /\ publishing' = publishing \ {p}
  /\ \/ p.wrote /\ link' = [link EXCEPT !.prefix = p.prefix]
     \/ UNCHANGED link
  /\ UNCHANGED <<linkBucket, tokens, snapshots, change>>

Live == <<link.prefix, link.token>>
Target == <<link.prefix, change.to>>

\* Where change() starts: with the move, when something was published.
FirstStage == IF link.prefix # Nil /\ pointer[Live] # 0 THEN "page" ELSE "commit"
Starts(stage, to) ==
  change' = [stage |-> stage, to |-> to, moved |-> FALSE, kept |-> {},
             left |-> IF stage = "drop" THEN link.stale ELSE {}]

\* pendingToken: the token an unfinished move left, else a new one, which is
\* recorded first.
ToPrivate ==
  \/ /\ link.pending \notin {0, link.token} /\ Starts(FirstStage, link.pending)
     /\ UNCHANGED <<link, tokensMade>>
  \/ /\ link.pending \in {0, link.token} /\ tokensMade < MaxTokens
     /\ tokensMade' = tokensMade + 1 /\ link' = [link EXCEPT !.pending = tokensMade + 1]
     /\ Starts(FirstStage, tokensMade + 1)

\* SetSnapshotLinkPrivate and RotateSnapshotLink, when nobody holds the link.
Asked ==
  /\ change = Nil /\ publishing = {}
  /\ \/ ToPrivate
     \/ /\ Starts(IF link.token = 0 THEN "drop" ELSE FirstStage, 0)
        /\ UNCHANGED <<link, tokensMade>>
     \/ link.token # 0 /\ Starts("drop", link.token) /\ UNCHANGED <<link, tokensMade>>
  /\ UNCHANGED <<linkBucket, tokensUsed, missed, snapshots, publishing>>

At(stage) == change # Nil /\ change.stage = stage
Then(stage) == change' = [change EXCEPT !.stage = stage]
Puts(kind) == objects' = [objects EXCEPT ![Target] = @ \cup {<<pointer[Live], kind>>}]

\* moveDHSnapshotLink, an object at a time; the databases can always be built
\* from the parts, which do not move.
MoveObject ==
  /\ \/ /\ At("page") /\ <<pointer[Live], "page">> \in objects[Live]
        /\ Puts("page") /\ Then("index")
     \/ At("index") /\ Puts("index") /\ Then("database")
     \/ At("database") /\ Puts("database") /\ Then("pointer")
  /\ UNCHANGED <<link, pointer, tokens, snapshots, publishing>>

MovePointer ==
  /\ At("pointer") /\ pointer' = [pointer EXCEPT ![Target] = pointer[Live]]
  /\ change' = [change EXCEPT !.stage = "commit", !.moved = TRUE]
  /\ missed' = missed \cup IF change.to \in tokensUsed THEN {Target} ELSE {}
  /\ UNCHANGED <<link, objects, tokensMade, tokensUsed, snapshots, publishing>>

\* finish: the new token and the old base's removal are noted in one write.
StaleAfter ==
  (link.stale \cup IF change.moved THEN {Live} ELSE {}) \ {Target}

Commit ==
  /\ At("commit")
  /\ link' = [link EXCEPT !.token = change.to, !.pending = 0, !.stale = StaleAfter]
  /\ tokensUsed' = tokensUsed \cup {change.to}
  /\ missed' = (missed \ {Target})
                 \cup {b \in Bases : b[2] = link.token /\ b # Live /\ pointer[b] # 0}
  /\ change' = [change EXCEPT !.stage = "drop", !.left = StaleAfter]
  /\ UNCHANGED <<linkBucket, tokensMade, snapshots, publishing>>

\* dropDHBase: the pointer, which is what ends the link, then the rest; a delete
\* that fails has deleted some of it: to keep the model small, nothing or all
\* but one.
Emptied(base) ==
  \/ UNCHANGED <<pointer, objects>> /\ change'.kept = change.kept \cup {base}
  \/ /\ pointer' = [pointer EXCEPT ![base] = 0]
     /\ \E rest \in {{}, objects[base]} \cup {{o} : o \in objects[base]} :
          /\ objects' = [objects EXCEPT ![base] = rest]
          /\ change'.kept = change.kept \cup (IF rest = {} THEN {} ELSE {base})

DropBase(base) ==
  /\ At("drop") /\ base \in change.left
  /\ \E kept \in {change.kept, change.kept \cup {base}} :
       change' = [change EXCEPT !.left = @ \ {base}, !.kept = kept]
  /\ IF base = Live
     THEN change'.kept = change.kept /\ UNCHANGED linkBucket
     ELSE Emptied(base)
  /\ UNCHANGED <<link, tokens, snapshots, publishing>>

\* What could not be deleted stays on record, as does all when this write fails.
Dropped ==
  /\ At("drop") /\ change.left = {} /\ change' = Nil
  /\ link' = [link EXCEPT !.stale = change.kept]
  /\ UNCHANGED <<linkBucket, tokens, snapshots, publishing>>

\* A step that fails ends the change: "the link is unchanged".
Fails ==
  /\ change # Nil /\ change' = Nil
  /\ UNCHANGED <<link, linkBucket, tokens, snapshots, publishing>>

ProgramEnds ==
  /\ change' = Nil /\ publishing' = {}
  /\ UNCHANGED <<link, linkBucket, tokens, snapshots>>

LinkNext ==
  \/ \E prefix \in Prefixes : PublishBegins(prefix)
  \/ \E p \in publishing : PublishWrites(p) \/ PublishEnds(p)
  \/ \E base \in Bases : DropBase(base)
  \/ Asked \/ MoveObject \/ MovePointer \/ Commit \/ Dropped \/ Fails \/ ProgramEnds

\* "the new link never shows a snapshot whose files are missing"
\* (dhsnapshot_move.go:24), nor does an old one.
LinksAreWhole ==
  \A b \in Bases : pointer[b] # 0 => {pointer[b]} \X LinkObjects \subseteq objects[b]

\* "a run cut off anywhere leaves a link that works" (dhsnapshot_move.go:26): the
\* live link shows the last snapshot published, and is not about to be deleted.
LiveLinkWorks ==
  link.prefix # Nil =>
    /\ pointer[Live] = newest[link.prefix] /\ newest[link.prefix] # 0
    /\ Live \notin link.stale

\* A link that was once handed out and still answers is the live one, or is noted
\* to be deleted, unless it was missed.
OldLinksAreNoted ==
  \A b \in Bases :
    pointer[b] # 0 /\ b[2] \in tokensUsed \ {link.token} => b \in link.stale \cup missed

LinkMovesSafely == LinksAreWhole /\ LiveLinkWorks /\ OldLinksAreNoted

\* "everyone holding the old link loses it" (dhsnapshot_link.go, RotateSnapshotLink).
\* Known not to hold: only the prefix of the last publish that was noted moves,
\* and a switch to public cut off after its pointer leaves the public address.
OldLinksDie == missed = {}

\* "instead of leaving a second copy of the snapshot under a third token"
\* (dhsnapshot_link.go, dhLinkRecord.Pending).  Known not to hold: a switch to
\* public forgets the token that an unfinished rotation left, and one cut off
\* has no pending token to be found by.
NoSecondCopy ==
  \A b \in Bases :
    objects[b] # {} =>
      b \in link.stale \cup missed \/ b[2] \in {link.token, link.pending}
=============================================================================
