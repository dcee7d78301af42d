----------------------------- MODULE SelfUpdate -----------------------------
(* An update of Konnekt by itself: the About pane's check and its two-step  *)
(* snapshot confirmation, the install, which resolves the release anew,     *)
(* fetches its checksums, asks for their provenance, downloads and swaps    *)
(* the executable, and the relaunch under the single-instance lock, while   *)
(* releases are cut and the rolling snapshot is deleted and recreated.      *)
EXTENDS Naturals

CONSTANTS Nil,
          Builds,        \* versions, in their order
          Snapshots,     \* those of the snapshot channel
          Old,           \* those that may be running
          MaxInstalls

VARIABLES
  latest,      \* the newest stable release
  rolling,     \* the build under the tag "snapshot": Nil while it is recreated
  attested,    \* the builds whose digest carries the release workflow's provenance
  channel,     \* the channel setting
  about,       \* the About pane
  installs,    \* each call of DownloadAndInstallUpdate
  spare,       \* the file the next executable is written to, if there is one
  exe,         \* the build at the executable's path; Nil is half of one
  running,     \* the build of the first process
  first,       \* the process that updates
  second,      \* the process it starts
  moved,       \* since the check something was published or set, or it was half answered
  unasked      \* an install took a snapshot nobody confirmed, and nothing had moved

updateVars == <<latest, rolling, attested, channel, about, installs, spare, exe,
                running, first, second, moved, unasked>>

Calls == 1 .. MaxInstalls
None == [build |-> Nil, floats |-> FALSE]
Releases == [build : Builds, floats : BOOLEAN] \cup {None}
Unused == [at |-> "unused", rel |-> None, sum |-> Nil]
Over == [Unused EXCEPT !.at = "over"]
Blank == [status |-> "idle", info |-> None, agreed |-> Nil]
Closed == [Blank EXCEPT !.status = "closed"]

SelfTypeOK ==
  /\ latest \in Builds \cup {Nil} /\ rolling \in Builds \cup {Nil}
  /\ attested \subseteq Builds /\ channel \in {"stable", "snapshot"}
  /\ about \in [status : {"closed", "idle", "checking", "available", "upToDate", "error",
                          "downloading", "installFailed"},
                info : Releases, agreed : Builds \cup {Nil}]
  /\ installs \in [Calls -> [at : {"unused", "resolving", "resolved", "proved",
                                   "downloaded", "writing", "written", "applied", "over"},
                             rel : Releases, sum : Builds \cup {Nil}]]
  /\ spare \in {<<>>} \cup {<<b>> : b \in Builds \cup {Nil}} /\ exe \in Builds \cup {Nil}
  /\ running \in Builds /\ first \in {"open", "closing", "gone"}
  /\ second \in {"none", "starting", "up", "refused"}
  /\ moved \in BOOLEAN /\ unasked \in BOOLEAN

SelfInit ==
  /\ latest = Nil /\ rolling = Nil /\ attested = {}
  /\ channel \in {"stable", "snapshot"}
  /\ about = Closed /\ installs = [i \in Calls |-> Unused]
  /\ running \in Old /\ exe = running /\ spare = <<>>
  /\ first = "open" /\ second = "none"
  /\ moved = FALSE /\ unasked = FALSE

-----------------------------------------------------------------------------
(* What GitHub holds.                                                       *)

\* A bound: releases and checks stand still once the last call is made.
Watched == first = "open" /\ installs[MaxInstalls] = Unused

Offered == about.status = "available" \/ \E i \in Calls : installs[i].at = "resolving"

\* A release is cut: by the workflow, which attests it first, or by hand.
CutRelease ==
  /\ Watched
  /\ \E b \in Builds \ Snapshots, signed \in BOOLEAN :
       /\ latest \in {Nil} \cup 1 .. b - 1
       /\ latest' = b
       /\ attested' = IF signed THEN attested \cup {b} ELSE attested
  /\ moved' = Offered
  /\ UNCHANGED <<rolling, channel, about, installs, spare, exe, running, first, second,
                 unasked>>

\* The nightly deletes the snapshot's release and its tag, then creates them again
\* with a newer build under the same addresses.
DropSnapshot ==
  /\ Watched /\ rolling # Nil /\ rolling' = Nil
  /\ UNCHANGED <<latest, attested, channel, about, installs, spare, exe, running, first,
                 second, moved, unasked>>

CreateSnapshot ==
  /\ Watched /\ rolling = Nil
  /\ \E b \in Snapshots :
       /\ b > running /\ \A old \in attested \cap Snapshots : b > old
       /\ rolling' = b /\ attested' = attested \cup {b}
  /\ moved' = Offered
  /\ UNCHANGED <<latest, channel, about, installs, spare, exe, running, first, second,
                 unasked>>

\* Settings > Updates, which opts in or out of the snapshots.
SetChannel ==
  /\ first = "open" /\ about = Closed /\ channel = "stable" /\ channel' = "snapshot" /\ moved' = Offered
  /\ UNCHANGED <<latest, rolling, attested, about, installs, spare, exe, running, first,
                 second, unasked>>

-----------------------------------------------------------------------------
(* What is offered.                                                         *)

\* compareVersions: builds are numbered in its order.
Newer(build) == build > running

EffectiveChannel == IF running \in Snapshots THEN "snapshot" ELSE channel

Consulted == IF EffectiveChannel = "snapshot" THEN {"stable", "snapshot"} ELSE {"stable"}

\* fetchCandidate: what an endpoint that answers has to offer.
Published(endpoint) ==
  LET build == IF endpoint = "stable" THEN latest ELSE rolling
  IN IF build = Nil THEN {} ELSE {[build |-> build, floats |-> endpoint = "snapshot"]}

\* resolveCandidate: the higher of what the endpoints that answer hold.
Candidates(answering) ==
  LET seen == UNION {Published(e) : e \in answering}
  IN {c \in seen : \A d \in seen : c.build >= d.build}

\* CheckForUpdates: it fails only when it found nothing and an endpoint failed.
Offer(answering) == {c \in Candidates(answering) : Newer(c.build)}
CheckFails(answering) == Candidates(answering) = {} /\ answering # Consulted

-----------------------------------------------------------------------------
(* The About pane.                                                          *)

OpenPane ==
  /\ Watched /\ about = Closed /\ about' = Blank
  /\ UNCHANGED <<latest, rolling, attested, channel, installs, spare, exe, running, first,
                 second, moved, unasked>>

\* Closing Settings forgets the pane and leaves the install to itself.
ClosePane ==
  /\ first = "open" /\ about # Closed /\ about' = Closed
  /\ UNCHANGED <<latest, rolling, attested, channel, installs, spare, exe, running, first,
                 second, moved, unasked>>

\* A check takes back what was confirmed for the release shown before.
Checking == [Blank EXCEPT !.status = "checking"]

RunCheck ==
  /\ Watched /\ about.status \notin {"closed", "checking", "downloading"}
  /\ about' = Checking
  /\ UNCHANGED <<latest, rolling, attested, channel, installs, spare, exe, running, first,
                 second, moved, unasked>>

CheckAnswered ==
  /\ first = "open" /\ about.status = "checking"
  /\ \E answering \in SUBSET Consulted :
       /\ moved' = \/ answering # Consulted
                   \/ moved /\ \E i \in Calls : installs[i].at = "resolving"
       /\ IF CheckFails(answering) THEN about' = [about EXCEPT !.status = "error"]
          ELSE IF Offer(answering) = {} THEN about' = [about EXCEPT !.status = "upToDate"]
          ELSE \E c \in Offer(answering) :
                 about' = [about EXCEPT !.status = "available", !.info = c]
  /\ UNCHANGED <<latest, rolling, attested, channel, installs, spare, exe, running, first,
                 second, unasked>>

\* "Install snapshot...", the first of two clicks, and Cancel.
Confirm ==
  /\ first = "open" /\ about.status = "available" /\ about.info.floats
  /\ about' = [about EXCEPT !.agreed = IF @ = Nil THEN about.info.build ELSE Nil]
  /\ UNCHANGED <<latest, rolling, attested, channel, installs, spare, exe, running, first,
                 second, moved, unasked>>

MayInstall == about.status = "available" /\ (about.info.floats => about.agreed # Nil)

\* A second call is of interest beside the first: alone it is as the first was.
RunInstall(i) ==
  /\ first = "open" /\ MayInstall
  /\ installs[i] = Unused /\ \A j \in 1 .. i - 1 : installs[j] \notin {Unused, Over}
  /\ about' = [about EXCEPT !.status = "downloading"]
  /\ installs' = [installs EXCEPT ![i] = [@ EXCEPT !.at = "resolving", !.rel = about.info]]
  /\ UNCHANGED <<latest, rolling, attested, channel, spare, exe, running, first, second,
                 moved, unasked>>

-----------------------------------------------------------------------------
(* DownloadAndInstallUpdate.                                                *)

Alive == first # "gone"

\* The pane waits for the call it made, the last one.
Awaited(i) == about.status = "downloading" /\ \A j \in Calls : j > i => installs[j] = Unused

\* A pane that still waits for this call learns that it failed; one closed and
\* opened again does not.
FailInstall(i) ==
  /\ Alive /\ installs[i].at \in {"resolving", "resolved", "proved", "downloaded",
                                  "written"}
  /\ installs' = [installs EXCEPT ![i] = Over]
  /\ about' = IF Awaited(i) THEN [about EXCEPT !.status = "installFailed"] ELSE about
  /\ UNCHANGED <<latest, rolling, attested, channel, spare, exe, running, first, second,
                 moved, unasked>>

\* It checks again instead of trusting what the pane was shown.
Resolve(i) ==
  /\ Alive /\ installs[i].at = "resolving"
  /\ \E answering \in SUBSET Consulted : \E c \in Offer(answering) :
       /\ installs' = [installs EXCEPT ![i] = [@ EXCEPT !.at = "resolved", !.rel = c]]
       /\ unasked' = \/ unasked
                     \/ c.floats /\ ~installs[i].rel.floats /\ ~moved /\ answering = Consulted
  /\ UNCHANGED <<latest, rolling, attested, channel, about, spare, exe, running, first,
                 second, moved>>

\* A stable release keeps its addresses; the snapshot's now name its newest build.
Served(rel) == IF rel.floats THEN rolling ELSE rel.build

\* A bug: any digest that checksums.txt lists is good enough.
ProvenIfListed(sum) == sum # Nil

\* The digest must carry the provenance of a release workflow.
Proven(sum) == sum \in attested

FetchChecksums(i) ==
  /\ Alive /\ installs[i].at = "resolved"
  /\ Served(installs[i].rel) # Nil /\ Proven(Served(installs[i].rel))
  /\ installs' = [installs EXCEPT ![i].at = "proved", ![i].sum = Served(installs[i].rel)]
  /\ UNCHANGED <<latest, rolling, attested, channel, about, spare, exe, running, first,
                 second, moved, unasked>>

\* What arrives, cut short (Nil) or not, is held to the digest.
Matches(build, sum) == build = sum

Download(i) ==
  /\ Alive /\ installs[i].at = "proved" /\ Served(installs[i].rel) # Nil
  /\ \E got \in {Served(installs[i].rel), Nil} :
       /\ Matches(got, installs[i].sum)
       /\ installs' = [installs EXCEPT ![i] = [at |-> "downloaded", rel |-> None, sum |-> got]]
  /\ UNCHANGED <<latest, rolling, attested, channel, about, spare, exe, running, first,
                 second, moved, unasked>>

\* selfupdate.Apply: the bytes go to a file beside the executable, ...
BeginWrite(i) ==
  /\ Alive /\ installs[i].at = "downloaded"
  /\ spare' = <<Nil>> /\ installs' = [installs EXCEPT ![i].at = "writing"]
  /\ UNCHANGED <<latest, rolling, attested, channel, about, exe, running, first, second,
                 moved, unasked>>

\* ... wherever that file was moved meanwhile, ...
EndWrite(i) ==
  /\ Alive /\ installs[i].at = "writing"
  /\ IF spare = <<>> THEN exe' = installs[i].sum /\ UNCHANGED spare
     ELSE spare' = <<installs[i].sum>> /\ UNCHANGED exe
  /\ installs' = [installs EXCEPT ![i].at = "written"]
  /\ UNCHANGED <<latest, rolling, attested, channel, about, running, first, second, moved,
                 unasked>>

\* ... and the file takes the executable's place, or the old one is put back.
Swap(i) ==
  /\ Alive /\ installs[i].at = "written" /\ spare # <<>>
  /\ exe' = spare[1] /\ spare' = <<>>
  /\ installs' = [installs EXCEPT ![i].at = "applied"]
  /\ UNCHANGED <<latest, rolling, attested, channel, about, running, first, second, moved,
                 unasked>>

-----------------------------------------------------------------------------
(* The relaunch.                                                            *)

\* Half a second after an install the executable is started and the app quits.
Relaunch(i) ==
  /\ Alive /\ installs[i].at = "applied"
  /\ installs' = [installs EXCEPT ![i] = Over]
  /\ second' = IF second = "up" THEN second ELSE "starting"
  /\ first' = "closing" /\ about' = Closed
  /\ UNCHANGED <<latest, rolling, attested, channel, spare, exe, running, moved,
                 unasked>>

\* beforeClose is through and the process ends, whatever it was doing.
FirstEnds ==
  /\ first = "closing" /\ first' = "gone"
  /\ UNCHANGED <<latest, rolling, attested, channel, about, installs, spare, exe, running, second,
                 moved, unasked>>

\* The single-instance lock: a launch beside a Konnekt raises its window and ends.
MayRun == first = "gone"

SecondStarts ==
  /\ second = "starting"
  /\ second' = IF MayRun /\ exe # Nil THEN "up" ELSE "refused"
  /\ UNCHANGED <<latest, rolling, attested, channel, about, installs, spare, exe, running,
                 first, moved, unasked>>

SelfNext ==
  \/ CutRelease \/ DropSnapshot \/ CreateSnapshot \/ SetChannel
  \/ OpenPane \/ ClosePane \/ RunCheck \/ CheckAnswered \/ Confirm
  \/ FirstEnds \/ SecondStarts
  \/ \E i \in Calls :
       \/ RunInstall(i) \/ FailInstall(i) \/ Resolve(i) \/ FetchChecksums(i)
       \/ Download(i) \/ BeginWrite(i) \/ EndWrite(i) \/ Swap(i)
       \/ Relaunch(i)

-----------------------------------------------------------------------------
(* An executable that was replaced is an attested, newer release and whole,  *)
(* unless Settings was closed and a second install was asked for             *)
(* (update.go:563-605, update_provenance.go:196-202).                        *)
ReplacedByRelease ==
  \/ exe = running
  \/ exe = Nil /\ \E i, j \in Calls : i # j /\ installs[i] # Unused /\ installs[j] # Unused
  \/ exe \in attested /\ Newer(exe)

(* Who never opted into snapshots never gets one (update.go:391-400).        *)
OptingOutIsReal ==
  exe \in Snapshots /\ exe # running => EffectiveChannel = "snapshot"

(* The second click on a snapshot is for the one that is shown, and a        *)
(* snapshot nobody confirmed is installed only when something was published  *)
(* or set since the check, or one of the two was half answered               *)
(* (SettingsModal.tsx:950-953, 1058-1061).                                   *)
SnapshotIsConfirmed ==
  /\ about.agreed # Nil => about.agreed = about.info.build
  /\ ~unasked

(* Never two Konnekts over one data folder, the restart of an update         *)
(* included (singleinstance.go:12-20).                                       *)
OneKonnekt == second = "up" => first = "gone"

UpdateIsSound ==
  /\ ReplacedByRelease /\ OptingOutIsReal /\ SnapshotIsConfirmed /\ OneKonnekt
=============================================================================
