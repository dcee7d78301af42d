---------------------------- MODULE BackupSaves ----------------------------
(***************************************************************************)
(* World copies against a server that may be up (backend/services/         *)
(* backup.go, worlds.go, server.go): CreateBackup and CreateWorldBackup    *)
(* under BackupService's per-server claim, DuplicateWorld without it, and  *)
(* RestoreBackup.  A copy of a running server turns its autosave off,      *)
(* flushes, copies, and turns it on again, over RCON or over the console,  *)
(* while the server crashes, is stopped and is started as it pleases.      *)
(***************************************************************************)
EXTENDS Naturals, Sequences

CONSTANTS
  Backups,     \* calls of CreateBackup or CreateWorldBackup
  Duplicates,  \* calls of DuplicateWorld
  Restores,    \* calls of RestoreBackup
  Nil,         \* no claim
  MaxBoots     \* bound: boots of the server in a behaviour

Ops == Backups \cup Duplicates \cup Restores
Copies == Backups \cup Duplicates
Claimers == Backups \cup Restores

ASSUME BackupAssumption ==
  /\ Nil \notin Ops
  /\ Backups \cap Duplicates = {} /\ Restores \cap Copies = {}
  /\ MaxBoots \in Nat

VARIABLES
  busy,      \* the holder of the server's claim, or Nil
  server,    \* "down", "up", or "stopping": running with its stdin closed
  boot,      \* boots so far
  autosave,  \* does the server save chunks on its own?
  console,   \* save commands written to stdin and not yet carried out
  pc,        \* pc[o]: where operation o is
  paused,    \* paused[o]: PrepareForBackup found the server running
  onBoot,    \* onBoot[o]: the boot it found
  viaStdin,  \* viaStdin[o]: did the console carry one of its commands?
  met        \* observer: operations that overlap a duplication, or one that does

serverVars == <<server, boot, autosave, console>>
opVars == <<pc, paused, onBoot, viaStdin>>
vars == <<busy, serverVars, opVars, met>>

Commands == {"save-off", "save-on", "save-all flush"}

Phases == {"idle", "prepare", "saveoff", "flush", "settle", "undo", "copy",
           "resume", "saveon", "claim", "swap", "release"}

TypeOK ==
  /\ busy \in Claimers \cup {Nil}
  /\ server \in {"down", "up", "stopping"}
  /\ boot \in 0..MaxBoots
  /\ autosave \in BOOLEAN
  /\ console \in Seq(Commands)
  /\ pc \in [Ops -> Phases]
  /\ paused \in [Ops -> BOOLEAN]
  /\ onBoot \in [Ops -> 0..MaxBoots]
  /\ viaStdin \in [Ops -> BOOLEAN]
  /\ met \subseteq Ops

Init ==
  /\ busy = Nil
  /\ server = "down" /\ boot = 0 /\ autosave = TRUE /\ console = <<>>
  /\ pc = [o \in Ops |-> "idle"]
  /\ paused = [o \in Ops |-> FALSE]
  /\ onBoot = [o \in Ops |-> 0]
  /\ viaStdin = [o \in Ops |-> FALSE]
  /\ met = {}

Goto(o, phase) == pc' = [pc EXCEPT ![o] = phase]

\* IsRunning: true through the whole of a stop.
Running == server # "down"

-----------------------------------------------------------------------------
(***************************************************************************)
(* saveCommand: RCON first, the console when RCON is unconfigured or       *)
(* fails, an error when the console is closed too.  RCON answers once the  *)
(* command is carried out; the console only queues it.  The server takes   *)
(* both on one thread and reads its console every tick, so an RCON command *)
(* is carried out after what the console already held.                     *)
(***************************************************************************)
\* What carrying out a save command does to the autosave switch.
Switched(cmd) == IF cmd = "save-off" THEN FALSE
                 ELSE IF cmd = "save-on" THEN TRUE
                 ELSE autosave

OverRcon(cmd) ==
  /\ Running
  /\ console = <<>>
  /\ autosave' = Switched(cmd)
  /\ UNCHANGED <<server, boot, console, viaStdin>>

\* An RCON call that failed may have been carried out, its answer lost.
MayHaveLanded(cmd) ==
  \/ UNCHANGED autosave
  \/ Running /\ console = <<>> /\ autosave' = Switched(cmd)

OverStdin(o, cmd) ==
  /\ server = "up"
  /\ MayHaveLanded(cmd)
  /\ console' = Append(console, cmd)
  /\ viaStdin' = [viaStdin EXCEPT ![o] = TRUE]
  /\ UNCHANGED <<server, boot>>

Deliver(o, cmd) == OverRcon(cmd) \/ OverStdin(o, cmd)

DeliverFails(cmd) ==
  /\ server # "up"
  /\ MayHaveLanded(cmd)
  /\ UNCHANGED <<server, boot, console, viaStdin>>

-----------------------------------------------------------------------------
InProgress == {o \in Ops : pc[o] # "idle"}

\* Does a duplication overlap whatever is in progress, now that o begins?
Meets(o) ==
  met' = IF InProgress # {} /\ (InProgress \cup {o}) \cap Duplicates # {}
           THEN met \cup InProgress \cup {o}
           ELSE met

\* Mutant: a claim that does not look whether it is taken.
ClaimAnyway(o) == busy' = o

Claim(o) == busy = Nil /\ busy' = o

\* A backup claims its server; errBackupRunning otherwise changes nothing.
\* The folder checks around it fail without a trace.
BackupBegins(o) ==
  /\ o \in Backups
  /\ pc[o] = "idle"
  /\ Claim(o)
  /\ Meets(o)
  /\ Goto(o, "prepare")
  /\ UNCHANGED <<serverVars, paused, onBoot, viaStdin>>

\* A duplication claims nothing.
DuplicateBegins(o) ==
  /\ o \in Duplicates
  /\ pc[o] = "idle"
  /\ Meets(o)
  /\ Goto(o, "prepare")
  /\ UNCHANGED <<busy, serverVars, paused, onBoot, viaStdin>>

(***************************************************************************)
(* PrepareForBackup: a server that is down needs no quiesce; otherwise     *)
(* save-off, save-all flush, and a wait if the console carried either.  A  *)
(* command neither way carried is undone and refuses the copy.             *)
(***************************************************************************)
Prepare(o) ==
  /\ pc[o] = "prepare"
  /\ paused' = [paused EXCEPT ![o] = Running]
  /\ onBoot' = [onBoot EXCEPT ![o] = boot]
  /\ Goto(o, IF Running THEN "saveoff" ELSE "copy")
  /\ UNCHANGED <<busy, serverVars, viaStdin, met>>

SaveOff(o) ==
  /\ pc[o] = "saveoff"
  /\ \/ Deliver(o, "save-off") /\ Goto(o, "flush")
     \/ DeliverFails("save-off") /\ Goto(o, "undo")
  /\ UNCHANGED <<busy, paused, onBoot, met>>

Flush(o) ==
  /\ pc[o] = "flush"
  /\ \/ /\ Deliver(o, "save-all flush")
        /\ Goto(o, IF viaStdin'[o] THEN "settle" ELSE "copy")
     \/ DeliverFails("save-all flush") /\ Goto(o, "undo")
  /\ UNCHANGED <<busy, paused, onBoot, met>>

\* quiesceWait, taken to be long enough for the console to be read.
Settle(o) ==
  /\ pc[o] = "settle"
  /\ console = <<>>
  /\ Goto(o, "copy")
  /\ UNCHANGED <<busy, serverVars, paused, onBoot, viaStdin, met>>

\* Mutant: a command the server does not know.
UndoMisspelt(o) ==
  /\ pc[o] = "undo"
  /\ Deliver(o, "save on") \/ DeliverFails("save on")
  /\ Goto(o, "release")
  /\ UNCHANGED <<busy, paused, onBoot, met>>

Undo(o) ==
  /\ pc[o] = "undo"
  /\ Deliver(o, "save-on") \/ DeliverFails("save-on")
  /\ Goto(o, "release")
  /\ UNCHANGED <<busy, paused, onBoot, met>>

\* The zip or the folder copy ends, well or badly; the resume is deferred.
CopyEnds(o) ==
  /\ pc[o] = "copy"
  /\ Goto(o, IF paused[o] THEN "resume" ELSE "release")
  /\ UNCHANGED <<busy, serverVars, paused, onBoot, viaStdin, met>>

\* Mutant: a resume that looks whether its own boot is still the one running.
ResumeOwnBoot(o) ==
  /\ pc[o] = "resume"
  /\ Goto(o, IF Running /\ boot = onBoot[o] THEN "saveon" ELSE "release")
  /\ UNCHANGED <<busy, serverVars, paused, onBoot, viaStdin, met>>

\* ResumeSaves: nothing to do once the server is down.
Resume(o) ==
  /\ pc[o] = "resume"
  /\ Goto(o, IF Running THEN "saveon" ELSE "release")
  /\ UNCHANGED <<busy, serverVars, paused, onBoot, viaStdin, met>>

\* A save-on that fails is narrated and emitted, and the operation goes on.
SaveOn(o) ==
  /\ pc[o] = "saveon"
  /\ Deliver(o, "save-on") \/ DeliverFails("save-on")
  /\ Goto(o, "release")
  /\ UNCHANGED <<busy, paused, onBoot, met>>

-----------------------------------------------------------------------------
\* RestoreBackup: refused while the server runs, then claimed, then swapped.
RestoreChecks(o) ==
  /\ o \in Restores
  /\ pc[o] = "idle"
  /\ ~ Running
  /\ Goto(o, "claim")
  /\ UNCHANGED <<busy, serverVars, paused, onBoot, viaStdin, met>>

RestoreClaims(o) ==
  /\ pc[o] = "claim"
  /\ \/ Claim(o) /\ Goto(o, "swap")
     \/ busy # Nil /\ UNCHANGED busy /\ Goto(o, "idle")
  /\ UNCHANGED <<serverVars, paused, onBoot, viaStdin, met>>

SwapEnds(o) ==
  /\ pc[o] = "swap"
  /\ Goto(o, "release")
  /\ UNCHANGED <<busy, serverVars, paused, onBoot, viaStdin, met>>

\* The deferred release, after the deferred resume.
Release(o) ==
  /\ pc[o] = "release"
  /\ busy' = IF o \in Claimers THEN Nil ELSE busy
  /\ paused' = [paused EXCEPT ![o] = FALSE]
  /\ onBoot' = [onBoot EXCEPT ![o] = 0]
  /\ viaStdin' = [viaStdin EXCEPT ![o] = FALSE]
  /\ met' = met \ {o}
  /\ Goto(o, "idle")
  /\ UNCHANGED serverVars

-----------------------------------------------------------------------------
(***************************************************************************)
(* The server.  A new process saves on its own again and has an empty      *)
(* console; a stop closes its stdin but leaves what was written to it.     *)
(***************************************************************************)
Boots ==
  /\ server = "down"
  /\ boot < MaxBoots
  /\ server' = "up"
  /\ boot' = boot + 1
  /\ autosave' = TRUE
  /\ console' = <<>>
  /\ UNCHANGED <<busy, opVars, met>>

IsStopped ==
  /\ server = "up"
  /\ server' = "stopping"
  /\ UNCHANGED <<busy, boot, autosave, console, opVars, met>>

Exits ==
  /\ Running
  /\ server' = "down"
  /\ console' = <<>>
  /\ UNCHANGED <<busy, boot, autosave, opVars, met>>

ReadsConsole ==
  /\ Running
  /\ console # <<>>
  /\ autosave' = Switched(Head(console))
  /\ console' = Tail(console)
  /\ UNCHANGED <<busy, server, boot, opVars, met>>

-----------------------------------------------------------------------------
Begins(o) == BackupBegins(o) \/ DuplicateBegins(o) \/ RestoreChecks(o)

Progress(o) ==
  \/ Prepare(o) \/ SaveOff(o) \/ Flush(o) \/ Settle(o) \/ Undo(o)
  \/ CopyEnds(o) \/ Resume(o) \/ SaveOn(o)
  \/ RestoreClaims(o) \/ SwapEnds(o) \/ Release(o)

Next ==
  \/ \E o \in Ops : Begins(o) \/ Progress(o)
  \/ Boots \/ IsStopped \/ Exits \/ ReadsConsole

Spec == Init /\ [][Next]_vars

-----------------------------------------------------------------------------
\* The server may be writing its world: on its own, or as it shuts down.
WritesWorld == server = "stopping" \/ (server = "up" /\ autosave)

\* A copy that paused the saves of the boot that is still up is taken with the
\* autosave off.
QuietCopy(o) ==
  pc[o] = "copy" /\ paused[o] /\ server = "up" /\ boot = onBoot[o] => ~ autosave

\* Beside no duplication, nothing turns the saves on under a backup's copy: no
\* other operation's resume lands there (#29).
QuiescedBootStaysQuiet == \A o \in Ops \ met : QuietCopy(o)

\* Known not to hold.  The same of every copy, as backups and duplications are
\* said to be.
EveryCopyIsQuiet == \A o \in Copies : QuietCopy(o)

\* Once every operation is over and the console is read, a server that is up
\* saves on its own again, whichever boot was paused and whatever failed.
AutosaveComesBack ==
  (\A o \in Ops : pc[o] = "idle") /\ server = "up" /\ console = <<>> => autosave

\* Known not to hold.  What PrepareForBackup says of its outcomes: the copy that follows is never
\* taken from a world being written to.
CopyIsNeverLive == \A o \in Copies : pc[o] = "copy" => ~ WritesWorld

=============================================================================
