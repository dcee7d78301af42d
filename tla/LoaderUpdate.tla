---------------------------- MODULE LoaderUpdate ----------------------------
(* Moving a server to another build of its loader (LoaderService.Update): a  *)
(* copy of the launch files, the installer that rewrites them, and their way *)
(* back when it fails.  A build is the number of the update that brings it,  *)
(* a file is the build it is of.  What the installer says, and when, is      *)
(* InstallLogs'; an update's backup of the whole server is left out.         *)
EXTENDS Naturals

CONSTANTS Files,      \* loaderLaunchFiles
          Script,       \* the one of them that names the build a start launches
          Nil,
          MaxUpdates, MaxEdits

VARIABLES files,      \* the launch files in the server's folder
          newest,     \* the build of the newest argfile under libraries
          record,     \* the saved configuration, or Nil once it is deleted
          asked,      \* the configuration a call of Update has read, or Nil
          job,        \* the update under way, or Nil
          updates, edits,
          running,    \* the build the running server was started from, or Nil
          told,       \* how the last update ended, or Nil
          mishap      \* a file was not put back, or the program ended, since it began

Builds == 0 .. MaxUpdates
Folders == [Files -> Builds \cup {Nil}]
Records == [name : 0 .. MaxEdits, build : Builds]
Stages == {"copying", "downloading", "installing", "checking", "restoring", "saving"}

UpdateTypeOK ==
  /\ files \in Folders /\ newest \in Builds
  /\ record \in Records \cup {Nil} /\ asked \in Records \cup {Nil}
  /\ job \in [at : Stages, config : Records, saved : Folders, left : SUBSET Files,
              restored : BOOLEAN, was : Folders, launched : Builds] \cup {Nil}
  /\ updates \in Builds /\ edits \in 0 .. MaxEdits /\ running \in Builds \cup {Nil}
  /\ told \in [failed : BOOLEAN, rolledBack : BOOLEAN, saved : BOOLEAN,
               was : Folders, launched : Builds] \cup {Nil}
  /\ mishap \in BOOLEAN

\* An install that launches through a script, or through the argfile alone.
UpdateInit ==
  /\ files \in {[f \in Files |-> 0], [f \in Files |-> Nil]} /\ newest = 0
  /\ record = [name |-> 0, build |-> 0] /\ asked = Nil /\ job = Nil
  /\ updates = 0 /\ edits = 0 /\ running = Nil /\ told = Nil /\ mishap = FALSE

folder == <<files, newest>>
user == <<edits, running>>

\* detectLoaderVersion, and a start: the script's build, else the newest's.
Launched == IF files[Script] # Nil THEN files[Script] ELSE newest

\* What Update reads before it asks the network for the builds there are.
Judges ==
  /\ asked = Nil /\ record # Nil /\ running = Nil /\ asked' = record
  /\ UNCHANGED <<folder, record, job, updates, user, told, mishap>>

Refused ==
  /\ asked # Nil /\ asked' = Nil
  /\ UNCHANGED <<folder, record, job, updates, user, told, mishap>>

\* One update at a time, of all servers.
Claims ==
  /\ asked # Nil /\ asked' = Nil /\ job = Nil /\ updates < MaxUpdates
  /\ updates' = updates + 1 /\ told' = Nil /\ mishap' = FALSE
  /\ job' = [at |-> "copying", config |-> asked, saved |-> [f \in Files |-> Nil],
             left |-> Files, restored |-> FALSE, was |-> files, launched |-> Launched]
  /\ UNCHANGED <<folder, record, user>>

At(stage) == job # Nil /\ job.at = stage
Goes(stage) == job' = [job EXCEPT !.at = stage, !.left = Files]
Ends(failed, rolledBack, saved) ==
  /\ job' = Nil
  /\ told' = [failed |-> failed, rolledBack |-> rolledBack, saved |-> saved,
              was |-> job.was, launched |-> job.launched]

Copies(f) ==
  /\ At("copying") /\ f \in job.left
  /\ job' = [job EXCEPT !.saved[f] = files[f], !.left = @ \ {f}]
  /\ UNCHANGED <<folder, record, asked, updates, user, told, mishap>>

Copied ==
  /\ At("copying") /\ job.left = {} /\ Goes("downloading")
  /\ UNCHANGED <<folder, record, asked, updates, user, told, mishap>>

Downloads ==
  /\ At("downloading") /\ Goes("installing")
  /\ UNCHANGED <<folder, record, asked, updates, user, told, mishap>>

\* "Nothing in the server directory has been touched yet".
FailsUntouched ==
  /\ At("copying") \/ At("downloading")
  /\ Ends(TRUE, FALSE, FALSE)
  /\ UNCHANGED <<folder, record, asked, updates, user, mishap>>

\* runInstaller: it writes in its own order, and ends anywhere.
Installs ==
  /\ At("installing")
  /\ \/ newest' = updates /\ UNCHANGED files
     \/ \E f \in Files : files' = [files EXCEPT ![f] = updates] /\ UNCHANGED newest
  /\ UNCHANGED <<record, asked, job, updates, user, told, mishap>>

InstallerEnds ==
  /\ At("installing") /\ (Goes("checking") \/ Goes("restoring"))
  /\ UNCHANGED <<folder, record, asked, updates, user, told, mishap>>

\* The installer can exit 0 and have left the launcher at the old build.
Checks ==
  /\ At("checking") /\ Goes(IF Launched = updates THEN "saving" ELSE "restoring")
  /\ UNCHANGED <<folder, record, asked, updates, user, told, mishap>>

\* rollback, a file at a time; one that was not there before stays.
Restores(f) ==
  /\ At("restoring") /\ f \in job.left
  /\ \/ /\ job.saved[f] # Nil /\ files' = [files EXCEPT ![f] = job.saved[f]]
        /\ job' = [job EXCEPT !.left = @ \ {f}, !.restored = TRUE]
        /\ UNCHANGED mishap
     \/ /\ mishap' = (mishap \/ job.saved[f] # Nil)
        /\ job' = [job EXCEPT !.left = @ \ {f}]
        /\ UNCHANGED files
  /\ UNCHANGED <<newest, record, asked, updates, user, told>>

RolledBack ==
  /\ At("restoring") /\ job.left = {} /\ Ends(TRUE, job.restored, FALSE)
  /\ UNCHANGED <<folder, record, asked, updates, user, mishap>>

\* SaveServerConfig stores the configuration the update began with, and one
\* that fails does not undo the install.
Saves ==
  /\ At("saving")
  /\ \/ record' = [job.config EXCEPT !.build = updates] /\ Ends(FALSE, FALSE, TRUE)
     \/ UNCHANGED record /\ Ends(FALSE, FALSE, FALSE)
  /\ UNCHANGED <<folder, asked, updates, user, mishap>>

\* The user edits or deletes the server, and starts it: nothing asks whether an
\* update is under way.
UserEdits ==
  /\ record # Nil /\ edits < MaxEdits /\ edits' = edits + 1
  /\ \/ record' = [record EXCEPT !.name = edits']
     \/ record' = Nil
  /\ UNCHANGED <<folder, asked, job, updates, running, told, mishap>>

Starts ==
  /\ running = Nil /\ record # Nil /\ running' = Launched
  /\ UNCHANGED <<folder, record, asked, job, updates, edits, told, mishap>>

Stops ==
  /\ running # Nil /\ running' = Nil
  /\ UNCHANGED <<folder, record, asked, job, updates, edits, told, mishap>>

\* The copies stay on disk, and nothing reads them again.
ProgramEnds ==
  /\ job' = Nil /\ asked' = Nil /\ told' = Nil /\ running' = Nil /\ mishap' = TRUE
  /\ UNCHANGED <<folder, record, updates, edits>>

UpdateNext ==
  \/ Judges \/ Refused \/ Claims \/ Copied \/ Downloads \/ FailsUntouched
  \/ Installs \/ InstallerEnds \/ Checks \/ RolledBack \/ Saves
  \/ \E f \in Files : Copies(f) \/ Restores(f)
  \/ UserEdits \/ Starts \/ Stops \/ ProgramEnds

Over(failed) == told # Nil /\ told.failed = failed

\* "Konnekt copies those three files first and puts them back if the install
\* fails" (LoaderUpdateDialog.tsx), whatever the installer left of them.
FailedUpdateIsUndone ==
  (Over(TRUE) /\ ~mishap) =>
    /\ \A f \in Files : told.was[f] # Nil => files[f] = told.was[f]
    /\ told.was[Script] # Nil => Launched = told.launched

\* An update that says it is done launches its build, and the saved
\* configuration says so too if it could be written.
DoneUpdateLaunches ==
  Over(FALSE) =>
    /\ Launched = updates
    /\ (told.saved /\ record # Nil) => record.build = updates

UpdateIsAllOrNothing == FailedUpdateIsUndone /\ DoneUpdateLaunches

\* "Nothing was changed in the server folder." (LoaderUpdateDialog.tsx:145).
\* Known not to hold: an install without launch files has none to put back.
UntoldMeansUntouched ==
  (Over(TRUE) /\ ~told.rolledBack) => files = told.was /\ Launched = told.launched

\* Known not to hold: the update saves the configuration it read at the start.
EditsSurvive == record # Nil => record.name = edits

\* "rewriting the launch files under a live server leaves it running something
\* that no longer matches its own directory" (loader.go:208).  Known not to
\* hold: a server can be started once the update has looked.
RunsWhatItHas == running # Nil => running = Launched
=============================================================================
