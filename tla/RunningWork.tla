---------------------------- MODULE RunningWork -----------------------------
(* What tells the user of running work: its rows (useProcessesStore), the    *)
(* installer's and the updater's logs (App.tsx), and the bubbles             *)
(* (useNotificationsStore).  None reads another's state; each has its Init   *)
(* and Next.                                                                 *)
EXTENDS Naturals, Sequences

CONSTANTS
  Announced,                           \* jobs whose start has an event: backups, installs, updates
  Unannounced,                         \* mod installs, known from their first progress
  MaxEvents,                           \* bound on the events not delivered
  MaxTimers,                           \* bound on the timers of one row
  Standing,                            \* keys of conditions
  News,                                \* keys of things that happen
  Texts,
  MAX_TOASTS,
  MaxCount                             \* bound on the repeats counted

VARIABLES
  running,                             \* the jobs running on the backend
  events,                              \* the events on their way, oldest first
  rows,                                \* the store's processes: a row's status, or none
  timers,                              \* how many times finish has set a row's linger timer
  holder,                              \* whose run holds the installer's single-run guard
  update,                              \* a loader update is running (LoaderService.updating)
  ended,                               \* the install's outcome, released and not announced
  output,                              \* the events on their way, oldest first
  asking,                              \* the modal's InstallServer call is not answered
  installPhase, installLog,            \* useInstallStore; a log by who printed in it
  updatePhase, updateLog,              \* useLoaderStore
  overlapped,                          \* an install and an update have run at once
  toasts,                              \* the open bubbles, oldest first
  dismissed,                           \* dismissedToasts
  unwanted                             \* the conditions dismissed and not asked for since

(* The sidebar's rows of running work (useProcessesStore, the listeners of  *)
(* App.tsx, ActiveProcesses).  Jobs run on the backend and are known here   *)
(* from their events alone, which arrive in order and late.                 *)
Jobs == Announced \cup Unannounced
Event == [what : {"started", "progress", "done", "failed"}, job : Jobs]

RowsTypeOK ==
  /\ running \subseteq Jobs
  /\ events \in Seq(Event) /\ Len(events) <= MaxEvents
  /\ rows \in [Jobs -> {"none", "running", "done", "failed"}]
  /\ timers \in [Jobs -> 0 .. MaxTimers]

RowsInit ==
  /\ running = {} /\ events = <<>>
  /\ rows = [j \in Jobs |-> "none"] /\ timers = [j \in Jobs |-> 0]

Emit(what, j) ==
  /\ Len(events) < MaxEvents
  /\ events' = Append(events, [what |-> what, job |-> j])

Start(j) ==
  /\ j \notin running
  /\ running' = running \cup {j}
  /\ IF j \in Announced THEN Emit("started", j) ELSE UNCHANGED events
  /\ UNCHANGED <<rows, timers>>

Progress(j) == j \in running /\ Emit("progress", j) /\ UNCHANGED <<running, rows, timers>>

End(j) ==
  /\ j \in running
  /\ running' = running \ {j}
  /\ \E what \in {"done", "failed"} : Emit(what, j)
  /\ UNCHANGED <<rows, timers>>

\* A progress of a mod makes the row it does not find.  finish needs a row, but
\* sets its timer without one.
RowAfter(e) ==
  CASE e.what = "started" -> "running"
    [] e.what = "progress" ->
         IF e.job \in Unannounced /\ rows[e.job] = "none" THEN "running" ELSE rows[e.job]
    [] OTHER -> IF rows[e.job] = "none" THEN "none" ELSE e.what

Deliver ==
  /\ events # <<>>
  /\ LET e == Head(events) IN
       /\ rows' = [rows EXCEPT ![e.job] = RowAfter(e)]
       /\ IF e.what = "done" THEN /\ timers[e.job] < MaxTimers
                                  /\ timers' = [timers EXCEPT ![e.job] = @ + 1]
                             ELSE UNCHANGED timers
  /\ events' = Tail(events)
  /\ UNCHANGED running

\* The timer clears its row only if that is still a success.
TimerFires(j) ==
  /\ timers[j] > 0
  /\ timers' = [timers EXCEPT ![j] = @ - 1]
  /\ rows' = [rows EXCEPT ![j] = IF @ = "done" THEN "none" ELSE @]
  /\ UNCHANGED <<running, events>>

\* Only a failed row has the button.
Dismiss(j) ==
  /\ rows[j] = "failed"
  /\ rows' = [rows EXCEPT ![j] = "none"]
  /\ UNCHANGED <<running, events, timers>>

RowsNext ==
  \/ \E j \in Jobs : Start(j) \/ Progress(j) \/ End(j) \/ TimerFires(j) \/ Dismiss(j)
  \/ Deliver

\* Once its events are in, an announced job has a running row, whatever timers
\* of its earlier runs are left, and a job that ended has none running.
RowsFollowJobs ==
  events = <<>> =>
    /\ \A j \in Announced : j \in running => rows[j] = "running"
    /\ \A j \in Jobs \ running : rows[j] # "running"
    /\ \A j \in Jobs : rows[j] = "done" => timers[j] > 0

-----------------------------------------------------------------------------
(* The installer, run for a first install or by a loader update             *)
(* (InstallerService, LoaderService), and the two logs its output is shown  *)
(* in: the install modal's and the update dialog's.  Both jobs print on one *)
(* channel, install:log, and App.tsx gives a line to the one it takes to be *)
(* running.                                                                 *)
Installs == {"install", "update"}
Phases == {"idle", "running", "done", "failed"}
Whats == {"started", "line", "done", "failed"}

LogsTypeOK ==
  /\ holder \in Installs \cup {"free"} /\ update \in BOOLEAN
  /\ ended \in {"no", "done", "failed"}
  /\ output \in Seq([what : Whats, job : Installs]) /\ Len(output) <= MaxEvents
  /\ asking \in BOOLEAN /\ overlapped \in BOOLEAN
  /\ installPhase \in Phases /\ installLog \subseteq Installs
  /\ updatePhase \in Phases /\ updateLog \subseteq Installs

LogsInit ==
  /\ holder = "free" /\ update = FALSE /\ ended = "no" /\ output = <<>> /\ asking = FALSE
  /\ installPhase = "idle" /\ installLog = {}
  /\ updatePhase = "idle" /\ updateLog = {} /\ overlapped = FALSE

backend == <<holder, update, ended>>
screen == <<asking, installPhase, installLog, updatePhase, updateLog>>

EmitLine(what, job) ==
  /\ Len(output) < MaxEvents
  /\ output' = Append(output, [what |-> what, job |-> job])

\* An install is running from the modal's click until its outcome is out.
Installing == holder = "install" \/ ended # "no" \/ asking

\* openFor: another installer is picked, whatever the last one is doing.
OpenInstaller ==
  /\ installPhase' = "idle" /\ installLog' = {}
  /\ UNCHANGED <<backend, output, asking, updatePhase, updateLog, overlapped>>

\* The modal's button: begin(), then the call.
Install ==
  /\ ~asking /\ installPhase \in {"idle", "failed"}
  /\ asking' = TRUE /\ installPhase' = "running" /\ installLog' = {}
  /\ overlapped' = (overlapped \/ update)
  /\ UNCHANGED <<backend, output, updatePhase, updateLog>>

\* InstallServer claims the guard and says so, or is refused.
InstallAccepted ==
  /\ asking /\ holder = "free"
  /\ asking' = FALSE /\ holder' = "install"
  /\ EmitLine("started", "install")
  /\ UNCHANGED <<update, ended, installPhase, installLog, updatePhase, updateLog, overlapped>>

InstallRefused ==
  /\ asking
  /\ asking' = FALSE /\ installPhase' = "failed"
  /\ UNCHANGED <<backend, output, installLog, updatePhase, updateLog, overlapped>>

\* finish drops the guard before it tells how the install went.
InstallReleases ==
  /\ holder = "install" /\ ended = "no"
  /\ holder' = "free" /\ ended' \in {"done", "failed"}
  /\ UNCHANGED <<update, output, screen, overlapped>>

InstallAnnounces ==
  /\ ended # "no"
  /\ ended' = "no"
  /\ EmitLine(ended, "install")
  /\ UNCHANGED <<holder, update, screen, overlapped>>

\* The dialog's call.  The update backs up and downloads before it claims the
\* installer's guard, and rolls back after it has dropped it.
UpdateStarts ==
  /\ ~update
  /\ update' = TRUE
  /\ EmitLine("started", "update")
  /\ overlapped' = (overlapped \/ Installing)
  /\ UNCHANGED <<holder, ended, screen>>

UpdateClaims ==
  /\ update /\ holder = "free"
  /\ holder' = "update"
  /\ UNCHANGED <<update, ended, output, screen, overlapped>>

UpdateReleases ==
  /\ holder = "update"
  /\ holder' = "free"
  /\ UNCHANGED <<update, ended, output, screen, overlapped>>

UpdateEnds ==
  /\ update /\ holder # "update"
  /\ update' = FALSE
  /\ \E what \in {"done", "failed"} : EmitLine(what, "update")
  /\ UNCHANGED <<holder, ended, screen, overlapped>>

\* The installer's output, and what an update says of its other steps.
Line(job) ==
  /\ job = "install" => holder = "install"
  /\ job = "update" => update
  /\ EmitLine("line", job)
  /\ UNCHANGED <<backend, screen, overlapped>>

\* openUpdate: a settled update gives way to the next one.
OpenUpdate ==
  /\ updatePhase # "running"
  /\ updatePhase' = "idle" /\ updateLog' = {}
  /\ UNCHANGED <<backend, output, asking, installPhase, installLog, overlapped>>

\* install:log: the update's if one is running, the install's if one is, else
\* nobody's.
Files(e) ==
  /\ updateLog' = IF updatePhase = "running" THEN updateLog \cup {e.job} ELSE updateLog
  /\ installLog' = IF updatePhase # "running" /\ installPhase = "running"
                   THEN installLog \cup {e.job} ELSE installLog
  /\ UNCHANGED <<installPhase, updatePhase>>

\* The modal's phase is not set by install:started, the update's is.
DeliverLine ==
  /\ output # <<>>
  /\ output' = Tail(output)
  /\ LET e == Head(output) IN
       \/ e.what = "line" /\ Files(e)
       \/ /\ e.what = "started" /\ e.job = "update"
          /\ updatePhase' = "running" /\ updateLog' = {}
          /\ UNCHANGED <<installPhase, installLog>>
       \/ /\ e.what \in {"done", "failed"} /\ e.job = "update"
          /\ updatePhase' = e.what
          /\ UNCHANGED <<installPhase, installLog, updateLog>>
       \/ /\ e.what \in {"done", "failed"} /\ e.job = "install"
          /\ installPhase' = e.what
          /\ UNCHANGED <<installLog, updatePhase, updateLog>>
       \/ /\ e.what = "started" /\ e.job = "install"
          /\ UNCHANGED <<installPhase, installLog, updatePhase, updateLog>>
  /\ UNCHANGED <<backend, asking, overlapped>>

LogsNext ==
  \/ OpenInstaller \/ Install \/ InstallAccepted \/ InstallRefused
  \/ InstallReleases \/ InstallAnnounces
  \/ UpdateStarts \/ UpdateClaims \/ UpdateReleases \/ UpdateEnds
  \/ \E job \in Installs : Line(job)
  \/ OpenUpdate \/ DeliverLine

\* No log holds a line the other job printed.
LinesReachTheirLog == installLog \subseteq {"install"} /\ updateLog \subseteq {"update"}

\* Unless the two jobs ran at once, every line is filed right; and once the
\* events are in, the dialog runs exactly while the update does, and the modal
\* does not wait for an install that is over.
LogsFollowJobs ==
  /\ ~overlapped => LinesReachTheirLog
  /\ output = <<>> =>
       /\ updatePhase = "running" <=> update
       /\ installPhase = "running" => Installing

-----------------------------------------------------------------------------
(* The bubbles in the corner (useNotificationsStore): a short stack, one    *)
(* bubble to a key, newest last.  A standing bubble tells of a condition,   *)
(* any other of something that happened.                                    *)
Keys == Standing \cup News
Toast == [key : Keys, text : Texts, count : 1 .. MaxCount]

ToastsTypeOK ==
  /\ toasts \in Seq(Toast)
  /\ dismissed \subseteq Keys /\ unwanted \subseteq Standing

ToastsInit == toasts = <<>> /\ dismissed = {} /\ unwanted = {}

Without(key) ==
  LET kept[n \in 0 .. Len(toasts)] ==
        IF n = 0 THEN <<>>
        ELSE IF toasts[n].key = key THEN kept[n - 1] ELSE Append(kept[n - 1], toasts[n])
  IN kept[Len(toasts)]
Dropped(n, s) == IF Len(s) <= n THEN s ELSE SubSeq(s, Len(s) - n + 1, Len(s))

\* A bubble shown again: in place if it is a condition, else as the newest.  A
\* repeat of the same text counts, unless the user asked.
Again(open, text, force) ==
  LET count == CASE force -> open.count
                 [] ~force /\ open.text = text -> open.count + 1
                 [] OTHER -> 1
      next == [open EXCEPT !.text = text, !.count = count]
  IN IF force \/ open.key \in News
     THEN Append(Without(open.key), next)
     ELSE [i \in DOMAIN toasts |-> IF toasts[i] = open THEN next ELSE toasts[i]]

\* Past the last place the oldest leaves.
New(key, text) ==
  Append(Dropped(MAX_TOASTS - 1, toasts), [key |-> key, text |-> text, count |-> 1])

showToast(key, text, force) ==
  /\ key \in dismissed => force
  /\ dismissed' = dismissed \ {key}
  /\ unwanted' = IF force THEN unwanted \ {key} ELSE unwanted
  /\ \/ \E i \in DOMAIN toasts :
          /\ toasts[i].key = key
          /\ ~(toasts[i].text = text /\ key \in Standing /\ ~force)
          /\ toasts[i].count < MaxCount
          /\ toasts' = Again(toasts[i], text, force)
     \/ (\A i \in DOMAIN toasts : toasts[i].key # key) /\ toasts' = New(key, text)

\* Only a condition's dismissal is remembered.
Remembered(keys) ==
  /\ dismissed' = dismissed \cup (keys \cap Standing)
  /\ unwanted' = unwanted \cup (keys \cap Standing)

dismissToast(key) == toasts' = Without(key) /\ Remembered({key})
dismissAllToasts ==
  toasts' = <<>> /\ Remembered({toasts[i].key : i \in DOMAIN toasts})

\* The condition is gone; nothing was dismissed.
withdrawToast(key) == toasts' = Without(key) /\ UNCHANGED <<dismissed, unwanted>>

ToastsNext ==
  \/ \E key \in Keys, text \in Texts, force \in BOOLEAN : showToast(key, text, force)
  \/ \E i \in DOMAIN toasts : dismissToast(toasts[i].key) \/ withdrawToast(toasts[i].key)
  \/ dismissAllToasts

\* The stack is short and has one bubble to a key; a condition the user sent
\* away does not come back by itself, and news is never held back.
StackIsTame ==
  /\ Len(toasts) <= MAX_TOASTS
  /\ \A i, j \in DOMAIN toasts : toasts[i].key = toasts[j].key => i = j
  /\ \A i \in DOMAIN toasts : toasts[i].key \notin unwanted
  /\ dismissed \cap News = {}
=============================================================================
