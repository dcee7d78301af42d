---------------------------- MODULE ClientStores ----------------------------
(* The frontend's stores, one at a time: none of the modelled stores reads  *)
(* another, so a behaviour is a behaviour of the one that `which` names     *)
(* while the others rest.  The parts of no one tile are ClientShell's, and  *)
(* the services' folders and buckets are KeptFiles'.                        *)
EXTENDS Stores

CONSTANTS Tags, MAX_HISTORY, MaxRevisions

\* Of the parts around the stores, see ClientShell.
CONSTANTS Devices, MaxApprovals, MaxAsks, MaxRefreshes,
          Announced, Unannounced, MaxEvents, MaxTimers,
          Standing, News, Texts, MAX_TOASTS, MaxCount,
          Tiles, Methods, MaxLookups, MaxInFlight,
          TunnelCalls, DesktopCalls, ListenerCalls, Hostnames,
          EditorFiles, MaxEdits, MaxReads,
          Browsers, MaxRequests, MaxPasswords, MAX_PENDING

\* Of what is kept in files, see KeptFiles.
CONSTANTS Parts, MaxSnapshots, Keep, LinkPrefixes, MaxLinkTokens, MaxVersions,
          Archives, MaxNames, MaxMetaCalls,
          LaunchFiles, Script, MaxUpdates, MaxConfigEdits,
          ModNames, Hosted, Foreign, MaxModCalls, MaxDrops,
          MaxSignIns, MaxGrantTokens, MaxHashes, MaxChecks, MAX_CONSENTS, MAX_GRANTS

\* graphHistory.ts keeps at least one step; nil is no revision.
ASSUME HistoryAssumption ==
  /\ MAX_HISTORY \in Nat \ {0} /\ MaxRevisions \in Nat
  /\ Nil \notin Nat

\* The list is read when it is mounted (useRemoteApprovalsStore).
ASSUME ApprovalsAssumption ==
  {MaxApprovals, MaxAsks} \subseteq Nat /\ MaxRefreshes \in Nat \ {0}

ASSUME RowsAssumption == {MaxEvents, MaxTimers} \subseteq Nat

ASSUME LogsAssumption == MaxEvents \in Nat

\* What stays shown is no news; there is room for a bubble.
ASSUME BubblesAssumption ==
  Standing \cap News = {} /\ {MAX_TOASTS, MaxCount} \subseteq Nat \ {0}

\* The desktop shows a server, and "unset" names none.
ASSUME TabAssumption ==
  /\ Servers # {} /\ "unset" \notin Servers
  /\ MaxLookups \in Nat /\ MaxInFlight \in Nat

\* A quick tunnel's host is a name of its own, and Nil is no host.
ASSUME ReachAssumption ==
  LET runs == {TunnelCalls[i] : i \in DOMAIN TunnelCalls}
  IN  runs \cap Hostnames = {} /\ Nil \notin runs \cup Hostnames

\* Nil names no file and is no write, and a file is not the closing.
ASSUME EditorAssumption ==
  /\ MaxEdits \in Nat
  /\ {Nil, "close"} \cap EditorFiles = {} /\ Nil # "close"
  /\ Nil \notin [file : EditorFiles, text : [of : EditorFiles \cup {Nil}, n : 0 .. MaxEdits],
                 continues : BOOLEAN, reply : {"none", "ok", "failed"}]

\* There is a password from the start.
ASSUME AuthAssumption ==
  /\ Nil \notin Browsers
  /\ MaxRequests \in Nat /\ MaxPasswords \in Nat \ {0} /\ MAX_PENDING \in Nat

\* Nil is no prefix and no change of the link.
ASSUME LinkAssumption ==
  LET tokens == 0 .. MaxLinkTokens
      bases == LinkPrefixes \X tokens
  IN  /\ {MaxLinkTokens, MaxVersions} \subseteq Nat
      /\ Nil \notin LinkPrefixes
      /\ Nil \notin [stage : {"page", "index", "database", "pointer", "commit", "drop"},
                     to : tokens, moved : BOOLEAN, left : SUBSET bases, kept : SUBSET bases]

\* Nil is no entry of meta.json.
ASSUME MetaAssumption ==
  MaxNames \in Nat /\ Nil \notin [name : 0 .. MaxNames, lods : BOOLEAN]

ASSUME LoaderAssumption ==
  Script \in LaunchFiles /\ {MaxUpdates, MaxConfigEdits} \subseteq Nat

\* A build is served under a name, and none is half of one; Nil is no row, no
\* folder and no call.
ASSUME ModsAssumption ==
  LET files == ModNames \X BOOLEAN
      folders == [files -> DOMAIN Hosted \cup Foreign \cup {"half", Nil}]
  IN  /\ {MaxModCalls, MaxDrops} \subseteq Nat
      /\ \A b \in DOMAIN Hosted : Hosted[b] \in ModNames
      /\ "half" \notin DOMAIN Hosted \cup {Nil}
      /\ Nil \notin folders \cup [at : {"picked"}]
      /\ Nil \notin [build : DOMAIN Hosted \cup {Nil}, known : BOOLEAN, asked : BOOLEAN]
      /\ Nil \notin [at : {"downloading", "superseding", "saving"}, build : DOMAIN Hosted,
                     file : files, aside : folders, off : BOOLEAN, gone : SUBSET ModNames,
                     was : folders, trouble : BOOLEAN, saved : BOOLEAN]

\* There is a password from the start; Nil is no grant.
ASSUME ConnectorsAssumption ==
  /\ {MaxSignIns, MaxGrantTokens} \subseteq Nat /\ MaxHashes \in Nat \ {0}
  /\ Nil \notin [refresh : Nat, prev : Nat, earned : Nat]

VARIABLES which,
          canvas, drawn, past, future, lastTag, drag, meddled,
          part,
          asks, waiting, prompts, refreshes, reads, clicks, busy, stale,
          running, events, rows, timers,
          holder, update, ended, output, asking,
          installPhase, installLog, updatePhase, updateLog, overlapped,
          open, closing, queued, dirty, dialog, late,
          desktop, watched, chosen, lookups, found, inFlight, shown,
          toasts, dismissed, unwanted,
          tunnel, attempts, alive, cancelled, callers, named, listening, allowed, happened,
          mounted, pane, held, readings, write, files, upset, spilt,
          page, token, verifying, buckets, password, awaiting, devices, sessions,
          minted, refused, overtaken,
          kept,
          staged, index, taken, up, folders, latest, snapshot,
          link, objects, pointer, tokensMade, published, publishing, change,
          tokensUsed, newest, missed,
          archives, zips, lacking, meta, metaCalls, given, wanted, raced, unwritten,
          launchFiles, argfile, savedConfig, judged, updating, updates, edits,
          bootedFrom, told, mishap,
          jar, modRows, modCall, sig, scans, check, cache, modCalls, drops, installTold,
          modDoubt,
          consents, checking, bucketBusy, askedOf, codes, grants, remoteJson, remotePassword,
          holds, signIns, tokensIssued, prompted, issued, grantsEnded, grantDoubt, lingering,
          passwordsCrossed

History == INSTANCE GraphHistory
Shell == INSTANCE ClientShell
Files == INSTANCE KeptFiles

consoleVars == <<ref, effected, lines, pending, replays>>
storeVars == <<tile, server, graphs, hydratedFor, fetching, fetches, mutations>>
panelVars == <<statusFor, status, versions, loading, loads>>
configVars == <<stored, storedActive, configs, activeId, calls, unsure>>
writeVars == <<optimistic, value, disk, made, writes, reread, answer, crossed>>
historyVars == <<canvas, drawn, past, future, lastTag, drag, meddled>>

shellVars ==
  <<part, asks, waiting, prompts, refreshes, reads, clicks, busy, stale,
    running, events, rows, timers, holder, update, ended, output, asking,
    installPhase, installLog, updatePhase, updateLog, overlapped,
    open, closing, queued, dirty, dialog, late,
    desktop, watched, chosen, lookups, found, inFlight, shown,
    toasts, dismissed, unwanted,
    tunnel, attempts, alive, cancelled, callers, named, listening, allowed, happened,
    mounted, pane, held, readings, write, files, upset, spilt,
    page, token, verifying, buckets, password, awaiting, devices, sessions,
    minted, refused, overtaken>>

keptVars ==
  <<kept, staged, index, taken, up, folders, latest, snapshot,
    link, objects, pointer, tokensMade, published, publishing, change,
    tokensUsed, newest, missed,
    archives, zips, lacking, meta, metaCalls, given, wanted, raced, unwritten,
    launchFiles, argfile, savedConfig, judged, updating, updates, edits,
    bootedFrom, told, mishap,
    jar, modRows, modCall, sig, scans, check, cache, modCalls, drops, installTold,
    modDoubt,
    consents, checking, bucketBusy, askedOf, codes, grants, remoteJson, remotePassword,
    holds, signIns, tokensIssued, prompted, issued, grantsEnded, grantDoubt, lingering,
    passwordsCrossed>>

vars == <<which, consoleVars, storeVars, panelVars, configVars, writeVars, historyVars,
          shellVars, keptVars>>

Init ==
  /\ which \in {"console", "schedules", "panel", "configs", "written", "history",
                "shell", "kept"}
  /\ ConsoleInit /\ StoreInit /\ PanelInit
  /\ ConfigsInit /\ WriteInit /\ History!HistoryInit
  /\ stored = <<>> \/ which = "configs"
  /\ ~optimistic \/ which = "written"
  /\ Shell!ShellInit
  /\ part = "tab" \/ which = "shell"
  /\ Files!KeptInit
  /\ kept = "meta" \/ which = "kept"

ConsoleStep ==
  /\ which = "console" /\ ConsoleNext
  /\ UNCHANGED <<which, storeVars, panelVars, configVars,
                 writeVars, historyVars, shellVars, keptVars>>

SchedulesStep ==
  /\ which = "schedules" /\ StoreNext
  /\ UNCHANGED <<which, consoleVars, panelVars, configVars,
                 writeVars, historyVars, shellVars, keptVars>>

PanelStep ==
  /\ which = "panel" /\ PanelNext
  /\ UNCHANGED <<which, consoleVars, storeVars, configVars,
                 writeVars, historyVars, shellVars, keptVars>>

ConfigsStep ==
  /\ which = "configs" /\ ConfigsNext
  /\ UNCHANGED <<which, consoleVars, storeVars, panelVars,
                 writeVars, historyVars, shellVars, keptVars>>

WrittenStep ==
  /\ which = "written" /\ WriteNext
  /\ UNCHANGED <<which, consoleVars, storeVars, panelVars,
                 configVars, historyVars, shellVars, keptVars>>

HistoryStep ==
  /\ which = "history" /\ History!HistoryNext
  /\ UNCHANGED <<which, consoleVars, storeVars, panelVars,
                 configVars, writeVars, shellVars, keptVars>>

ShellStep ==
  /\ which = "shell" /\ Shell!ShellNext
  /\ UNCHANGED <<which, consoleVars, storeVars, panelVars, configVars,
                 writeVars, historyVars, keptVars>>

KeptStep ==
  /\ which = "kept" /\ Files!KeptNext
  /\ UNCHANGED <<which, consoleVars, storeVars, panelVars, configVars,
                 writeVars, historyVars, shellVars>>

Next ==
  \/ ConsoleStep \/ SchedulesStep \/ PanelStep
  \/ ConfigsStep \/ WrittenStep \/ HistoryStep \/ ShellStep
  \/ KeptStep

Spec == Init /\ [][Next]_vars

\* Of the store at work: the others are as they began.
StoresTypeOK ==
  /\ which = "console" => ConsoleTypeOK
  /\ which = "schedules" => StoreTypeOK
  /\ which = "panel" => PanelTypeOK
  /\ which = "configs" => ConfigsTypeOK
  /\ which = "written" => WriteTypeOK
  /\ which = "history" => History!HistoryTypeOK

\* What a view shows is of the server it is about: console, schedules and
\* loader builds, whatever replies of the servers switched away from are late.
ViewsShowTheirServer ==
  /\ which = "console" => ConsoleIsOneServers
  /\ which = "schedules" => StoreIsOneServers
  /\ which = "panel" => SlotIsOneServers

\* The stores that keep a copy of the disk keep it, and the editor's history
\* keeps the order it was drawn in.
CopiesAreTrue ==
  /\ which = "configs" => ConfigsAgree
  /\ which = "written" => ScreenIsDisk
  /\ which = "history" => History!Chronological

\* No store tells the user something about another server, another disk or
\* another order than the real one (useConsoleSync, useSchedulerStore.hydrate,
\* useLoaderStore.load, useServerConfigStore, the stores' writes, graphHistory).
StoresAreTrue == StoresTypeOK /\ ViewsShowTheirServer /\ CopiesAreTrue

\* The parts of no one tile keep their promises: a remote call runs only with
\* the desktop's leave and is prompted for while it waits (remote_approve.go);
\* running work has its row (useProcessesStore) and its own log (App.tsx); no
\* tile opens or closes unasked (Dashboard.tsx); a tab keeps its own server
\* (remoteRuntime.ts); the bubbles stay few (useNotificationsStore); the tunnel
\* ends when it is stopped (tunnel.go); the config editor keeps what is typed
\* (useConfigEditor.ts); only approved devices hold sessions (remote_auth.go);
\* and what is kept in folders and buckets stays whole (dhsnapshot_publish.go,
\* dhsnapshot_link.go, backup.go, loader.go, modservice.go, remote_grants.go).
ShellIsSound ==
  /\ which = "shell" => Shell!ShellTypeOK /\ Shell!ShellIsSound
  /\ which = "kept" => Files!KeptTypeOK /\ Files!KeptIsWhole

\* App.tsx:503 to 505: "The two can never run at once (both hold the
\* installer's single-run guard)".  Known not to hold: an update holds that
\* guard for one of its steps only.
LinesReachTheirLog == Shell!Work!LinesReachTheirLog
=============================================================================
