# A TLA+ verification of Konnekt

Konnekt is a desktop application (Go backend, React frontend, glued by Wails)
that manages Minecraft servers: it starts and stops their Java processes, backs
their worlds up, runs user-made automation graphs, and mirrors itself to a
browser over a WebSocket. This directory is a TLA+ development of its core
logic: modules, TLC configurations, and theorems checked by TLAPS.

Paths below are relative to the repository root; `server.go` and the other
unqualified names are in `backend/services/`.

## 1. Inventory

| Component | State it keeps | Operations | Talks to | What is hard |
|---|---|---|---|---|
| **ServerService** (`server.go`) | power gate `powerMu`, the map of instances, `current` | Start, Stop, Restart, WhileStopped, WhileDown, StopRunning, ForceStop | instances; called by the UI, the scheduler, DH snapshots, the remote server, quit | many callers, fail-fast gate that ForceStop walks around, crashes between any two steps |
| **serverInstance** (`server.go`, `serverinstance.go`) | `running`, `state`, `expectedStop`, `crashed`, `deadlineArmed`, `exited`, the TPS poller's channel and Once, the process | start, stop, forceStop, and per boot: two console readers, `waitForExit`, `watchStarting`, `watchExitDeadline`, `pollTPS` | the OS process, the event bus | goroutines of an old boot meeting the next one, timers racing the exit, late console lines |
| **BackupService** (`backup.go`) | per-server claim, archives, `meta.json` | CreateBackup, CreateWorldBackup, RestoreBackup, DeleteBackup, UpdateBackupMeta | PrepareForBackup/ResumeSaves of the instance, the file system | saves off exactly while a copy runs; restore's two-phase folder swap; a server that starts half-way |
| **WorldService** (`worlds.go`) | world folders, `level-name` | Duplicate, Rename, Delete, SetActive, BackupWorld | BackupService, ServerService | shares the saves switch and the folders with a backup |
| **SchedulerService** (`scheduler*.go`) | graphs, run history, the set of running graphs, cooldowns, last-fire times | SaveGraph, DeleteGraph, SetGraphEnabled, RunGraphNow, triggers, graph execution | event bus, ServerService, BackupService, RCON | event triggers concurrent with the ticker; one run per graph; node and run deadlines; cycles cut at 500 nodes |
| **EventBus** (`eventbus.go`) | subscribers, taps | Subscribe, Tap, Emit | everything | taps ordered, subscribers unordered |
| **remoteHub / RemoteService** (`remote*.go`) | replay ring, sequence numbers, run id, sockets | publish, handleWS, replay, add, closeAll, closeSessions | event bus (tap), browser (`remoteRuntime.ts`) | no event lost across a reconnect; slow clients; revocation |
| **RemoteApprovals** (`remote_approve.go`) | pending questions | Ask, Answer, Pending | remote dispatch, UI | answer racing timeout and cancellation |
| **RemoteAuth, OAuth, grants** (`remote_auth.go`, `remote_oauth.go`, `remote_grants.go`) | password hash, devices, sessions, codes, tokens | Login, SetPassword, RemoveDevice, Authorize, Exchange, Refresh, Revoke | RemoteService | a login in flight against a removal; one-use codes |
| **TunnelService** (`tunnel*.go`) | generation, tunnel state, child process | Start, Stop, run | RemoteService (OnHost), UI | a stop overlapping the next start |
| **DH snapshots** (`dhsnapshot*.go`) | process-wide claim, staged parts, published index | preflight, stopCopyStart, copyWhileDown, publish, prune | WhileStopped, WhileDown, S3 | index published after its parts; server always started again |
| **LoaderService, installers** (`loader.go`, `installer.go`) | `updating` set, launch-file snapshot | Update, updateWithRollback | Backup, ServerService | rollback of a half-done install |
| **ModService** (`modservice.go`, `modidentify.go`) | mods folder, manifest, folder signatures, kept update answer | Install, InstallLocal, SetEnabled, Uninstall, Rescan, CheckUpdates | the provider, the file system, event bus | copies moved aside and put back; files nobody announced; a scan's memory |
| **UpdateService** (`update.go`, the About pane) | the executable, the spare one, the answer shown | check, confirm, install, relaunch | releases, attestations, the lock of the single instance | a snapshot republished under a confirmed offer; a swap cut off |
| **Destinations and uploads** (`destinations.go`, `upload.go`, `s3client.go`) | the saved list, secrets, forms; objects in a bucket | save, delete, open; upload, prune, cancel | the network, the scheduler's blocks | two stores for one row; parts, retries and lost answers |
| **Config and JSON stores** (`config.go`, `atomicwrite.go`, ...) | files | load, save | everything | read-modify-write |
| **Remote browser runtime** (`lib/remoteRuntime.ts`) | last sequence number and run, the tab's active server, waiting calls | connectEvents, local methods, call | the hub's sockets, the dispatcher | resync or go on; a choice against a late answer |
| **Scheduler graph editor** (`tiles/scheduler/editor/`) | canvas, graph id, last-saved signature, undo steps, held action | load, new, edit, undo, save, run, duplicate, toggle, delete | `useSchedulerStore`, SchedulerService | replies that come back to another canvas; unsaved work |
| **Frontend stores and hooks** (`stores/`, `hooks/`) | copies of backend state, per server or global | hydrate, load, optimistic writes, event listeners | bindings, events | a switch of server with replies in flight; refused writes |
| **Tiles, dialogs, App.tsx** | what is open, what is asked, rows of running work | open, close, guard; event listeners | stores | guards, animations, late events |
| **App shell, website, demo, scripts** | - | delegation, presentation | - | not modelled |

What makes each component correct:

- *Manager*: one running server at a time; the gate is held for the whole of a
  power action; the snapshot function runs only on a dead server; a restart is
  not refused by its own stop; `current` names the last server that started; every
  call returns.
- *Instance*: an exit is recorded for what it was; nothing of one boot acts on
  the next; a healthy server is never signalled; stops return after the
  teardown; starting resolves; a hung crashed JVM is ended.
- *Backups and worlds*: saves are off for the whole of a copy of a live world and
  on again afterwards; one operation per server; a failed swap leaves the old
  world.
- *Scheduler*: one run per graph; a run ends within its deadline; the stored
  graphs and history are the last ones saved.
- *Remote*: a client sees every event once and in order or is told of a gap; a
  revoked session's sockets are closed; a call runs only with the desktop's leave;
  a session belongs to a device the desktop approved, and was earned with the
  password that is set; the listener answers to the tunnel's name while it is up
  and at no other time.
- *Files and buckets*: what a pointer, an index or a manifest names is there and is
  what it says, whatever was cut off; a failed update or install leaves what was
  there; a connector's grant is earned once, with the desktop's leave and the
  password that is set, and lasts until it is ended.
- *Frontend*: a view shows the server it is about; a copy of the disk is the
  disk's; unsaved work is never replaced unasked; running work has its row and
  its log.

`PROJECT.json` lists every component with its status, and every hazard with its
line and the properties that watch it.

## 2. Modules

| Module | Role |
|---|---|
| `ServerManager`, `MCServerManager`, `ServerManagerProofs` | ServerService: callers, power gate, `current`, instances reduced to their contract; two servers and two callers; its theorems |
| `InstanceContract` | what one instance promises its manager: the abstract specification |
| `ServerInstance`, `ServerInstanceProofs` | one instance over several boots with all its goroutines; implements `InstanceContract` |
| `BackupSaves`, `BackupProofs` | backups, duplications and restores against one server's saves switch |
| `RestoreSwap` | a restore's folder swap, its rollback and its cleanup; its theorems are in `BackupProofs` |
| `Scheduler` | the scheduler's graphs, history and runs; its theorems are in `HostProofs` |
| `RemoteMirror`, `RemoteMirrorProofs` | the remote hub, its listener and one page |
| `GraphEditor`, `GraphEditorProofs` | the graph editor, the store it writes through and the backend's graphs |
| `ClientStores`, `MCClientStores`, `ClientStoresProofs`, `KeptFilesProofs` | the frontend's stores, with `ClientShell` and `KeptFiles`, one at a time; its sets for TLC; the theorems of stores and shell, and those of the files |
| `Stores` | the console, the schedules, the loader's builds, the server list, what is written through |
| `GraphHistory` | undo and redo of the graph editor |
| `ClientShell` | the parts of no one tile, composed of the six below |
| `RemoteApprovals` | calls of remote devices that wait for the desktop, and its prompts |
| `RunningWork` | rows of running work, the installer's two logs, the bubbles |
| `TileViews` | the fullscreen tile, and a remote tab's own view |
| `ConfigEditor` | the config editor, its unsaved-changes guard and the files |
| `RemoteAuth` | signing in from a browser: requests, approvals, sessions |
| `Tunnel` | the tunnel's runs, its callers and the listener it carries |
| `KeptFiles` | what services keep in folders and buckets, composed of the five below |
| `LodSnapshots` | a server's level-of-detail snapshots, and the link they are published under |
| `BackupMeta` | the names and flags of backups in `meta.json` |
| `LoaderUpdate` | a loader update, its rollback and the saved configuration |
| `ModFolder` | a mods folder and its manifest |
| `ConnectorSignIn` | a connector's consent, code and grant |
| `HostWork`, `MCHostWork`, `HostProofs` | what the host does for the user's clicks and its clock, composed of the seven below; its sets for TLC; the theorems of the scheduler and of seven jobs |
| `SelfUpdate` | the check for a new Konnekt, its installation and the relaunch |
| `Uploads` | the saved destinations and their forms; an upload to a bucket |
| `ModBrowser` | the mod search, the dependencies an install brings along, the panel of one mod |
| `GraphRuns` | one run of a graph, node by node; the triggers against the clock |
| `WorldArchives` | a server's worlds and the archives made of them |
| `ServerView` | who is on a server, how it does, and its player limit |
| `OAuthGrants` | registered clients, grants and bearers against the clock |

`ServerManager` and `ServerInstance` meet at `InstanceContract`: `ServerManager` is shown to
use each server only in the contract's steps (`InstancesKeepContract`), and
`ServerInstance` to implement it (`KeepsContract`, `KeepsFairContract`). The
manager can therefore keep four variables per server and still be about the
real instance.

### ServerManager

Each caller is a goroutine that walks through a power action; `pc[c]` says which
critical section it reaches next and `op`, `target`, `rest`, `seen`, `prev` and
`waiting` are its Go locals (the running instances still to ask and those
found, `restoreCurrent`'s `prev`, the captured `exited` channel). An action is one critical
section or one blocking wait:

- `Enter` is the successful `TryLock` of Start, Stop, Restart, WhileStopped,
  WhileDown and StopRunning. A failed `TryLock` returns at once and changes
  nothing, so it has no action. `ForceStop` claims a free gate and goes on
  regardless of a held one.
- `StopLeg`, `GraceOver`, `SeeExited` are `serverInstance.stop`; `ForceMark`,
  `ForceKill`, `SeeExited` are `forceStop`. The captured pid and channel belong to
  one boot: `KillCaptured` of an older boot does nothing.
- `AskRunning`, `ScanDone` are `runningInstances` and the refusal of
  `startInstance`; the scan asks one instance per step and exits may happen between.
- `SetCurrent`, `BootSucceeds`, `BootFails`, `RestoreCurrent` are the rest of
  `startInstance`. A boot may always fail.
- `CheckDown`, `FnReturns` are WhileDown's test and the caller's `fn`.
- `ProcessExits`, `TearDown`, `CloseExited` are the Java process and
  `waitForExit`; the process may die in any state.

The error a call returns is not kept. `instanceFor` is left out: an instance that
was never created answers like one that never booted.

### ServerInstance

State is the instance's `mu` section (`running`, `state`, `expectedStop`, `crashed`,
`deadlineArmed`, `exited`), the poller's `stopTPS`/`tpsOnce`, and one program
counter per goroutine and boot. A channel is named by the boot that made it. The
console is reduced to the four lines the matchers act on: ready, stop, crash and
saved; the process may print any of them at any time, and one line can be in the
reader's hands when the process ends. Timers are nondeterministic: a `select` on
a channel and a timer may take the timer at any time, and the critical section
after it may come after the channel closed, as in Go. `readers` of an earlier
boot may outlive it only when `ReadersLag` is TRUE (see the findings).

`stopper` is the one gated caller that may be inside `stop()`; `forcer` a caller of
`forceStop()`. `ending` and `crashSeen` are observers: they change nothing.

Left out: players, stats and TPS figures (`ServerView` has them), the console
ring, narration, stdin, `server:state` events, Windows job objects.

### BackupSaves

One server, reduced to what the save commands meet: `server` is down, up, or
stopping (running, with its stdin closed by `stop`), `autosave` is the game's
switch and `console` what was written to stdin and not yet read. `busy` is
BackupService's entry for this server. `met`, an observer, is the set of
operations that overlap a duplication: `QuiescedBootStaysQuiet` is about the others,
and `EveryCopyIsQuiet` about all. Each call is an element of `Ops` and
walks through its own phases: `BackupBegins` claims, `Prepare`, `SaveOff`,
`Flush`, `Settle` and `Undo` are `PrepareForBackup`, `CopyEnds` the zip or the
copy however it ends, `Resume` and `SaveOn` the deferred `ResumeSaves`, and
`Release` the deferred release. `DuplicateBegins` is the same without a claim.
`RestoreChecks`, `RestoreClaims`, `SwapEnds` are `RestoreBackup`, its test of
IsRunning before its claim as in the code.

`Deliver` and `DeliverFails` are `saveCommand`: RCON, the console when RCON is not
configured or fails, an error when the console is closed too. A call RCON
reports as failed may have been carried out (`MayHaveLanded`). Two things are assumed of
the environment: the Minecraft server reads its console before it answers RCON,
and `quiesceWait` is long enough for it to read the console. `onBoot` is an
observer too: it remembers which boot a call found.

Left out: the archives (`WorldArchives` has them) and their names (`BackupMeta`), progress and narration.

### RestoreSwap

`swapWorldDirs`, with each folder's content reduced to old, new, fresh (made by
a server that found none) or none. `cur` is the dimension between two renames.
Every rename may fail; the steps whose error the code drops (`RemoveAll`, the
renames back) fail only if `BestEffortFails`; the server creates folders only
if `ServerStarts`; `Crash` ends the program anywhere, and nothing picks a swap
up again. `mishap` is an observer: an error was dropped or a folder created, after
which `AllOrNothing` promises nothing. The order of the dimensions is left open. A full-server restore is the swap of a single folder.

### Scheduler

`graphs`, `history` and `running` are SchedulerService's fields under `s.mu`;
`disk` its two files. A change and the copy it hands to the writer are one
action (`Change`), the write another (`WriteGraphs`), so two writes reach the
disk in either order. A run is a record that walks through `executeGraph`:
`Spawn` (a trigger of an enabled graph, or `RunGraphNow` of any), `Begin` (the
guard and the checks before the first node), `Node`, `LoopEnds`, `Record`,
`WriteHistory`, `Release` (the deferred delete) and `Finish` (the event, after
the graph may already run again). A node succeeds, fails or uses up the run's
time, and puts some of its successors in the queue. `Close` and `Open` are the
app's end and `SetDataDir`. `raced` is an observer: a file whose last writes
overlapped or failed.

Left out: cooldowns, the debounce of clock triggers, intervals, cron
expressions and the list of next runs, which only choose when `Fire` happens,
and what a node computes: both are `GraphRuns`'.

### RemoteMirror

An event is its number. The hub is `seq`, `ring`, `run` and the sockets in
stage `joined`; a socket goes through dialing, accepted, replayed and joined as
`handleWS` does, and `buf` is what was queued or sent on it and not received.
`Start` is `newRun`; a Stop is its critical section (`StopBegins`) and, after
the grace Shutdown may take, `closeAll` (`StopEnds`), with a Start possible
between. The page is `connectEvents`: `Dial` sends `since` and the run, a hello
that tells of a gap or of an earlier number reloads the page (`HearGap`), a
frame is dispatched once. Connections are lost with either side noticing first;
the session may be revoked. `owed` is an observer: every event the page has not
been shown, and why that might be excused.

### GraphEditor, GraphHistory

`editor` is the component's `graphId`, canvas, `graphEnabled` and `savedSig`; a
canvas is one revision number, and clean means that it equals the signature
last marked saved. A call is sent with what its closure captured (`Send`), served
by the backend (`Serve`, which may change memory and still fail on the write)
and answered (`Replies`, `Answer`) to an editor that may meanwhile hold another
graph or be unmounted. `held` is the action behind the unsaved-changes dialog,
`runAsk` the dialog before a run. `upset` is an observer: which kinds of trouble
a property excuses have occurred; `MaxUpset` bounds how many of them meet in
one run. `GraphHistory` is `graphHistory.ts` as the editor's handlers call it.

### ClientStores, ClientShell and KeptFiles

None of the modelled stores reads another, so they are composed as
alternatives: `which` (and `part` in the shell, `kept` in `KeptFiles`) is chosen once
and names the part whose actions are taken while the others rest. The state
spaces add instead of multiplying; the common invariants are those of the part
at work, so a fault in any part still violates them. `Stores`, `RunningWork`,
`TileViews` and `LodSnapshots` hold several parts each, every one with its own
Init and Next.

- `Stores`, the console: a switch reaches the hook twice, by the render and later by
  its effects; history reads are cancelled by the effect's cleanup.
- `Stores`, the schedules: `hydrate`, its guards, and the three writes that capture
  the server they write to.
- `Stores`, the loader's builds: `useLoaderStore.load` with its latest-call check and its two calls.
- `Stores`, the server list: `servers.json` and `active_server.json` with the store's copy;
  each side picks a new active server by its own rule.
- `Stores`, what is written through: the optimistic stores (settings, commands, layout) and the
  write-first ones (tile lists), with the Kommands poll as a second writer.
- `RemoteApprovals`: `Ask` with its cap, its one call to a device and its select,
  `Answer`, and the desktop's list, which is read back late and out of order.
- `RunningWork`, the rows: `useProcessesStore` fed by backend events that arrive in order and
  late; a success's row is cleared by a timer that looks again.
- `RunningWork`, the logs: the installer's guard and the jobs that take it, and how App
  files the lines of the one channel they share.
- `TileViews`, the overlay: `closeMaximize` with the tile's guard, the close animation and
  the tile queued behind it.
- `TileViews`, the tab: `GetActiveServerID` and `SetActiveServerID` as the tab answers them,
  and the list of admin calls that wait.
- `RunningWork`, the bubbles: `useNotificationsStore`'s stack of bubbles.
- `ConfigEditor`: one pane with the text it shows and the text it was read as; a
  file switch or a close goes through `Guard`, at once or behind the dialog; reads
  and the one write come back whenever they like, or fail. A text is told by
  the file it was typed for and a version.
- `RemoteAuth`: the two critical sections of `ServeLogin` around argon2
  (`LoginBegins`, `LoginEnds`), the gate's poll, the desktop's answers and removals,
  a new password, and answers lost on the way to the browser. A device is named
  by the request it came from.
- `Tunnel`: each run is a goroutine that goes from phase to phase and may report
  only while `tunnel.gen` is its own; Stop is two critical sections with the wait
  between them, called by the desktop or by a change of the listener; the host
  callbacks (`Raises`, `Lowers`) are steps of their own, as the lock is released.
- `LodSnapshots`, the snapshots: a run copies the stopped server's database part by part into the
  staging folder, writes its index and prunes; a publish sends the parts, the
  assembled levels, the index and the page, then `latest.json`, and prunes the
  bucket. Any of them may be cut off between two objects (`CutOff`).
- `LodSnapshots`, the link: a publish writes under the base its record named when it took
  the hold; a switch or a rotation copies object by object, moves the pointer
  and commits the record, then deletes the stale bases. Copies, writes and
  removals fail, and the program may end, between any two.
- `BackupMeta`: three calls that read `meta.json` whole, change one entry and write
  it whole, with no lock; `raced` excuses calls that overlapped.
- `LoaderUpdate`: `LoaderService.Update` from the judgement of the plan to the saved
  configuration, with the copy of the launch files, an installer that writes as
  much as it likes before it fails, the check, and the rollback. The user edits
  the configuration and starts the server meanwhile.
- `ModFolder`: all files are builds of one mod, so any two of them switched on are
  the duplicate the server refuses. `Install` is a step per rename and per write,
  each of which may fail; `undo` and `restoreSuperseded` may fail too. The scan
  decides by the folder's signature before it takes the lock (`ScanLooks`,
  `ScanAsks`). `Seen` is what a signature tells of one file: its name without the
  suffix and its content, so a file put back as a scan saw it is not looked at
  again whatever else has changed. `doubt` is an observer: why a row, the kept
  answer or a scan's memory may be wrong (another file put where a row was; a
  toggle that met the other name of its jar, or the row of a file long gone; an
  unreadable jar or one put back; an answer older than its reset).
- `ConnectorSignIn`: `serveConsent` is two critical sections around argon2 (`Submit`,
  `Verified`), then the desktop's answer, the wait page, the code and the refreshes,
  each reply of which may be lost. `doubt`, `lingering` and `overlapped` are observers.

### Host work

`HostWork` composes thirteen parts of seven modules the same way; `work` names
the part, and `HostIsSound` is the conjunction of their promises. Its constants
are declared with their assumptions; `MCHostWork` gives them small values.

- `SelfUpdate`: releases are cut and the rolling snapshot is deleted and made
  again while the About pane checks, asks twice and installs; an install resolves
  the release anew, fetches checksums, asks for provenance, downloads, moves the
  executable aside and the new one into place, and relaunches.
- `Uploads`, the destinations: the list and the secrets are two stores; a form
  saves, a row is deleted or opened, and lists are read back. Ids are random, so
  a new one is never an old one.
- `Uploads`, the bucket: a folder is sent in puts and multipart uploads, with
  retries, pages of the listing and a prune in chunks, beside edits of the folder
  and another writer of the bucket.
- `ModBrowser`: a search with its pages, timers and frames; the walk over the
  dependencies, what is ticked and what is installed; the panel of one mod whose
  details and versions are two calls.
- `GraphRuns`, a run: flow edges choose the next node, data edges are evaluated
  when a node needs them, and an output once made is kept for the run.
- `GraphRuns`, the triggers: a minute, an hour and a day are small; the ticker comes
  late or not at all, the wall clock is set back once, and the next run shown is
  a promise (`promised`).
- `WorldArchives`: folders of worlds and their nethers with `<<origin, age>>` as their
  data; an archive is what was zipped, read by its name. `mishap` and `blended`
  are observers.
- `ServerView`: lines of the console meet the roster, answers of RCON the figures,
  and the properties file the limit; a line or an answer may be handled after its
  boot.
- `OAuthGrants`: registrations with their caps and their expiry, metadata
  documents, the request a consent is about, exchange, refresh, replay, expiry and
  revocation, with saves that fail and a restart that reads `remote.json`.

A registration's last use is kept in memory only, so a restart ages it
(`remote_oauth.go`); a bearer may outlive its grant's ninety days by up to its own
hour, until something prunes; the end a replay puts to a grant is undone by a
restart if it could not be saved. `GrantsAreSound` says what holds beside these.

## 3. Runs

| Run | Configuration | Shows |
|---|---|---|
| `manager` | 2 servers, 2 callers, 2 boots each, fairness | the manager's safety properties, its use of the contract, and that every call returns |
| `instance` | 2 boots, readers drained between them | the instance's safety properties and the refinement |
| `instance_live` | 1 boot with RCON, fairness | stops return, starting resolves, crashes end, the contract's liveness |
| `backups` | 2 backups, 1 duplication, 1 restore, 3 boots | a quiesced boot stays quiet under a claim; autosave comes back |
| `restore_swap` | 3 dimensions, everything may fail, a server may start | an old world is never lost; without a mishap all dimensions are replaced or none |
| `mirror` | 2 sockets, ring and send buffer of 2, 3 events, 2 starts, 1 trouble, fairness | a page loses an event only in the handshake or with nobody listening; revoked sessions go quiet; pages catch up |
| `editor` | 2 graph ids, 1 edit, 1 call in flight, 1 kind of trouble | nothing unsaved is replaced unasked; clean is what the backend holds |
| `scheduler` | 2 graphs, 2 runs at once, 3 moves, 1 restart, 3 nodes, fairness | one run per graph; disk is memory; every run settles |
| `client` | each store, shell part and kept folder in turn, 2 servers | views show their server, copies are true, the shell's parts and the kept files keep their promises (2.4 million states, two to three minutes) |
| `host` (`MCHostWork`) | each of the thirteen parts in turn | what the host does for clicks and its clock is sound (`HostIsSound`; 2.3 million states, three to four minutes) |
| `late_crash_line` | 2 boots, readers lag | finding 1 |
| `mirror_silent_hole` | as `mirror` | finding 2 |

**Bounds.** `MaxBoots` caps how often a server is spawned. Two boots are what a
confusion of boots needs: an old goroutine and a new process. Two callers allow
a gated action beside a ForceStop or a refused second call; two servers are
what "one at a time" needs. The manager's theorems hold for any number of each.
Three boots in `BackupSaves` let a call begin on one, flush on the next and
resume on a third. Three dimensions are all a world has.

Two sockets let a page reconnect while the server still holds the old
connection; a ring and a buffer of two events overrun with the third; two runs
are what a number from another run needs. In `GraphEditor` one call in flight
beside an action of the user is what most hazards need, and two ids an old and
a new graph; it also passes with both graphs saved at first (`SavedIds = 2`, 5
million states), while two calls at once make it too large to finish. In
`Scheduler` three moves are a save beside two runs, or a run beside two
changes; three nodes reach the cap by a cycle, and a history of one record
trims at the second run. In `client` each part has the fewest elements that let
its own race happen (`MCClientStores`; the theorems are for any number): two servers to switch between, three replies of one store
in flight, two writes, a history of three entries with five revisions, two
remote devices and one place on the desktop's list (`MaxAsks = 3` passes too, run
by itself), two kinds of job with two timers a row. The config editor has two
files, two texts typed and two reads under way; a sign-in two browsers, two
requests with one place among them and one change of password; the tunnel two
runs, one call of the desktop beside one change of the listener, and one name,
set at first or not, so that a run can be stopped, replaced and renamed.
In `LodSnapshots` a snapshot has two parts, and of three one is kept, so that a
prune meets a part that is still referenced and one that is not; the link one
prefix, two tokens and two snapshots; `BackupMeta` two archives and two calls;
`LoaderUpdate` two launch files, there at first or not, two updates and one edit;
`ModFolder` two names with a build each and one foreign build, two calls or scans
and one file put there by hand, while no install runs; `ConnectorSignIn` two
sign-ins, four tokens and one change of password.

In `host` (`MCHostWork`; the theorems of seven parts are for any number): four
builds of two channels and two installs; two destinations, two
saves and two readings of the list; two files, two attempts a request, pages and
chunks of two; three searches, two dependencies, two mods with four clicks; runs
of four nodes over three edges of a kind, which is a loop, a data edge and a way
out; a clock of three ticks a minute, two minutes an hour and three hours a day;
two worlds, two drawn names, two archives, four steps; two players, boots and
connections; and one client, one grant, an unused registration's life of one
step and a grant's of two. A larger `OAuthGrants` (5.7 million states) holds too.

The proofs' invariants were checked with TLC before they were proved, on the
run's own instance and on larger ones: `GraphEditor` with two and three calls in
flight (no error in 15 million states), `RemoteMirror` with a send buffer of
three, four events, three starts and two troubles (no error in 24 million).

**Symmetry** is used nowhere: most runs check liveness or use constants that are
compared.

**Fairness.** Weak fairness of each caller's own progress, of each goroutine, and
of the death of a process that was sent a kill: the Go scheduler runs runnable
goroutines, timers fire, and SIGKILL cannot be refused. Nobody is made to call
anything, and no process is made to print, to exit or to honour a SIGTERM.
`FnReturns` is among a caller's progress: the snapshot code handed to WhileStopped
bounds its own copy by a context. In `RemoteMirror` the handlers, pumps and
pings of every socket, the page's timers and handlers, and a Stop or revocation
under way go on; nobody is bound to emit, start, stop or lose anything, and
`CatchesUp` speaks only of a listener that stays up. In `Scheduler` each run goes
on: every node is cut off by its own time limit; writes of graphs, saves and
restarts are nobody's duty.

**Deadlock** is checked in `manager`, `instance`, `instance_live`, `backups` and
`editor`, where somebody can always act. A restore ends; in `mirror`, `scheduler`,
`client` and `host` the bounds on events, moves, values and calls may all be used
up with nothing on its way, which is rest and not a wait.

Every property of a passing run has a mutant in `PROJECT.json`: one change of one
definition that a plausible bug would make (a gate not looked at, a flag not
reset, a channel read again instead of captured, silence taken for leave) under
which TLC finds the property violated.

### Findings

Each is a run expected to end in a violation of a sentence the repository
itself states.

1. `late_crash_line` - `server.go:1060` says a line from a process that has gone arms
   nothing. `start` waits for no reader, and a crash line of the previous boot
   marks the new boot crashed and arms its exit deadline. All other runs take the
   readers as drained (`ReadersLag = FALSE`), so that their properties say what holds
   when this does not happen.
2. `mirror_silent_hole` - `remote_ws.go:17` promises a page that reconnects what it
   missed, in order. `handleWS` queues the replay and joins the hub afterwards
   (`280`): an event published in between reaches the page by neither way, and the
   next live one moves the page's number past it. `HoleOnlyInHandshake` says that
   this, and an event emitted with the listener down under a page whose socket
   is still open, are the only silent losses.

### What else does not hold

These are properties of the modules, marked "Known not to hold" where they are
defined; TLC finds each violated, and no run of the suite repeats it.

- `ServerInstance.RunningThroughStopping` - `models/server.go:43-46` says Running is true
  through stopping. `watchExitDeadline` (`server.go:1083-1090`) tests only that
  `s.exited` is still its boot's channel, which stays so after the exit. If the timer
  fires as the process ends, the machine goes offline and then back to
  stopping, with `running` false, until the next start.
- `ServerInstance.PollerStopsWithItsBoot` - `server.go:1103-1104` relies on `waitForExit`
  to stop the TPS poller. It does so before the section that leaves starting
  (`842`, `844`); a Done line read in between arms a poller nobody stops, until the
  Once is spent by a later boot, and then on that boot's channel.
- `BackupSaves.EveryCopyIsQuiet` - `worlds.go:248-250` says saves are paused around a
  duplication's copy. `DuplicateWorld` takes no claim (`worlds.go:275`), so it and a
  backup can overlap, and the first to end turns saves on under the other.
- `BackupSaves.CopyIsNeverLive` - `server.go:1438` says a copy of a server found down
  is safe as it stands. No power gate is held through the copy, so the server can
  be started under it, and the backup reports success.
- `RestoreSwap.KeptMeansKept` - `backup.go:915` reports "previous state kept".
  `RestoreBackup` tests IsRunning once (`708`). A server started between the rename
  aside and the rename into place creates the missing folder; then neither the
  new folder nor, in the rollback, the old one can be renamed onto it. The old
  world is not lost: it is in its `.bak` folder.
- `GraphEditor.CleanIsLastSaved` - a clean editor shows the last thing saved. Choosing
  the graph's own row with unsaved changes, then "Save & continue", loads the
  graph captured before the save and marks it clean (`GraphEditor.tsx:1231`,
  `1372`, `1376`, `graphMapping.ts:130`).
- `ModBrowser.InstallsWhatIsShown` - what is installed is a version of the mod on
  screen. Opening a mod from another's panel keeps the other's versions
  (`ContentDetailPanel.tsx:83-88`), and an answer to `selectProject` or `getVersions`
  that comes late is shown under whichever mod is there (`useMods.ts:269-331`).
- `ClientStores.LinesReachTheirLog` - `App.tsx:503-505` says an install and an update
  "can never run at once". An update holds the installer's guard for one of its
  steps only: an install begun before the update claims it runs beside the
  update's backup and download, and its lines are filed in the update's dialog.
- A watcher that outlives its boot is in `ServerInstance` too (`PromoteStarting`): once
  its timer has fired, `watchStarting` tests only `state == starting`
  (`server.go:1347-1351`) and may promote the next boot.

Read in the code while modelling, and excused by an observer or left out:

- *Editor* (excused by `upset`): a save's reply gives its graph's id to whatever
  canvas is there by then, so the next save overwrites that graph with another's
  canvas; replies to delete, duplicate and "Save & continue" replace a canvas
  edited meanwhile without asking; a failed toggle reverts the switch of another
  graph; Cancel during "Save & continue", followed by another held action, lets
  the old reply perform the new action. The Delete key records two undo steps
  (`GraphHistory.DeleteKey`).
- *Stores*: `useServerStatus.refresh` (`63-74`) has no check that the server is still
  the active one, though the comment below it is about that very lie (not
  modelled). A console history that arrives late can drop lines shown before it
  or repeat buffered ones (lines are told apart by server only).
  `useSchedulerStore.hydrate`, switched from A to B and back, may take the older of two
  reads of A. Two optimistic writes at once, the first refused and the second
  accepted, leave the screen before both (excused by `crossed`).
- *Scheduler*: a run of exactly 500 nodes that ended by itself is recorded as
  aborted; last-fire times are lost at a restart; overlapping writes can leave an
  older list in the file (excused by `raced`).
- *Mirror*: a page whose first hello had number 0 reconnects without `since`; a
  socket added after `closeAll` outlives Stop.
- *Approvals*: two refreshes whose replies change places leave an old list on the
  screen until the next change (excused by `stale`); an "allow" that was accepted can
  still be turned down when the timeout wins the select; a prompt whose answer
  came too late says the call is still waiting when it is gone.
- *Rows*: progress makes a mod's row only when it has none, so an install after a
  failed one shows the failure until it ends; the timer of an earlier success may
  clear a later one early; two installs on one server share a row.
- *Overlay*: edits made during the 130 ms of the close animation are lost (`late`), and
  Escape does not take a queued tile back.
- *Config editor* (excused by `upset`, past which a behaviour is not followed):
  Cancel or Escape during "Save & continue" leaves the save's reply to mark the
  pane clean (`tiles/config/index.tsx:128`), whatever was typed since, and the next
  switch goes unasked; a save's reply that crosses a switch of file becomes the
  other file's original; a file left and chosen again takes the older of its
  two reads, over what was typed.
- *Sign-in* (excused by `overtaken`): a session whose password was found right before
  `SetPassword` is issued after it, and outlives the old password
  (`remote_auth.go:278`).
- *Tunnel*: Stop's second section (`329-334`) does not look at the generation again, so
  a Stop that ends after the next Start reads off, and forgets the host, of a
  run that goes on (excused by `overtaken`); `StartRemoteTunnel` reads the address and
  then starts, and the listener may stop in between (excused by `blind`); a
  cloudflared that does not die in time outlives its Stop (`unending`).
- *Mods* (`ModFolder`'s last three definitions, found violated): `modservice.go:358`
  says a failed install leaves "one jar, and a manifest that agrees", but a
  download that took the place of a file of its own name (`682`) leaves none when
  it is undone, and a new file whose predecessors cannot be moved aside stays
  beside them (`348-352`); `481` says "one enabled copy is enough to keep it
  enabled", but the one the download overwrote is not counted, so with a
  switched-off twin the new file ends switched off; a jar the scan reads while it
  is still being copied is marked as asked about and stays local
  (`modidentify.go:174`). An install of several builds that fails at a later one
  does not clear the kept answer; `SetEnabled` does not either, and the answer's
  file name then matches no row.
- *Connectors* (`ConnectorSignIn.FailedRefreshChangesNothing`, found violated): a
  refresh whose save fails (`remote_grants.go:268`) leaves the new token in memory,
  and the client's next try with the one it holds is taken for a replay and ends
  the grant.
- *Loader updates*: a failed update of an install without launch files is reported
  with "Nothing was changed in the server folder." (`LoaderUpdateDialog.tsx:145`)
  whatever the installer wrote; the update saves the configuration it read at its
  start, undoing edits made meanwhile and adding a deleted server again; the
  server can be started during an update (`loader.go:208` asks once).
- *Backups' names*: a delete that cannot remove the archive has already forgotten
  its flag; two overlapping calls may lose one's change (excused by `raced`).
- *Snapshot link*: a base that was live again when a later commit ended stays on the
  list of stale ones and is deleted with the next, with two prefixes on one
  destination; a copy whose removal fails, and an old link whose base could not
  be dropped, answer until the next change (`docs/distant-horizons.md:139`,
  `222-223`).
- *Self-update*: the install resolves the release again, so a confirmed stable offer
  may install a snapshot republished under the same name; two installs, one
  after the settings were closed, may leave half an executable; the relaunch may
  be refused by the single-instance lock of the program it replaces.
- *Destinations*: a click on another row's Edit while a Save runs lets the first
  save's `onClose` close the second form; a refresh does not look whether it is
  the latest; opening a destination reads its row and its secret in two holds of
  the lock.
- *Uploads*: a file edited without a change of size is skipped; a
  CreateMultipartUpload whose answer was lost leaves a half-built upload behind; a
  CompleteMultipartUpload repeated after a lost answer is refused, so an upload
  that is whole is reported as failed.
- *Mod search*: an answer to an earlier search during a turn of the page drops the
  new page's results; a page turned within two frames of a commit loses its exit
  timer, and the grid freezes; the timer that first shows results can be cancelled.
- *Dependencies*: a project offered as optional first is not brought along when
  another requires it later; what a ticked optional one needs is not walked; a
  cycle back to the root adds the root's newest build.
- *Graph runs*: the Math node's remainder by a number between 0 and 1 divides an
  integer by zero and panics (`scheduler_blocks.go`, `execMathOp`); a data node in a
  loop keeps its first value; an attribute that is defined by itself has no
  value; a graph that fails validation leaves no record.
- *Triggers*: a late tick may skip a minute, or let an interval of N minutes take
  N + 1; after the clock was set back, a daily trigger that fired already is
  announced again and does not fire; one switched on just before a tick
  announces the run after it; sleep and restarts lose runs and cooldowns.
- *Worlds* (excused by `mishap` or `blended`): a rename onto a name whose nether
  exists, or one that fails half-way, leaves the overworld renamed, the nether
  behind and `level-name` old; a delete or duplicate cut off half-way leaves a
  nether that a later world adopts; an archive with one root mixes dimensions
  (by design); a world's archive put among the whole-server ones by hand is read as
  one of them; without a `level-name` the view of a server's archive marks no world
  active; a nether without `level.dat` is archived and not listed.
- *Roster*: a line handled after the teardown leaves a player nobody sees leave in the
  next boot (`server.go:712`).
- *Figures*: a poll that outlives its boot stores an old TPS, or the old core's
  flavor (`server.go:1167`); the poll's period equals the fifteen seconds a figure is
  fresh, so a figure falls back to the log's 20; `status()` reads players and TPS
  after it let go of `mu`, though `server.go:896-903` says the two cannot mix.
- *Install*: opening another installer during an install resets its phase, and its
  remaining lines are dropped.

## 4. Proofs

`ServerManagerProofs` proves, for every set of servers and callers and every
`MaxBoots`, from `ManagerAssumption` alone (the placeholder and nil are not
servers or callers):

- `TypeCorrect`, `OneServerTheorem`, `GateTheorem`, `FnTheorem`, `RestartTheorem`,
  `CurrentTheorem`: the manager's invariants;
- `AwaitedTheorem`: the action property `AwaitedBootIsGone`;
- `ContractTheorem`: `InstancesKeepContract`, the refinement of the manager's
  servers by `InstanceContract`.

None of the invariants is inductive. `OneServerAtATime` needs to know that a caller
about to boot has seen every server down *and* that nobody else can have booted
one since; that needs the gate, which needs that a caller inside a gated action
owns it; and Restart's claim needs that a closed `exited` channel means a boot
that is gone. `IInv` is the conjunction of four named parts:

- `TypeOK`;
- `GateInv`: who may be where. A caller outside any call is idle, one inside has
  a server as its target, a force stop is only in its own phases, the phases of
  a start belong to Start, Restart and WhileStopped, and a gated call in
  progress holds the gate;
- `RunInv`: what a caller knows of the servers. A running server's process and
  flag agree and its latest boot's channel is open; a caller's scan so far has
  missed no running server; nothing runs before a boot; the boot a stop awaits
  is the latest one; Restart's and WhileStopped's server stays down after their stop leg;
- `CurrentInv`: a caller about to boot remembers the last `current`, and
  outside a boot `current` is the last server that started.

`StepCases` splits `Next` once; `TypeStep`, `GateStep`, `RunStep` and
`CurrentStep` each show one part preserved, one step per action; `Inductive`
combines them into `Spec => []IInv`, and the theorems are read off it.
`OnlySeeExitedEndsTheWait` and `CallerSteps` serve the action property and the
refinement.

`BackupProofs` proves of `RestoreSwap`, for any set of dimensions, from
`SwapAssumption`:

- `SwapTypeCorrect` and `OldWorldTheorem`: whatever fails and whatever a server
  creates. `OldWorldNeverLost` is not inductive: moving a folder aside is harmless only
  because nothing is aside of a dimension the loop has not come to
  (`UntouchedInv`), and the cleanup only because a completed swap still shows the
  new folder (`DoneInv`), which needs `cur` to mark the one dimension between two
  renames (`CurInv`). `KeptInv` then follows the old folders from phase to phase.
- `AllOrNothingTheorem`: until a mishap, `AtomInv` says of each dimension that it
  is as it was, moved aside, or swapped.

`HostProofs` proves of `Scheduler`, for any graphs and any number of runs in flight, moves,
restarts, nodes and records kept, from `SchedulerAssumption`:

- `SchedulerTypeCorrect`: types, and with them that no history outgrows its cap
  (`CappedIsHistory`) and no run its number of nodes (`PassIsRun`);
- `OneRunTheorem`: `OneRunPerGraph`, which is inductive: the running map is the
  image of the runs past the guard, so a run let in finds no other, and one let
  out takes nothing but its own graph from the map;
- `DiskTheorem`: `DiskIsMemory`, which is not. `SavesInv` and `RecordsInv` say what
  a file not `raced` is on its way to be: at most one write is under way and it
  carries what memory holds, or none is and the disk has it. A closed app has no
  write under way, which is why it may open with what the disk holds.

`ServerInstanceProofs` proves, for any number of boots, from
`InstanceAssumption`:

- `InstanceTypeCorrect`, `ResurrectionTheorem`, `CrashTheorem`, `ReturnTheorem`: with or
  without RCON, and whatever readers an old boot leaves behind;
- `HealthTheorem` and `DeliberateTheorem` for `~ReadersLag` only: with lagging readers
  `HealthyServerNeverKilled` is false, which is finding 1;
- `InstanceContractTheorem`: `KeepsContract`. Every step of every goroutine is, under
  the mapping, a step of `InstanceContract` or none.

The invariant has seven parts. `BootsInv` orders the boots: one to come has left no
trace, every earlier one is past its teardown, the latest is past exactly when
`running` is false. `ExitsInv` follows the waiter: past its wait the process is dead,
and the channel it closes is its own boot's, after the stopped event. `CallersInv`
says a stop awaits a boot that was; `CrashInv` that `crashed` outlives the line
that set it; `HealthInv`, without lagging readers, that whoever is about to signal
the latest boot, or has a line that leads to a signal, has a reason in `ending`.

`BackupProofs` proves of `BackupSaves`, for any sets of backups, duplications and restores and
any number of boots, from `BackupAssumption`:

- `BackupTypeCorrect`, `QuietTheorem` (`QuiescedBootStaysQuiet`), `AutosaveTheorem`
  (`AutosaveComesBack`). The autosave alone is not inductive: what counts is how it
  will stand once the console has been read. `EndsOff` and `EndsOn` look at the last
  save command waiting there; `QuietInv` says that a copy that met no duplication and
  has had its save-off delivered leaves it off, `BackInv` that it ends on or somebody
  still owes the save-on. Both rest on `ClaimInv` (who holds the claim), `MetInv` (who
  met a duplication) and `PausedInv` (what a copy in its commands knows of the boot).

`RemoteMirrorProofs` proves, for any sockets, buffer sizes, events, starts and
troubles, from `MirrorAssumption`:

- `MirrorTypeCorrect` and `HoleTheorem` (`HoleOnlyInHandshake`). The promise to an event
  that is owed without an excuse is `Kept`: it is in the ring or in the queue of the
  page's socket ahead of anything that would move the page past it, or a hello
  that tells of a gap is. To keep it through a step one must know the ring has no hole
  (`RingInv`), the page is never ahead (`PageInv`), a socket carries what the page
  still knows (`ConnInv`), and frames ascend in a queue behind its hello
  (`QueueInv`); `StopsInv` keeps runs apart.

`GraphEditorProofs` proves, for any number of graphs, edits, calls in flight and
kinds of trouble, from `EditorAssumption` and `NilAssumption`:

- `EditorTypeCorrect`, `WorkTheorem` (`NothingLostUnasked`), `CleanTheorem`
  (`CleanIsSaved`). Short of what `upset` excuses, calls beside the switches of other
  graphs come one at a time from the editor still there (`AloneInv`), so a reply that
  replaces the canvas meets the revision it was sent with (`WorkInv`). `CleanIsSaved`
  is about three copies: `IdsInv` keeps calls on different graphs, `StoreInv` has the
  store agree with the backend but for the replies on their way, `ShownInv` the
  editor with the store.

`ClientStoresProofs` and `KeptFilesProofs` are about `ClientStores`, for any
constants that meet its assumptions. These say which numbers the code makes
positive (a history keeps a step, a list is read when it is mounted, there is a
password from the start, there is room for a bubble), which names differ
(`"unset"` is no server, a quick tunnel's host is no name of the user's, no build is
half of one), that the installer's script is a launch file, and that `Nil` is none
of the values it stands beside. `StoresAssumption` and `HistoryAssumption` are about
the stores.

- `StoresTheorem` (`StoresAreTrue`). Each store has an invariant of its own and a step
  touches one store (`StepOfOne`). `ConsoleInv`: a history read that counts is of the
  server the effects last ran with. `SchedulesInv`: what is being fetched is a
  server's. `PanelInv`: at most one load is the latest, and it is the panel's.
  `ConfigsInv`: the disk is ahead of the screen by exactly what the one call in
  flight will change when it is answered (`Ahead`), and both sides' rules for the next
  active server pick the same from the same list. `WrittenInv`: the screen and the
  disk are the two ends of the one write in flight (`Pair`). `HistoryInv`: past and
  future are in order around the canvas or, in a drag, around what the drag began
  with, and share the room of one history. `Climbs`, `Falls`, `UpTo` and `DownTo` are
  about sequences, with one lemma for each way `graphHistory.ts` changes one:
  `OnTop`, `TopOff`, `EndOfSeq`, `PushedPast`, `TurnedAround`.

- `ShellTheorem` (`ShellIsSound` of the nine shell parts). One part moves at a time
  (`OnePartMoves`), and each has an invariant of its own. `ApprovalsInv`: the answer a
  call carries is the first it was given, the list is bounded, and the newest
  reading is the list. `RowsInv`: a row is what its job's last event or the events
  still on their way make of it. `LogsInv`: whether an update runs when a line is
  delivered is decided by the lines ahead of it (`RunsAt`), so a line that names its
  job is filed in that job's log; `RunsAtAppended` and `RunsAtDelivered` say how the
  queue moves. `ReachInv`: until a Stop is overtaken, the host the listener allows is
  that of a run that holds it, a process that answers is known to the run that
  spawned it, and a Stop under way knows its run. `EditorInv`: until something
  excused has happened, the text on the pane is of the file it is about, whichever
  reads and writes are out. `AuthInv`: who waits has asked, a verified login had the
  password of its time, and a session's device was approved.
- `KeptTheorem` (`ShellIsSound` of the six parts that keep files). `SnapshotsInv`: what
  an index or `latest.json` names is there, in the staging folder and in the bucket,
  and an interrupted publish has taken nothing away. `LinkInv`: what is published is
  under the live base, a change has copied what it says it copied, every base that
  answers is live, noted as stale, or the target of the change. `MetaInv`: one call
  at a time that is not `raced` carries what the file says. `LoaderInv`: an update
  under way holds the launch files it will put back. `ModsInv`: an install knows
  which files it moved aside and how the folder was (`InstallsGo`); a row is of the
  build under its name (`RowsHold`); a file a scan saw is accounted for (`SeenHolds`);
  an answer that is kept is of the rows as they are (`CacheHolds`). `ConnectorsInv`: a
  grant follows its consent, a code is used once, and both copies of the grants -
  in memory and in `remote.json` - were earned with the password they are kept with.
- `KeptTheorem` asks for one prefix when the part at work is the link (`OnePrefix`):
  with two prefixes on one destination a base that becomes live again is still
  noted as stale, which section 3 lists as not holding. `PartsTheorem` is
  `Spec => []ShellIsSound` under that one condition, which holds of every
  installation with one server that shares snapshots.

Several of these invariants corrected the model before they were proved: TLC
found `RowsHold` not to follow a toggle onto the row of a vanished file, and
`SeenHolds` not to survive a file put back while the folder differs elsewhere;
both are doubts the code really has (`modidentify.go:107-117`, `modservice.go`'s
toggle), and `RowsAreTrue`, `QuietFolderIsKnown` and `CacheIsCurrent` now excuse these
alone.

`HostProofs` proves `HostTheorem`: `HostIsSound` of seven of the thirteen jobs of
`HostWork` (`ProvedJobs`), for any constants that meet `KonnektAssumption`,
`PlacesAssumption`, `BrowserAssumption`, `FiguresAssumption`, `LimitAssumption` and
`GrantsAssumption`. These say that what is counted is counted in naturals, that at
least one flavor is asked and one sample kept, that an access token does not
outlive the rest a grant is given (in the code an hour and thirty days), and that
`Nil` is none of the values it stands beside. One job moves at a time
(`OneJobMoves`), and `HostInv` gives each an invariant of its own.

- `KonnektInv`: what an offer, a confirmation and each call under way hold was built
  after the program that runs, and carries an attestation from the moment the call
  asked for one; a snapshot is held only where snapshots were chosen. The channel can
  change under a call, so `Settled` says what its answer may still rest on. The
  program on the disk is the one in memory, one that fits, or none in the moment
  between two renames of two calls.
- `DestInv`: the secret kept for an id is that of its row's account, unless two saves
  crossed or a save was torn (`SecretsFit`); a reading on its way tells what is stored
  but for the ids changed since it was taken (`ReadingsFit`, `ListsFit`); an opened
  form knows the row it read (`OpeningFits`).
- `SearchInv`: the turn of a page that is on has its exit timer or its answer still to
  come (`TurnHolds`, `TimersRun`), answers are at most as new as the last search
  (`SearchesAreInOrder`), tiles stay hidden only while frames are owed
  (`TilesAreAwaited`), and so with the panel (`PanelFits`).
- `DetailInv`: a job belongs to the mod the panel shows, unless a click strayed.
- `FiguresInv`: a poller has captured a boot that was and at most the latest
  (`PollersAreTimely`); a figure shown as fresh was taken in the boot it is shown for
  (`FiguresAreTimely`); samples leave the ring in the order they came (`RingIsInOrder`).
- `LimitInv`: a reading of `server.properties` under way has what the file holds and
  the boot began with among what it had seen.
- `OAuthInv`: a grant, in memory or on the disk, unless its last change was not
  written (`doubt`), is that of the last token handed out for its sign-in, and a
  sign-in without a grant has only tokens past their time (`GrantFits`, `Dead`);
  registrations keep the metadata they were told (`ClientsFit`), tokens are of codes
  that were traded once (`HandFits`), and no list outgrows its cap (`GrantsAreFew`).

**Model-checked only:** liveness, which is out of the prover's reach here
(`EveryCallReturns`, `StopsReturn`, `StartingResolves`, `CrashedProcessEnds`,
`KeepsFairContract`, `RevokedGoesQuiet`, `CatchesUp`, `EveryRunSettles`), and
`HostIsSound` of six jobs. What the roster says depends on where a pipe line's names
end, a run and the dependencies of a mod on a walk over a graph, and a bucket on a
fold over the objects listed: induction over data. The triggers compare a clock by
its remainders, which the SMT solver cannot do for divisors that are constants of
the model. The worlds are within reach and not proved yet.

## 5. Not modelled, and the plan

The share of the code the map names is small when it is counted in lines of
TypeScript: most of those lines draw (`SettingsModal`, `Toolbar`, `Dashboard`, the
tiles), are generated (`wailsjs/`), or format and lay out, and hold no state
that two actors share. What they do keep - what is open, what is asked, what is
on its way - is in `GraphEditor`, `TileViews` and the stores. The Go services,
where the interleavings are, come first.

Left out on purpose: websites, demo, scripts and generated bindings; network
protocols, request signing and parsing (RCON packets, NBT, jars, properties);
expressions and blocks of the scheduler; rendering, drag and drop, fonts and
themes. Their data is not what a model checker is for.

Left out of modelled parts: two servers that publish to one prefix, two prefixes
of one destination, a staged snapshot measured against one destination and sent
to another, levels and sizes; the whole-server backup before an update; the two
folders of a hybrid loader, and files put into a mods folder during an install;
scopes and PKCE; the end dimension; icons and sizes of worlds.

Still to do, most important first:

1. The worlds' part of `HostIsSound` for more than a small instance.
2. `RemoteAuth`, `ConnectorSignIn` and `Tunnel` composed at `SetPassword` and
   `ForgetHost`.
3. `EventBus`: taps in order, subscribers in none, composed with the events of two
   boots of an instance.
4. Installs of new servers (`installer.go`), and the order of a quit.

The suite is kept at a dozen runs, so that all of it can be run after every
change: a new component joins an existing composition or takes the run of a
finding that the code has outgrown.
