------------------------------- MODULE Stores -------------------------------
(* The frontend's stores that show a server or keep a copy of the disk: the  *)
(* console, the schedules, the loader's builds, the server configurations    *)
(* and what is written through.  None reads another's state; each has its    *)
(* Init and Next.                                                            *)
EXTENDS Naturals, FiniteSets, SequencesExt

CONSTANTS
  Servers,                             \* server ids
  Nil,                                 \* the empty id
  MaxReplays,                          \* bound on GetConsoleHistory calls in flight
  MaxCalls,                            \* bound on the fetches, and on the writes, in flight per server
  MaxLoads,                            \* bound on the loads in flight told apart
  Edits,
  MaxValues,                           \* bound on the values ever written
  MaxWrites                            \* bound on the writes in flight

\* The empty id is no server's; the bounds are numbers.
ASSUME StoresAssumption ==
  /\ Nil \notin Servers
  /\ {MaxCalls, MaxValues} \subseteq Nat

VARIABLES
  ref,                                 \* activeIdRef.current
  effected,                            \* the id the hook's effects last ran with
  lines,                               \* owners of the lines useConsoleStore holds
  pending,                             \* owners of the lines buffered for the next flush
  replays,                             \* history reads in flight, and whether they still count
  tile,                                \* the server a scheduler tile is mounted for, or Nil
  server,                              \* serverId
  graphs,                              \* the servers the listed graphs belong to
  hydratedFor,
  fetching,
  fetches,                             \* per server, the hydrates waiting for the backend
  mutations,                           \* per server captured, the writes in flight
  statusFor,                           \* the server the slot was last asked about
  status,                              \* whose status the slot holds, or Nil
  versions,                            \* whose version list the slot holds, or Nil
  loading,
  loads,                               \* loads in flight: what they have so far, and whether
                                       \* they are the latest
  stored,                              \* servers.json
  storedActive,                        \* active_server.json
  configs,                             \* the store's configs
  activeId,                            \* the store's activeId
  calls,                               \* the store's calls in flight
  unsure,                              \* a call failed, or two were in flight at once,
                                       \* since the store last loaded everything
  optimistic,                          \* which of the two kinds of store this is
  value,                               \* what the store holds
  disk,
  made,                                \* how many values have been made
  writes,                              \* writes in flight: what they write and captured
  reread,                              \* where a reload is: "no", "asked", "answered"
  answer,                              \* what the reload read
  crossed                              \* two of these were under way at once

(* The console hook and its store (frontend useConsoleSync.ts,             *)
(* useConsoleStore.ts).  The hook is mounted once and outlives every server *)
(* switch.  A switch reaches it twice: the render moves activeIdRef, which  *)
(* is what the long-lived log:line listener reads, and React runs the       *)
(* effects some time after that.  Lines are told apart by the server that   *)
(* wrote them only; a line of no server in particular has owner Nil.        *)
Ids == Servers \cup {Nil}

ConsoleTypeOK ==
  /\ ref \in Ids /\ effected \in Ids
  /\ lines \subseteq Ids /\ pending \subseteq Ids
  /\ replays \subseteq [of : Servers, live : BOOLEAN]

ConsoleInit ==
  /\ ref = Nil /\ effected = Nil
  /\ lines = {} /\ pending = {} /\ replays = {}

\* App renders with another active server.
Render(s) ==
  /\ ref = effected /\ s # ref
  /\ ref' = s
  /\ UNCHANGED <<effected, lines, pending, replays>>

\* The cleanup of the previous effect: its replay no longer counts.
Cancelled(rs) == {[r EXCEPT !.live = FALSE] : r \in rs}

\* The effect of the switch: the previous replay is cancelled, the console and
\* the buffer are cleared, and the history of the new server is asked for.
Switch ==
  /\ ref # effected
  /\ Cardinality(replays) < MaxReplays
  /\ effected' = ref
  /\ lines' = {} /\ pending' = {}
  /\ replays' = Cancelled(replays)
                  \cup (IF ref = Nil THEN {} ELSE {[of |-> ref, live |-> TRUE]})
  /\ UNCHANGED ref

\* A log:line event of server s, or of none.
HearLine(s) ==
  /\ s \in {Nil, ref}
  /\ pending' = pending \cup {s}
  /\ UNCHANGED <<ref, effected, lines, replays>>

\* The 150 ms flush.
Flush ==
  /\ pending # {}
  /\ lines' = lines \cup pending
  /\ pending' = {}
  /\ UNCHANGED <<ref, effected, replays>>

\* A history arrives, possibly empty, and replaces what the console holds.
ReplayLands(r) ==
  /\ replays' = replays \ {r}
  /\ IF r.live THEN \E history \in SUBSET {r.of} : lines' = history
               ELSE UNCHANGED lines
  /\ UNCHANGED <<ref, effected, pending>>

\* The read failed (readOr): the console stays as it is.
ReplayFails(r) ==
  /\ replays' = replays \ {r}
  /\ UNCHANGED <<ref, effected, lines, pending>>

ConsoleNext ==
  \/ \E s \in Ids : Render(s) \/ HearLine(s)
  \/ Switch
  \/ Flush
  \/ \E r \in replays : ReplayLands(r) \/ ReplayFails(r)

\* One console, one server: once the effects of a switch have run, neither the
\* console nor the buffer holds a line of another server, whatever history
\* reads of earlier switches are still to come.
ConsoleIsOneServers ==
  ref = effected => lines \cup pending \subseteq {effected, Nil}

-----------------------------------------------------------------------------
(* The scheduler's frontend store and the hook that hydrates it (frontend   *)
(* useSchedulerStore.ts, useScheduler.ts).  The store holds one server and  *)
(* outlives the tiles, which are mounted anew for every server.  Graphs are *)
(* told apart by the server they belong to.                                 *)
StoreIds == Servers \cup {Nil}

StoreTypeOK ==
  /\ tile \in StoreIds /\ server \in StoreIds /\ hydratedFor \in StoreIds
  /\ graphs \subseteq Servers /\ fetching \in BOOLEAN
  /\ fetches \in [Servers -> 0 .. MaxCalls] /\ mutations \in [Servers -> 0 .. MaxCalls]

StoreInit ==
  /\ tile = Nil /\ server = Nil /\ hydratedFor = Nil
  /\ graphs = {} /\ fetching = FALSE
  /\ fetches = [s \in Servers |-> 0] /\ mutations = [s \in Servers |-> 0]

\* Mutant: a switch keeps hydratedFor.
KeptAcross(s) == hydratedFor

\* What a hydrate for s keeps of the last hydration: nothing of another server.
Kept(s) == IF s = server THEN hydratedFor ELSE Nil

\* hydrate(s): a second call for a server that is loaded or loading is ignored.
Hydrate(s) ==
  IF hydratedFor = s \/ (fetching /\ server = s)
    THEN UNCHANGED <<server, graphs, hydratedFor, fetching, fetches>>
    ELSE /\ fetches[s] < MaxCalls
         /\ server' = s
         /\ fetching' = TRUE
         /\ hydratedFor' = Kept(s)
         /\ graphs' = IF s = server THEN graphs ELSE {}
         /\ fetches' = [fetches EXCEPT ![s] = @ + 1]

\* A tile for s is mounted: the first, a second copy of it, or the one that
\* replaces the tiles of the server switched away from.
Mount(s) ==
  /\ tile' = s
  /\ Hydrate(s)
  /\ UNCHANGED mutations

\* The last scheduler tile leaves the canvas.
Unmount ==
  /\ tile # Nil
  /\ tile' = Nil
  /\ UNCHANGED <<server, graphs, hydratedFor, fetching, fetches, mutations>>

\* Is a reply for s still about the server the store holds?
Wanted(s) == server = s

FetchLands(s) ==
  /\ fetches[s] > 0
  /\ fetches' = [fetches EXCEPT ![s] = @ - 1]
  /\ IF Wanted(s)
       THEN /\ graphs' \in SUBSET {s}
            /\ fetching' = FALSE /\ hydratedFor' = s
       ELSE UNCHANGED <<graphs, fetching, hydratedFor>>
  /\ UNCHANGED <<tile, server, mutations>>

FetchFails(s) ==
  /\ fetches[s] > 0
  /\ fetches' = [fetches EXCEPT ![s] = @ - 1]
  /\ fetching' = (fetching /\ ~Wanted(s))
  /\ UNCHANGED <<tile, server, graphs, hydratedFor, mutations>>

\* saveGraph, deleteGraph and setEnabled capture the server they write to.
Write ==
  /\ tile # Nil
  /\ server # Nil
  /\ mutations[server] < MaxCalls
  /\ mutations' = [mutations EXCEPT ![server] = @ + 1]
  /\ UNCHANGED <<tile, server, graphs, hydratedFor, fetching, fetches>>

\* A write's reply: a graph of s is put in the list, or one leaves it.
WriteLands(s) ==
  /\ mutations[s] > 0
  /\ mutations' = [mutations EXCEPT ![s] = @ - 1]
  /\ IF Wanted(s) THEN graphs' \in {graphs \ {s}, graphs \cup {s}}
                  ELSE UNCHANGED graphs
  /\ UNCHANGED <<tile, server, hydratedFor, fetching, fetches>>

WriteFails(s) ==
  /\ mutations[s] > 0
  /\ mutations' = [mutations EXCEPT ![s] = @ - 1]
  /\ UNCHANGED <<tile, server, graphs, hydratedFor, fetching, fetches>>

StoreNext ==
  \/ Unmount
  \/ Write
  \/ \E s \in Servers :
       \/ Mount(s) \/ FetchLands(s) \/ FetchFails(s)
       \/ WriteLands(s) \/ WriteFails(s)

\* The list holds graphs of the store's own server only, and hydratedFor names
\* no other.
ListIsOneServers == graphs \subseteq {server} /\ hydratedFor \in {Nil, server}

\* A tile on the canvas reads, and writes to, its own server (#446).
TileHasItsServer == tile # Nil => server = tile

\* While the store says it is loading, the answer it waits for is on its way.
LoadingEnds == fetching => fetches[server] > 0

StoreIsOneServers == ListIsOneServers /\ TileHasItsServer /\ LoadingEnds

-----------------------------------------------------------------------------
(* The loader section of the server manager (frontend useLoaderStore.load,  *)
(* LoaderPanel.tsx): one slot serves whichever server the panel is on, and  *)
(* a load is two calls, the second made for managed loaders only.           *)
PanelIds == Servers \cup {Nil}

PanelTypeOK ==
  /\ statusFor \in PanelIds /\ status \in PanelIds /\ versions \in PanelIds
  /\ loading \in BOOLEAN
  /\ loads \subseteq [of : Servers, status : PanelIds, phase : {"status", "versions"},
                      latest : BOOLEAN]

PanelInit ==
  /\ statusFor = Nil /\ status = Nil /\ versions = Nil
  /\ loading = FALSE /\ loads = {}

\* latestLoad moves on: every load already in flight is stale.
Outdated == {[l EXCEPT !.latest = FALSE] : l \in loads}

\* load(s): opening the panel on s, or a refresh of it.
Load(s) ==
  /\ Cardinality(loads) < MaxLoads
  /\ statusFor' = s
  /\ loading' = TRUE
  /\ IF s = statusFor THEN UNCHANGED <<status, versions>>
                      ELSE status' = Nil /\ versions' = Nil
  /\ loads' = Outdated \cup
       {[of |-> s, status |-> Nil, phase |-> "status", latest |-> TRUE]}

\* The load is over; what it read goes in the slot.
Settles(l, st, vs) ==
  /\ loads' = loads \ {l}
  /\ status' = st /\ versions' = vs /\ loading' = FALSE
  /\ UNCHANGED statusFor

\* A stale load is dropped at whichever reply finds it so.
Drop(l) ==
  /\ ~l.latest
  /\ loads' = loads \ {l}
  /\ UNCHANGED <<statusFor, status, versions, loading>>

\* GetLoaderStatus answered for the latest load: a loader Konnekt does not
\* manage, and a failed read, end it; a managed one has versions to list.
StatusLands(l) ==
  /\ l.latest /\ l.phase = "status"
  /\ \/ \E st \in {Nil, l.of} : Settles(l, st, Nil)
     \/ /\ loads' = (loads \ {l}) \cup {[l EXCEPT !.status = l.of, !.phase = "versions"]}
        /\ UNCHANGED <<statusFor, status, versions, loading>>

\* ListLoaderVersions answered, or failed and left the list empty.
VersionsLand(l) ==
  /\ l.latest /\ l.phase = "versions"
  /\ \E vs \in {Nil, l.of} : Settles(l, l.status, vs)

PanelNext ==
  \/ \E s \in Servers : Load(s)
  \/ \E l \in loads : Drop(l) \/ StatusLands(l) \/ VersionsLand(l)

\* The slot never holds the builds of a server it is not about, and it says it
\* is loading exactly while the latest load is in flight.
SlotIsOneServers ==
  /\ {status, versions} \subseteq {Nil, statusFor}
  /\ loading <=> \E l \in loads : l.latest

-----------------------------------------------------------------------------
(* The server list and the active server, kept twice: on disk by            *)
(* ConfigService (backend config.go) and in memory by the frontend store    *)
(* (useServerConfigStore.ts).  Each side picks a new active server by a     *)
(* rule of its own when the old one goes.  A config is its id and an edit.  *)
Config == [id : Servers, edit : Edits]
ServerIds(cs) == {cs[i].id : i \in DOMAIN cs}

\* A list names a server once.
IsList(cs) ==
  /\ cs \in Seq(Config)
  /\ \A i, j \in DOMAIN cs : cs[i].id = cs[j].id => i = j

Phase == {"sent", "done", "failed"}
Call == [kind : {"save"}, cfg : Config, phase : Phase]
  \cup [kind : {"delete", "activate"}, id : Servers, phase : Phase]

\* The load that fills the store has read the configs, or still has to.
IsLoad(c) ==
  /\ c \in [kind : {"load"}, phase : {"sent", "read"}, read : Seq(Config)]
  /\ IsList(c.read)

ConfigsTypeOK ==
  /\ IsList(stored) /\ storedActive \in Servers \cup {Nil}
  /\ IsList(configs) /\ activeId \in Servers \cup {Nil}
  /\ \A c \in calls : c \in Call \/ IsLoad(c)
  /\ unsure \in BOOLEAN

Loading(list, phase) == [kind |-> "load", phase |-> phase, read |-> list]

\* The app opens, and loads what a healthy earlier session left on disk.
ConfigsInit ==
  /\ \/ stored = <<>> /\ storedActive = Nil
     \/ \E c \in Config : stored = <<c>> /\ storedActive = c.id
  /\ configs = <<>> /\ activeId = Nil
  /\ calls = {Loading(<<>>, "sent")}
  /\ unsure = FALSE

First(cs) == IF cs = <<>> THEN Nil ELSE cs[1].id
Without(cs, id) ==
  IF id \in ServerIds(cs) THEN RemoveAt(cs, CHOOSE i \in DOMAIN cs : cs[i].id = id)
                          ELSE cs
With(cs, cfg) ==
  IF cfg.id \in ServerIds(cs)
    THEN [i \in DOMAIN cs |-> IF cs[i].id = cfg.id THEN cfg ELSE cs[i]]
    ELSE Append(cs, cfg)

\* reconcileActiveServer: the active id names a server, the first if it must.
Reconciled(cs, active) == IF active \in ServerIds(cs) THEN active ELSE First(cs)

\* An action of the user: saving the editor, deleting, or selecting a server.
Send(c) ==
  /\ Cardinality(calls) < MaxCalls /\ c \notin calls
  /\ calls' = calls \cup {c}
  /\ unsure' = (unsure \/ calls # {})
  /\ UNCHANGED <<stored, storedActive, configs, activeId>>

Save(cfg) == Send([kind |-> "save", cfg |-> cfg, phase |-> "sent"])
Delete(id) ==
  id \in ServerIds(configs) /\ Send([kind |-> "delete", id |-> id, phase |-> "sent"])
Activate(id) ==
  /\ id \in ServerIds(configs) \ {activeId}
  /\ Send([kind |-> "activate", id |-> id, phase |-> "sent"])

Becomes(c, d) == calls' = (calls \ {c}) \cup {d}
Answered(c, phase) == Becomes(c, [c EXCEPT !.phase = phase])

\* SaveServerConfig, DeleteServerConfig and SetActiveServerID on disk.  An edit
\* of a known server leaves the active id alone.
Writes(c) ==
  CASE c.kind = "save" ->
         /\ stored' = With(stored, c.cfg)
         /\ storedActive' = IF c.cfg.id \in ServerIds(stored) THEN storedActive
                            ELSE Reconciled(stored', storedActive)
    [] c.kind = "delete" ->
         /\ stored' = Without(stored, c.id)
         /\ storedActive' = Reconciled(stored', storedActive)
    [] c.kind = "activate" ->
         /\ storedActive' = c.id
         /\ UNCHANGED stored

Serve(c) ==
  /\ c.kind # "load" /\ c.phase = "sent"
  /\ Writes(c)
  /\ Answered(c, "done")
  /\ UNCHANGED <<configs, activeId, unsure>>

\* Nothing was written, or the list was and the active id could not be.
ServeFails(c) ==
  /\ c.kind # "load" /\ c.phase = "sent"
  /\ stored' \in {stored} \cup (CASE c.kind = "save" -> {With(stored, c.cfg)}
                                  [] c.kind = "delete" -> {Without(stored, c.id)}
                                  [] OTHER -> {})
  /\ Answered(c, "failed")
  /\ unsure' = TRUE
  /\ UNCHANGED <<storedActive, configs, activeId>>

\* What the store makes of its call's success: a first server is adopted, and
\* one that was active is replaced by the first of those left.
Applied(c) ==
  CASE c.kind = "save" ->
         /\ configs' = With(configs, c.cfg)
         /\ activeId' = IF activeId = Nil THEN c.cfg.id ELSE activeId
    [] c.kind = "delete" ->
         /\ configs' = Without(configs, c.id)
         /\ activeId' = IF activeId = c.id THEN First(configs') ELSE activeId
    [] c.kind = "activate" ->
         /\ activeId' = c.id
         /\ UNCHANGED configs

Reply(c) ==
  /\ c.phase \in {"done", "failed"}
  /\ calls' = calls \ {c}
  /\ IF c.phase = "done" THEN Applied(c) ELSE UNCHANGED <<configs, activeId>>
  /\ UNCHANGED <<stored, storedActive, unsure>>

\* loadConfigs reads the list, then the active id; a read that failed counts as
\* empty, and an id that names nothing is replaced by the first server's.
LoadReads(c) ==
  /\ c.kind = "load" /\ c.phase = "sent"
  /\ \/ Becomes(c, Loading(stored, "read")) /\ UNCHANGED unsure
     \/ Becomes(c, Loading(<<>>, "read")) /\ unsure' = TRUE
  /\ UNCHANGED <<stored, storedActive, configs, activeId>>

LoadLands(c) ==
  /\ c.kind = "load" /\ c.phase = "read"
  /\ calls' = calls \ {c}
  /\ configs' = c.read
  /\ \E got \in {storedActive, Nil} :
       /\ activeId' = IF got \in ServerIds(c.read) THEN got ELSE First(c.read)
       /\ unsure' = (unsure \/ got # storedActive)
  /\ UNCHANGED <<stored, storedActive>>

ConfigsNext ==
  \/ \E cfg \in Config : Save(cfg)
  \/ \E id \in Servers : Delete(id) \/ Activate(id)
  \/ \E c \in calls :
       Serve(c) \/ ServeFails(c) \/ Reply(c) \/ LoadReads(c) \/ LoadLands(c)

\* The backend and the store each pick a new active server on their own, and
\* pick the same (#363): at rest, after calls made one at a time that all
\* succeeded, the screen and the disk hold the same servers and name the same
\* active one, which exists unless there is none.
ConfigsAgree ==
  calls = {} /\ ~unsure =>
    /\ configs = stored /\ activeId = storedActive
    /\ activeId = Nil <=> configs = <<>>

-----------------------------------------------------------------------------
(* How the frontend's stores write a value to disk: useSettingsStore.update, *)
(* useCommandsStore.save and useTileStore.setLayout show it at once and roll *)
(* back to what they captured if the backend refuses it; the tile lists of   *)
(* useTileStore are shown once the backend has them.  Every written value is *)
(* a number of its own.  The commands file has a second writer, the Kommands *)
(* link poll, whose commands:changed makes the store read it again.          *)
Values == 0 .. MaxValues

WriteTypeOK ==
  /\ {value, disk, made, answer} \subseteq Values
  /\ writes \subseteq
       [next : Values, prev : Values, phase : {"sent", "done", "refused"}]
  /\ reread \in {"no", "asked", "answered"}
  /\ optimistic \in BOOLEAN /\ crossed \in BOOLEAN

WriteInit ==
  /\ optimistic \in BOOLEAN
  /\ value = 0 /\ disk = 0 /\ made = 0 /\ answer = 0
  /\ writes = {} /\ reread = "no" /\ crossed = FALSE

AtRest == writes = {} /\ reread = "no"

\* The user changes something.
Change ==
  /\ made < MaxValues /\ Cardinality(writes) < MaxWrites
  /\ made' = made + 1
  /\ value' = IF optimistic THEN made + 1 ELSE value
  /\ writes' = writes \cup {[next |-> made + 1, prev |-> value, phase |-> "sent"]}
  /\ crossed' = (crossed \/ ~AtRest)
  /\ UNCHANGED <<optimistic, disk, reread, answer>>

WriteBecomes(w, phase) == writes' = (writes \ {w}) \cup {[w EXCEPT !.phase = phase]}

Accepted(w) ==
  /\ w.phase = "sent"
  /\ disk' = w.next
  /\ WriteBecomes(w, "done")
  /\ UNCHANGED <<optimistic, value, made, reread, answer, crossed>>

Refused(w) ==
  /\ w.phase = "sent"
  /\ WriteBecomes(w, "refused")
  /\ UNCHANGED <<optimistic, value, disk, made, reread, answer, crossed>>

\* What the store holds once a write is over.
After(w) ==
  CASE optimistic /\ w.phase = "done" -> value
    [] optimistic /\ w.phase = "refused" -> w.prev
    [] ~optimistic /\ w.phase = "done" -> w.next
    [] ~optimistic /\ w.phase = "refused" -> value

WriteEnds(w) ==
  /\ w.phase # "sent"
  /\ writes' = writes \ {w}
  /\ value' = After(w)
  /\ UNCHANGED <<optimistic, disk, made, reread, answer, crossed>>

\* The link poll rewrites the file and says so.
PollRewrites ==
  /\ optimistic /\ made < MaxValues /\ reread = "no"
  /\ made' = made + 1 /\ disk' = made + 1
  /\ reread' = "asked"
  /\ crossed' = (crossed \/ ~AtRest)
  /\ UNCHANGED <<optimistic, value, writes, answer>>

ReloadReads ==
  /\ reread = "asked"
  /\ reread' = "answered" /\ answer' = disk
  /\ UNCHANGED <<optimistic, value, disk, made, writes, crossed>>

ReloadLands ==
  /\ reread = "answered"
  /\ reread' = "no" /\ value' = answer
  /\ UNCHANGED <<optimistic, disk, made, writes, answer, crossed>>

WriteNext ==
  \/ Change
  \/ \E w \in writes : Accepted(w) \/ Refused(w) \/ WriteEnds(w)
  \/ PollRewrites \/ ReloadReads \/ ReloadLands

\* A refused write is never left on the screen as applied, nor an accepted one
\* lost from it: unless two of them were under way at once, a store at rest
\* holds what the disk holds.
ScreenIsDisk == AtRest /\ ~crossed => value = disk
=============================================================================
