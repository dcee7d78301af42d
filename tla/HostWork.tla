----------------------------- MODULE HostWork ----------------------------
(* What the host does for the user's clicks and its own clock: it updates   *)
(* Konnekt itself, keeps the saved buckets and uploads to them, finds,      *)
(* resolves and installs mods, runs a graph and fires its triggers, keeps   *)
(* the worlds and their archives, tells who is on a server and how it does, *)
(* and answers for the connectors' grants.  None reads another's state, so  *)
(* a behaviour is one of the part that `work` names.                        *)
EXTENDS Naturals, Sequences, FiniteSets

CONSTANTS
  Nil,
  \* Of Konnekt's own builds, see SelfUpdate.
  KonnektBuilds, SnapshotBuilds, OldBuilds, MaxInstalls,
  \* Of the saved buckets and what is sent to one, see Uploads.
  BucketNames, GraphBuckets, MaxIds, MaxSaves, MaxReads, FolderFiles, Assembled, Copied,
  MaxAttempts, PageSize, ChunkSize, MaxJobs, MaxEdits, MaxOthers,
  \* Of the mods pane, see ModBrowser.
  MaxSearches, DependencyMods, RootMod, BrowserMods, MaxClicks,
  \* Of a graph and the clock, see GraphRuns.
  MaxNodesPerRun, MaxEdges, PerMinute, MinutesPerHour, HoursPerDay, EveryMinutes,
  DailyAt, Cooldown, Owner, ActiveServer, MaxMoment,
  \* Of the worlds, see WorldArchives.
  Worlds, DefaultWorld, DrawnNames, OlderName, MaxAge, MaxArchives, MaxWorldSteps,
  \* Of a server's players, figures and limit, see ServerView.
  Players, MaxBoots, MaxConnections, FigureBoots, RingCap, Flavors, FileVersions,
  \* Of the connectors, see OAuthGrants.
  ClientIds, OAuthRequests, Documents, MAX_CLIENTS, MAX_GRANTS, ACCESS, UNUSED, LIFETIME,
  MaxSignIns, MaxTokens, MaxGrantTime

\* The builds are numbered in their order, and those that may run are among them.
ASSUME KonnektAssumption ==
  /\ KonnektBuilds \subseteq Nat /\ SnapshotBuilds \cup OldBuilds \subseteq KonnektBuilds
  /\ MaxInstalls \in Nat \ {0} /\ Nil \notin Nat

\* Searches are numbered from 1, and Nil is none of them.
ASSUME BrowserAssumption ==
  MaxSearches \in Nat /\ MaxClicks \in Nat /\ Nil \notin Nat \cup {"exit", "idle"}

\* A flavor is tried at least; Nil is no sample of the stats.
ASSUME FiguresAssumption ==
  /\ FigureBoots \subseteq Nat \ {0} /\ RingCap \in Nat \ {0}
  /\ Flavors \in Seq(STRING) /\ Flavors # <<>>
  /\ Nil \notin Nat \cup {"full", "low", "recovering"} \cup [running : BOOLEAN, boot : Nat]

\* server.properties has a first version, and 0 is none.
ASSUME LimitAssumption ==
  1 \in FileVersions /\ FileVersions \subseteq Nat \ {0} /\ Nil \notin Nat

VARIABLES work,
          released, rolling, attested, channel, about, installs, spare, exe, inMemory,
          first, second, moved, unasked,
          listed, secrets, accounts, born, list, listing, lists, form, opening, torn,
          savesCrossed, listOvertaken, elsewhere,
          typed, sent, unanswered, hits, searching, grid, turn, timer, frames, phase,
          seen, appearing, panel, lateSearches,
          needs, present, rotten, sided, walk, required, ticked, picked, demoted,
          view, shownMod, detailsOf, versionsOf, fetchesOf, fetchingV, vtab,
          confirming, job, clicksMade, strays,
          folder, objects, halfBuilt, bucketJob, request, stored, touched, edited,
          jobs, edits,
          graph, outputs, custom, tpsNow, toVisit, visiting, nodeRuns, expired,
          runEnded, firstOutputs,
          moment, setBack, tickDue, trigger, graphEnabled, lastFired, firedBefore,
          promised, promiseBroken,
          worldFolder, levelName, serverUp, archives, blended, worldSteps, mishap,
          astray,
          rosterBoots, rosterUp, there, nextConnection, pipe, players, presession,
          told, twice, stale,
          boot, serverState, core, answers, polls, pollsStopped, rconFlavor,
          currentTPS, fresh, tpsLost, logTPS, overtaken, ring, sampled,
          limitUp, booted, propertiesFile, diskMax, reading, shown, had,
          clients, grants, remoteFile, document, cached, signIns, grantTime, minted,
          handed, clientsTold, grantsEnded, doubt

Konnekt == INSTANCE SelfUpdate
       WITH latest <- released, running <- inMemory, Builds <- KonnektBuilds,
            Snapshots <- SnapshotBuilds, Old <- OldBuilds
Uploads == INSTANCE Uploads
       WITH Names <- BucketNames, Graphs <- GraphBuckets, Files <- FolderFiles
Mods == INSTANCE ModBrowser
       WITH Others <- DependencyMods, Root <- RootMod, Mods <- BrowserMods
Graph == INSTANCE GraphRuns
       WITH Active <- ActiveServer, MaxTime <- MaxMoment
Folders == INSTANCE WorldArchives
       WITH folder <- worldFolder, running <- serverUp, rows <- archives,
            steps <- worldSteps, Default <- DefaultWorld, Drawn <- DrawnNames,
            Older <- OlderName, MaxRows <- MaxArchives, MaxSteps <- MaxWorldSteps
View == INSTANCE ServerView
       WITH Names <- Players, Boots <- FigureBoots, Versions <- FileVersions
Connectors == INSTANCE OAuthGrants
       WITH now <- grantTime, disk <- remoteFile, told <- clientsTold,
            ended <- grantsEnded, Ids <- ClientIds, Requests <- OAuthRequests,
            MaxTime <- MaxGrantTime

\* Ids, accounts and readings are counted, and Nil is none of what is stored or shown.
ASSUME PlacesAssumption ==
  /\ MaxIds \in Nat /\ MaxSaves \in Nat /\ MaxReads \in Nat
  /\ Nil \notin Nat \cup {"save", "remove", "done", "reading"}
  /\ Nil \notin Uploads!Row \cup Uploads!Shown
  /\ Nil \notin [of : {"pane", "form"}, is : [Uploads!Ids -> Uploads!Shown \cup {Nil}]]

\* Registrations are finite in number and what is asked for is of the kinds there are;
\* an access token does not outlive the rest a grant is given; Nil is nothing kept.
ASSUME GrantsAssumption ==
  /\ ClientIds \subseteq Nat /\ IsFiniteSet(ClientIds)
  /\ MAX_CLIENTS \in Nat /\ MAX_GRANTS \in Nat /\ LIFETIME \in Nat
  /\ ACCESS \in Nat /\ UNUSED \in Nat /\ ACCESS <= UNUSED
  /\ MaxSignIns \in Nat /\ MaxTokens \in Nat /\ MaxGrantTime \in Nat
  /\ Documents \subseteq Connectors!URIs
  /\ OAuthRequests \subseteq [client : Connectors!Clients, redirect : Connectors!URIs,
                            scopes : SUBSET {"read", "operate"}, resource : Connectors!Resources]
  /\ Nil \notin Nat
  /\ Nil \notin [lists : Connectors!URIs, created : Nat, used : Nat]
  /\ Nil \notin [of : Nat, client : Nat, verifier : Nat, at : Nat]
  /\ Nil \notin [at : {"page", "code", "spent"}, client : Nat, redirect : Connectors!URIs,
               lists : Connectors!URIs, asked : SUBSET {"read", "operate"},
               granted : SUBSET {"read", "operate"}, resource : Connectors!Resources]
  /\ Nil \notin [client : Nat, redirect : Connectors!URIs, scopes : SUBSET {"read", "operate"},
               resource : Connectors!Resources, token : Nat, prev : Nat, expires : Nat,
               created : Nat, used : Nat]

konnektVars == <<released, rolling, attested, channel, about, installs, spare, exe,
                 inMemory, first, second, moved, unasked>>
placesVars == <<listed, secrets, accounts, born, list, listing, lists, form, opening,
                torn, savesCrossed, listOvertaken, elsewhere>>
searchVars == <<typed, sent, unanswered, hits, searching, grid, turn, timer, frames,
                phase, seen, appearing, panel, lateSearches>>
depsVars == <<needs, present, rotten, sided, walk, required, ticked, picked, demoted>>
detailVars == <<view, shownMod, detailsOf, versionsOf, fetchesOf, fetchingV, vtab,
                confirming, job, clicksMade, strays>>
bucketVars == <<folder, objects, halfBuilt, bucketJob, request, stored, touched,
                edited, jobs, edits>>
runVars == <<graph, outputs, custom, tpsNow, toVisit, visiting, nodeRuns, expired,
             runEnded, firstOutputs>>
clockVars == <<moment, setBack, tickDue, trigger, graphEnabled, lastFired,
               firedBefore, promised, promiseBroken>>
worldsVars == <<worldFolder, levelName, serverUp, archives, blended, worldSteps,
                mishap, astray>>
rosterVars == <<rosterBoots, rosterUp, there, nextConnection, pipe, players,
                presession, told, twice, stale>>
figuresVars == <<boot, serverState, core, answers, polls, pollsStopped, rconFlavor,
                 currentTPS, fresh, tpsLost, logTPS, overtaken, ring, sampled>>
limitVars == <<limitUp, booted, propertiesFile, diskMax, reading, shown, had>>
grantsVars == <<clients, grants, remoteFile, document, cached, signIns, grantTime,
                minted, handed, clientsTold, grantsEnded, doubt>>

hostVars == <<work, konnektVars, placesVars, searchVars, depsVars, detailVars, bucketVars,
          runVars, clockVars, worldsVars, rosterVars, figuresVars, limitVars,
          grantsVars>>

HostInit ==
  /\ work \in {"konnekt", "places", "search", "deps", "detail", "bucket", "run",
               "clock", "worlds", "roster", "figures", "limit", "grants"}
  /\ Konnekt!SelfInit /\ ((channel = "stable" /\ inMemory = 1) \/ work = "konnekt")
  /\ Uploads!DestInit
  /\ Mods!SearchInit
  /\ Mods!DepsInit
  /\ Mods!DetailInit
  /\ Uploads!BucketInit
  /\ Graph!RunInit
  /\ Graph!TriggersInit /\ (trigger = "joined" \/ work = "clock")
  /\ Folders!WorldsInit /\ (Folders!Bare \/ work = "worlds")
  /\ View!RosterInit
  /\ View!FiguresInit
  /\ View!MaxInit /\ (propertiesFile = 1 \/ work = "limit")
  /\ Connectors!OAuthInit

KonnektStep ==
  /\ work = "konnekt" /\ Konnekt!SelfNext
  /\ UNCHANGED <<work, placesVars, searchVars, depsVars, detailVars, bucketVars,
                 runVars, clockVars, worldsVars, rosterVars, figuresVars, limitVars,
                 grantsVars>>

PlacesStep ==
  /\ work = "places" /\ Uploads!DestNext
  /\ UNCHANGED <<work, konnektVars, searchVars, depsVars, detailVars, bucketVars,
                 runVars, clockVars, worldsVars, rosterVars, figuresVars, limitVars,
                 grantsVars>>

FinderStep ==
  /\ work = "search" /\ Mods!SearchNext
  /\ UNCHANGED <<work, konnektVars, placesVars, depsVars, detailVars, bucketVars,
                 runVars, clockVars, worldsVars, rosterVars, figuresVars, limitVars,
                 grantsVars>>

NeedsStep ==
  /\ work = "deps" /\ Mods!DepsNext
  /\ UNCHANGED <<work, konnektVars, placesVars, searchVars, detailVars, bucketVars,
                 runVars, clockVars, worldsVars, rosterVars, figuresVars, limitVars,
                 grantsVars>>

DetailStep ==
  /\ work = "detail" /\ Mods!DetailNext
  /\ UNCHANGED <<work, konnektVars, placesVars, searchVars, depsVars, bucketVars,
                 runVars, clockVars, worldsVars, rosterVars, figuresVars, limitVars,
                 grantsVars>>

StoreStep ==
  /\ work = "bucket" /\ Uploads!BucketNext
  /\ UNCHANGED <<work, konnektVars, placesVars, searchVars, depsVars, detailVars,
                 runVars, clockVars, worldsVars, rosterVars, figuresVars, limitVars,
                 grantsVars>>

RunStep ==
  /\ work = "run" /\ Graph!RunNext
  /\ UNCHANGED <<work, konnektVars, placesVars, searchVars, depsVars, detailVars,
                 bucketVars, clockVars, worldsVars, rosterVars, figuresVars,
                 limitVars, grantsVars>>

ClockStep ==
  /\ work = "clock" /\ Graph!TriggersNext
  /\ UNCHANGED <<work, konnektVars, placesVars, searchVars, depsVars, detailVars,
                 bucketVars, runVars, worldsVars, rosterVars, figuresVars, limitVars,
                 grantsVars>>

FoldersStep ==
  /\ work = "worlds" /\ Folders!WorldsNext
  /\ UNCHANGED <<work, konnektVars, placesVars, searchVars, depsVars, detailVars,
                 bucketVars, runVars, clockVars, rosterVars, figuresVars, limitVars,
                 grantsVars>>

PlayersStep ==
  /\ work = "roster" /\ View!RosterNext
  /\ UNCHANGED <<work, konnektVars, placesVars, searchVars, depsVars, detailVars,
                 bucketVars, runVars, clockVars, worldsVars, figuresVars, limitVars,
                 grantsVars>>

FiguresStep ==
  /\ work = "figures" /\ View!FiguresNext
  /\ UNCHANGED <<work, konnektVars, placesVars, searchVars, depsVars, detailVars,
                 bucketVars, runVars, clockVars, worldsVars, rosterVars, limitVars,
                 grantsVars>>

LimitStep ==
  /\ work = "limit" /\ View!MaxNext
  /\ UNCHANGED <<work, konnektVars, placesVars, searchVars, depsVars, detailVars,
                 bucketVars, runVars, clockVars, worldsVars, rosterVars, figuresVars,
                 grantsVars>>

ConnectorsStep ==
  /\ work = "grants" /\ Connectors!OAuthNext
  /\ UNCHANGED <<work, konnektVars, placesVars, searchVars, depsVars, detailVars,
                 bucketVars, runVars, clockVars, worldsVars, rosterVars, figuresVars,
                 limitVars>>

HostNext ==
  \/ KonnektStep \/ PlacesStep \/ FinderStep \/ NeedsStep
  \/ DetailStep \/ StoreStep \/ RunStep \/ ClockStep
  \/ FoldersStep \/ PlayersStep \/ FiguresStep \/ LimitStep
  \/ ConnectorsStep

HostSpec == HostInit /\ [][HostNext]_hostVars

\* Of the part at work: the others are as they began.
HostTypeOK ==
  /\ work = "konnekt" => Konnekt!SelfTypeOK
  /\ work = "places" => Uploads!DestTypeOK
  /\ work = "search" => Mods!SearchTypeOK
  /\ work = "deps" => Mods!DepsTypeOK
  /\ work = "detail" => Mods!DetailTypeOK
  /\ work = "bucket" => Uploads!BucketTypeOK
  /\ work = "run" => Graph!RunTypeOK
  /\ work = "clock" => Graph!TriggersTypeOK
  /\ work = "worlds" => Folders!WorldsTypeOK
  /\ work = "roster" => View!RosterTypeOK
  /\ work = "figures" => View!FiguresTypeOK
  /\ work = "limit" => View!MaxTypeOK
  /\ work = "grants" => Connectors!OAuthTypeOK


\* What a job of the host promises holds at every step of it: Konnekt replaces
\* itself by an attested, newer build or not at all (update.go); a bucket is
\* signed with its own secret and the pane shows what is stored (destinations.go);
\* the mod browser settles on the last search (useGridPageAnimation.ts); a mod's
\* dependencies come along and nothing unasked does (modrinth.go); an install
\* is of the mod that is shown (useMods.ts); a bucket holds whole objects and
\* what is said to be uploaded (upload.go); a run visits what its edges reach,
\* once, and records what became of it (scheduler_engine.go); a trigger fires
\* when it is due and rests as long as it says (scheduler_triggers.go); an
\* archive gives back what was put in it and the active world is kept
\* (backup.go, worlds.go); the roster is who is in the game, the figures are
\* the boot's own and the player limit is the file's (server.go,
\* maxplayers.go); and a token answers for what was consented to, no less and
\* no longer (remote_grants.go).
HostIsSound ==
  /\ HostTypeOK
  /\ work = "konnekt" => Konnekt!UpdateIsSound
  /\ work = "places" => Uploads!DestinationsAreSound
  /\ work = "search" => Mods!BrowserSettles
  /\ work = "deps" => Mods!DependenciesAreMet
  /\ work = "detail" => Mods!DetailIsSound
  /\ work = "bucket" => Uploads!BucketIsSound
  /\ work = "run" => Graph!RunIsSound
  /\ work = "clock" => Graph!TriggersAreSound
  /\ work = "worlds" => Folders!WorldsAreSound
  /\ work = "roster" => View!RosterIsSound
  /\ work = "figures" => View!FiguresAreSound
  /\ work = "limit" => View!MaxIsTrue
  /\ work = "grants" => Connectors!GrantsAreSound
=============================================================================
