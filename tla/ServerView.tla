----------------------------- MODULE ServerView -----------------------------
(* What a server's instance tells of itself (server.go, maxplayers.go,       *)
(* stats.go): its roster, its figures and its player limit.  None reads      *)
(* another's state; each has its Init and Next.                              *)
EXTENDS Naturals, Sequences

CONSTANTS
  Nil, Names, MaxBoots, MaxConnections,
  Boots, RingCap,
  Flavors,                             \* of cores, in the order queryTPSViaRcon tries them
  Versions

VARIABLES
  rosterBoots,                         \* boots so far
  rosterUp,                            \* the process runs
  there,                               \* of each player the connection that is in the game, or 0
  nextConnection,
  pipe,                                \* console lines not yet read
  players,                             \* the roster: [uuid, ip] of who is online, or Nil
  presession,                          \* what is known of who is not, or Nil
  told,                                \* the players a player:joined was emitted for and no player:left
  twice,                               \* a player:joined or player:left was emitted that says nothing new
  stale,                               \* a line was handled after its process was torn down
  boot,                                \* the number of the last boot, 0 before the first
  serverState,                         \* "offline", "starting", "running", "stopping"
  core,                                \* the flavor of the core that was booted
  answers,                             \* whether its RCON answers
  polls,                               \* of each boot's poller what it is doing
  pollsStopped,                        \* the boots whose stopTPS is closed
  rconFlavor, currentTPS, fresh, tpsLost,
  logTPS,                              \* Nil (-1), "full", "low", "recovering"
  overtaken,                           \* a poller stored something after its boot was torn down
  ring, sampled,                       \* the stats history, and the status a tick has read
  limitUp, booted,                     \* the server runs; what its last boot read, 0 for none
  propertiesFile,                      \* the version of the file
  diskMax,                             \* the cache
  reading,                             \* the version a read's stat saw, Nil when none is under way
  shown, had                           \* what the last read answered, what the file and the boot were during it

(* Who is on a server, read off its console: streamOutput, recordPlayerField, *)
(* promotePlayer and removePlayer against the lines a core prints, and        *)
(* waitForExit, which empties the roster when the process ends while lines of *)
(* it may still be unread (server.go).                                        *)
(* A line has what it says, its player, its connection and its boot;          *)
(* connection k comes from address k.  Bounds: MaxBoots, MaxConnections.       *)
rosterVars == <<rosterBoots, rosterUp, there, nextConnection, pipe, players, presession, told, twice, stale>>

Nobody == [n \in Names |-> Nil]
Blank == [uuid |-> FALSE, ip |-> 0]
Line(is, n, k) == [is |-> is, name |-> n, connection |-> k, boot |-> rosterBoots]

\* External: what the cores print.  Vanilla prints the login before the join,
\* Paper after it, a plugin may silence the join, an address may not parse, and
\* a connection may fail before it joins.
JoinLines(n, k) ==
  {<<Line("uuid", n, k), Line("login", n, k), Line("join", n, k)>>,
   <<Line("uuid", n, k), Line("join", n, k), Line("login", n, k)>>,
   <<Line("uuid", n, k), Line("login", n, k)>>,
   <<Line("uuid", n, k), Line("join", n, k), Line("login", n, 0)>>}
LeaveLines(n) == {<<Line("lost", n, 0), Line("leave", n, 0)>>, <<Line("lost", n, 0)>>, <<Line("leave", n, 0)>>}
RefusedLines(n, k) == <<Line("uuid", n, k), Line("lost", n, 0)>>

Connect(n) ==
  /\ rosterUp /\ there[n] = 0 /\ nextConnection <= MaxConnections
  /\ nextConnection' = nextConnection + 1
  /\ \/ /\ there' = [there EXCEPT ![n] = nextConnection]
        /\ \E lines \in JoinLines(n, nextConnection) : pipe' = pipe \o lines
     \/ /\ pipe' = pipe \o RefusedLines(n, nextConnection)
        /\ UNCHANGED there
  /\ UNCHANGED <<rosterBoots, rosterUp, players, presession, told, twice, stale>>
Disconnect(n) ==
  /\ rosterUp /\ there[n] # 0
  /\ there' = [there EXCEPT ![n] = 0]
  /\ \E lines \in LeaveLines(n) : pipe' = pipe \o lines
  /\ UNCHANGED <<rosterBoots, rosterUp, nextConnection, players, presession, told, twice, stale>>

------------------------------------------------------------------------------
\* recordPlayerField: on the roster if the player is on it, else kept for the join
Record(sess, line) ==
  IF line.is = "uuid" THEN [sess EXCEPT !.uuid = TRUE]
  ELSE [sess EXCEPT !.ip = IF line.connection = 0 THEN @ ELSE line.connection]
Known(n) == IF players[n] # Nil THEN players[n] ELSE IF presession[n] # Nil THEN presession[n] ELSE Blank
Recorded(line) ==
  LET sess == Record(Known(line.name), line) IN
  IF players[line.name] # Nil THEN <<[players EXCEPT ![line.name] = sess], presession>>
  ELSE <<players, [presession EXCEPT ![line.name] = sess]>>
\* promotePlayer: what the roster has wins over what was kept
Fold(sess, pre) == [uuid |-> sess.uuid \/ pre.uuid, ip |-> IF sess.ip = 0 THEN pre.ip ELSE sess.ip]
Or(sess) == IF sess = Nil THEN Blank ELSE sess
Promote(n, both) ==
  /\ players' = [both[1] EXCEPT ![n] = Fold(Or(@), Or(both[2][n]))]
  /\ presession' = [both[2] EXCEPT ![n] = Nil]
  /\ told' = IF both[1][n] = Nil THEN told \cup {n} ELSE told
  /\ twice' = (twice \/ (both[1][n] = Nil /\ n \in told))

\* removePlayer
Remove(n) ==
  /\ players' = [players EXCEPT ![n] = Nil] /\ presession' = [presession EXCEPT ![n] = Nil]
  /\ told' = IF players[n] # Nil THEN told \ {n} ELSE told
  /\ twice' = (twice \/ (players[n] # Nil /\ n \notin told))

\* streamOutput, one line.  A login line whose address does not parse records
\* nothing, and doubles as the join.
HandleLine ==
  /\ pipe # <<>> /\ pipe' = Tail(pipe)
  /\ LET line == Head(pipe) IN
     CASE line.is = "uuid" ->
            /\ players' = Recorded(line)[1] /\ presession' = Recorded(line)[2]
            /\ UNCHANGED <<told, twice>>
       [] line.is = "login" ->
            Promote(line.name, IF line.connection = 0 THEN <<players, presession>> ELSE Recorded(line))
       [] line.is = "join" -> Promote(line.name, <<players, presession>>)
       [] line.is \in {"leave", "lost"} -> Remove(line.name)
  /\ stale' = (stale \/ ~rosterUp \/ Head(pipe).boot # rosterBoots)
  /\ UNCHANGED <<rosterBoots, rosterUp, there, nextConnection>>

------------------------------------------------------------------------------
\* The process ends, waitForExit reaps it and empties the roster; what the pipe
\* still holds is read or lost.  A subscriber of player:joined forgets who was
\* online when the server has stopped.
Exit ==
  /\ rosterUp /\ rosterUp' = FALSE
  /\ there' = [n \in Names |-> 0]
  /\ players' = Nobody /\ presession' = Nobody /\ told' = {}
  /\ UNCHANGED <<rosterBoots, nextConnection, pipe, twice, stale>>
PipeCloses ==
  /\ pipe' = SelectSeq(pipe, LAMBDA line : rosterUp /\ line.boot = rosterBoots) /\ pipe' # pipe
  /\ UNCHANGED <<rosterBoots, rosterUp, there, nextConnection, players, presession, told, twice, stale>>
\* start() leaves the roster as it is.
Boot ==
  /\ ~rosterUp /\ rosterBoots < MaxBoots
  /\ rosterUp' = TRUE /\ rosterBoots' = rosterBoots + 1
  /\ UNCHANGED <<there, nextConnection, pipe, players, presession, told, twice, stale>>

RosterInit ==
  /\ rosterBoots = 0 /\ rosterUp = FALSE /\ there = [n \in Names |-> 0] /\ nextConnection = 1 /\ pipe = <<>>
  /\ players = Nobody /\ presession = Nobody /\ told = {} /\ twice = FALSE /\ stale = FALSE
RosterNext ==
  \/ Boot \/ Exit \/ PipeCloses \/ HandleLine
  \/ \E n \in Names : Connect(n) \/ Disconnect(n)

------------------------------------------------------------------------------
Sessions == [uuid : BOOLEAN, ip : 0 .. MaxConnections]
RosterTypeOK ==
  /\ rosterBoots \in 0 .. MaxBoots /\ rosterUp \in BOOLEAN /\ stale \in BOOLEAN /\ twice \in BOOLEAN
  /\ there \in [Names -> 0 .. MaxConnections] /\ nextConnection \in 1 .. MaxConnections + 1
  /\ players \in [Names -> {Nil} \cup Sessions] /\ presession \in [Names -> {Nil} \cup Sessions]
  /\ told \subseteq Names

\* The roster a console that has been read shows is who is in the game, each with
\* the UUID and the address of this connection and of no earlier one, and what
\* was kept for a join that never came is gone (recordPlayerField, promotePlayer),
\* in whichever order a core prints its lines.
RosterIsRight == rosterUp /\ pipe = <<>> /\ ~stale => \A n \in Names :
  /\ players[n] # Nil <=> there[n] # 0
  /\ players[n] # Nil => players[n].uuid /\ players[n].ip \in {0, there[n]}
  /\ presession[n] = Nil

\* One player:joined and one player:left for each connection that joined, though
\* two lines may announce either; the roster and the events agree at every step.
EventsAreRight == ~twice /\ (~stale => told = {n \in Names : players[n] # Nil})

RosterIsSound == RosterIsRight /\ EventsAreRight

RosterSpec == RosterInit /\ [][RosterNext]_rosterVars

-----------------------------------------------------------------------------
(* The TPS of a server, polled over RCON by a goroutine of each boot          *)
(* (pollTPS, queryTPSViaRcon, recordRconTPS) or read off the log's warnings    *)
(* (CurrentTPS, currentLogTPS), and the stats ring (StatsService.tick).         *)
(* A TPS is the boot it was measured in.  Time is two events, since only the   *)
(* order counts: a figure turns 15 s old, and a poll falls due.                *)
(* Bounds: Boots, RingCap (360), two of the three flavors.                                              *)
figureVars == <<boot, serverState, core, answers, polls, pollsStopped, rconFlavor, currentTPS, fresh,
                tpsLost, logTPS, overtaken, ring, sampled>>
pollVars == <<polls, rconFlavor, currentTPS, fresh, tpsLost, overtaken>>
lifeVars == <<boot, serverState, core, answers, pollsStopped, logTPS>>
statVars == <<ring, sampled>>

Running == serverState # "offline"
Up(b) == b = boot /\ Running
Late(b) == ~Up(b)

------------------------------------------------------------------------------
(* The boot.                                                                 *)
\* start(): figures of the last boot are cleared; the detected flavor is not
BootFigures ==
  /\ ~Running /\ boot + 1 \in Boots
  /\ boot' = boot + 1 /\ serverState' = "starting"
  /\ core' \in {Flavors[i] : i \in DOMAIN Flavors} /\ answers' = FALSE
  /\ currentTPS' = Nil /\ fresh' = FALSE /\ tpsLost' = FALSE /\ logTPS' = "full"
  /\ UNCHANGED <<polls, pollsStopped, rconFlavor, overtaken>> /\ UNCHANGED statVars

\* enterRunningLocked, startTPSPollLocked: this boot's poller starts
Asking(known) == [at |-> "ask", known |-> known, command |-> IF known = Nil THEN 1 ELSE known, got |-> Nil]
Ready ==
  /\ serverState = "starting" /\ serverState' = "running" /\ answers' = TRUE
  /\ polls' = [polls EXCEPT ![boot] = Asking(rconFlavor)]
  /\ UNCHANGED <<boot, core, pollsStopped, logTPS, rconFlavor, currentTPS, fresh, tpsLost, overtaken>>
  /\ UNCHANGED statVars

\* The process ends: waitForExit, stopTPSPoll
StopPolls ==
  /\ Running /\ serverState' = "offline" /\ answers' = FALSE
  /\ pollsStopped' = pollsStopped \cup {boot}
  /\ currentTPS' = Nil /\ fresh' = FALSE /\ tpsLost' = FALSE /\ rconFlavor' = Nil /\ logTPS' = Nil
  /\ UNCHANGED <<boot, core, polls, overtaken>> /\ UNCHANGED statVars

\* The first line of a crash: what RCON said is no longer known
Crash ==
  /\ serverState = "running" /\ serverState' = "stopping" /\ answers' = FALSE
  /\ tpsLost' = TRUE
  /\ UNCHANGED <<boot, core, pollsStopped, logTPS, polls, rconFlavor, currentTPS, fresh, overtaken>>
  /\ UNCHANGED statVars

\* "Can't keep up" in the log.  External: RCON hangs and comes back.
Warns ==
  /\ serverState = "running" /\ logTPS' = "low" /\ logTPS # "low"
  /\ UNCHANGED <<boot, serverState, core, answers, pollsStopped>> /\ UNCHANGED <<pollVars, statVars>>
Hangs ==
  /\ serverState = "running" /\ answers' = ~answers
  /\ UNCHANGED <<boot, serverState, core, pollsStopped, logTPS>> /\ UNCHANGED <<pollVars, statVars>>
\* currentLogTPS: after a warning the figure climbs back, to 20 in a minute
MinutePasses ==
  /\ logTPS \in {"low", "recovering"}
  /\ logTPS' = IF logTPS = "low" THEN "recovering" ELSE "full"
  /\ UNCHANGED <<boot, serverState, core, answers, pollsStopped>> /\ UNCHANGED <<pollVars, statVars>>
Ages ==
  /\ fresh /\ fresh' = FALSE
  /\ UNCHANGED <<polls, rconFlavor, currentTPS, tpsLost, overtaken>> /\ UNCHANGED <<lifeVars, statVars>>

------------------------------------------------------------------------------
(* A poll.                                                                   *)
Step(b, p) == polls' = [polls EXCEPT ![b] = p]
\* queryTPSViaRcon: one command to a core whose flavor is known; to another the
\* three in turn.  Whatever server now listens there answers.
Ask(b) ==
  LET p == polls[b] IN
  /\ p.at = "ask"
  /\ IF answers /\ Flavors[p.command] = core
     THEN Step(b, [p EXCEPT !.at = IF p.known = Nil THEN "detected" ELSE "record", !.got = boot])
     ELSE IF p.known = Nil /\ p.command < Len(Flavors) THEN Step(b, [p EXCEPT !.command = @ + 1])
     ELSE Step(b, [p EXCEPT !.at = "record"])
  /\ UNCHANGED <<rconFlavor, currentTPS, fresh, tpsLost, overtaken>> /\ UNCHANGED <<lifeVars, statVars>>
Detected(b) ==
  /\ polls[b].at = "detected"
  /\ rconFlavor' = polls[b].command
  /\ Step(b, [polls[b] EXCEPT !.at = "record"])
  /\ overtaken' = (overtaken \/ Late(b))
  /\ UNCHANGED <<currentTPS, fresh, tpsLost>> /\ UNCHANGED <<lifeVars, statVars>>
\* recordRconTPS
LostBy(got) == IF got # Nil THEN FALSE ELSE tpsLost \/ currentTPS # Nil
\* A bug: a poll that fails leaves the figure to the log.
LostByNone(got) == IF got # Nil THEN FALSE ELSE tpsLost
RecordRconTPS(b) ==
  LET p == polls[b] IN
  /\ p.at = "record"
  /\ currentTPS' = IF p.got # Nil THEN p.got ELSE currentTPS
  /\ fresh' = (p.got # Nil) /\ tpsLost' = LostBy(p.got)
  /\ Step(b, [p EXCEPT !.at = "wait"])
  /\ overtaken' = (overtaken \/ Late(b))
  /\ UNCHANGED rconFlavor /\ UNCHANGED <<lifeVars, statVars>>
\* pollTPS: when both the ticker and the stop are ready, either is taken
Again(b) ==
  /\ polls[b].at = "wait"
  /\ \/ Step(b, Asking(rconFlavor))
     \/ b \in pollsStopped /\ Step(b, [polls[b] EXCEPT !.at = "done"])
  /\ UNCHANGED <<rconFlavor, currentTPS, fresh, tpsLost, overtaken>> /\ UNCHANGED <<lifeVars, statVars>>

\* CurrentTPS
CurrentTPS ==
  IF tpsLost THEN <<"unknown">>
  ELSE IF currentTPS # Nil /\ fresh THEN <<"rcon", currentTPS>>
  ELSE IF logTPS = Nil THEN <<"unknown">> ELSE <<"log", logTPS>>

------------------------------------------------------------------------------
(* The stats.                                                                *)
\* status()
TickReads ==
  /\ sampled = Nil /\ sampled' = [running |-> Running, boot |-> boot]
  /\ UNCHANGED ring /\ UNCHANGED <<lifeVars, pollVars>>
\* StatsService.tick: a stopped server is shown and not charted
Push(r, x) == Append(IF Len(r) >= RingCap THEN Tail(r) ELSE r, x)
TickAppends ==
  /\ sampled # Nil
  /\ ring' = IF sampled.running THEN Push(ring, sampled) ELSE ring
  /\ sampled' = Nil
  /\ UNCHANGED <<lifeVars, pollVars>>

FiguresInit ==
  /\ boot = 0 /\ serverState = "offline" /\ core = Flavors[1] /\ answers = FALSE
  /\ polls = [b \in Boots |-> [at |-> "none", known |-> Nil, command |-> 1, got |-> Nil]]
  /\ pollsStopped = {} /\ rconFlavor = Nil /\ currentTPS = Nil /\ fresh = FALSE /\ tpsLost = FALSE
  /\ logTPS = Nil /\ overtaken = FALSE /\ ring = <<>> /\ sampled = Nil

FiguresNext ==
  \/ BootFigures \/ Ready \/ StopPolls \/ Crash \/ Warns \/ Hangs \/ MinutePasses \/ Ages
  \/ \E b \in Boots : Ask(b) \/ Detected(b) \/ RecordRconTPS(b) \/ Again(b)
  \/ TickReads \/ TickAppends

------------------------------------------------------------------------------
Measures == {Nil} \cup Boots
FiguresTypeOK ==
  /\ boot \in Boots \cup {0} /\ serverState \in {"offline", "starting", "running", "stopping"}
  /\ \A b \in Boots : polls[b].at \in {"none", "ask", "detected", "record", "wait", "done"} /\ polls[b].got \in Measures
  /\ pollsStopped \subseteq Boots /\ rconFlavor \in {Nil} \cup DOMAIN Flavors /\ currentTPS \in Measures
  /\ logTPS \in {Nil, "full", "low", "recovering"} /\ Len(ring) <= RingCap

\* What is shown was measured in this boot; a stopped server shows none; and one
\* whose RCON answered and whose last poll failed, or that crashed, is unknown
\* rather than the log's 20 (#579), unless a poll outlived its boot.
LastPollFailed(b) == polls[b].at = "wait" /\ polls[b].got = Nil
TPSIsOfThisBoot == ~overtaken =>
  /\ currentTPS # Nil => Running /\ currentTPS = boot
  /\ ~Running => CurrentTPS = <<"unknown">>
  /\ Running /\ LastPollFailed(boot) /\ currentTPS # Nil => CurrentTPS = <<"unknown">>

\* A flavor is that of the core that runs, so a core of another loader is polled
\* with its own command (stopTPSPoll), unless a poll outlived its boot.
FlavorIsOfThisCore == ~overtaken /\ rconFlavor # Nil => Running /\ Flavors[rconFlavor] = core

\* The chart is of running boots in the order they ran.
ChartIsInOrder == \A i \in DOMAIN ring : ring[i].running /\ \A j \in 1 .. i : ring[j].boot <= ring[i].boot

FiguresAreSound == TPSIsOfThisBoot /\ FlavorIsOfThisCore /\ ChartIsInOrder

FiguresSpec == FiguresInit /\ [][FiguresNext]_figureVars

-----------------------------------------------------------------------------
(* max-players of a server (maxplayers.go): a running server's is what it     *)
(* booted with; a stopped one's is read from server.properties, through a     *)
(* cache keyed by the file's size and time, while the file is rewritten and   *)
(* removed.  Version v of the file has stamp v and says v players, 0 is no     *)
(* file; the bound is the number of versions.                                 *)
maxVars == <<limitUp, booted, propertiesFile, diskMax, reading, shown, had>>

\* resolveMaxPlayers: what the disk says when stopped, else what was booted with
\* (20 when nothing was, which is 0 here)
ResolveMaxPlayers(onDisk) == IF ~limitUp /\ onDisk # Nil THEN onDisk ELSE booted

Answers(onDisk) == reading' = Nil /\ shown' = ResolveMaxPlayers(onDisk)
\* maxPlayersOnDisk: one stat by path, then the cache, or the file
Stat ==
  /\ reading = Nil /\ had' = {propertiesFile, booted}
  /\ IF limitUp \/ propertiesFile = 0 THEN Answers(Nil)
     ELSE IF propertiesFile = diskMax.stamp THEN Answers(diskMax.value)
     ELSE reading' = propertiesFile /\ UNCHANGED shown
  /\ UNCHANGED <<limitUp, booted, propertiesFile, diskMax>>
\* reparseMaxPlayers: the stamp and the value of the one file the handle is of,
\* whatever the stat saw; a file that is gone leaves the cache as it was
Reparse ==
  /\ reading # Nil
  /\ IF propertiesFile = 0 THEN Answers(Nil) /\ UNCHANGED diskMax
     ELSE diskMax' = [stamp |-> propertiesFile, value |-> propertiesFile] /\ Answers(propertiesFile)
  /\ UNCHANGED <<limitUp, booted, propertiesFile, had>>
\* A bug: what was read is kept against the stamp the stat saw.
ReparseByPath ==
  /\ reading # Nil
  /\ diskMax' = [stamp |-> reading, value |-> propertiesFile] /\ Answers(propertiesFile)
  /\ UNCHANGED <<limitUp, booted, propertiesFile, had>>

\* start() reads the file too; the process ends.
LimitStart ==
  /\ ~limitUp /\ limitUp' = TRUE /\ booted' = propertiesFile
  /\ had' = IF reading # Nil THEN had \cup {propertiesFile} ELSE had
  /\ UNCHANGED <<propertiesFile, diskMax, reading, shown>>
LimitExit == limitUp /\ limitUp' = FALSE /\ UNCHANGED <<booted, propertiesFile, diskMax, reading, shown, had>>
\* External: the file is written again, with a stamp of its own, or removed.
Edit ==
  /\ \/ \E v \in Versions : v > propertiesFile /\ v > diskMax.stamp /\ (reading # Nil => v > reading) /\ propertiesFile' = v
     \/ propertiesFile # 0 /\ propertiesFile' = 0
     \/ \E v \in Versions : propertiesFile = 0 /\ v = diskMax.stamp /\ propertiesFile' = v
  /\ had' = IF reading # Nil THEN had \cup {propertiesFile'} ELSE had
  /\ UNCHANGED <<limitUp, booted, diskMax, reading, shown>>

MaxInit ==
  /\ limitUp = FALSE /\ booted = 0 /\ propertiesFile \in {0, 1} /\ diskMax = [stamp |-> 0, value |-> 0]
  /\ reading = Nil /\ shown = 0 /\ had = {0}
MaxNext == Stat \/ Reparse \/ LimitStart \/ LimitExit \/ Edit

MaxTypeOK ==
  /\ limitUp \in BOOLEAN /\ booted \in {0} \cup Versions /\ propertiesFile \in {0} \cup Versions
  /\ diskMax \in [stamp : {0} \cup Versions, value : {0} \cup Versions]
  /\ reading \in {Nil} \cup Versions /\ shown \in {0} \cup Versions

\* The cache never keeps one file's figure against another's stamp, however the
\* file is rewritten and removed around a read, so the figure comes back (#453);
\* and the last answer was the file's, or the boot's, at some moment of its read.
MaxIsTrue ==
  /\ diskMax.value = diskMax.stamp
  /\ reading = Nil => shown \in had

MaxSpec == MaxInit /\ [][MaxNext]_maxVars
=============================================================================
