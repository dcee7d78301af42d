----------------------------- MODULE Scheduler -----------------------------
(***************************************************************************)
(* The scheduler's graphs and runs on one server                           *)
(* (backend/services/scheduler.go, scheduler_engine.go and the firing half *)
(* of scheduler_triggers.go).  Graphs and run history are changed in       *)
(* memory under s.mu and written to disk after it is released, each write  *)
(* by whoever made the change.  A trigger finds an enabled graph whenever  *)
(* its own clock says so (events, cooldowns, intervals and cron            *)
(* expressions only choose the moment), and starts a goroutine that runs   *)
(* the graph it copied.  What a node does is GraphEditor's and the other   *)
(* services' business: here it succeeds, fails or runs out the run's time. *)
(***************************************************************************)
EXTENDS Integers, Sequences

CONSTANTS
  Graphs,       \* graph ids
  Slots,        \* bound: runs in flight, one goroutine each
  MaxMoves,     \* bound: saves, deletes, switches and runs begun, together
  MaxRestarts,  \* bound: times the app is closed
  MaxNodes,     \* maxNodesPerRun
  MaxQueue,     \* bound: nodes waiting in a run's queue
  MaxHistory,   \* historyCapacity
  Nothing           \* no run; no list

VARIABLES
  up,                 \* is the app open?
  graphs, history,    \* s.graphs, s.history
  saves,              \* graph lists on their way to disk, by move
  disk,               \* scheduler-graphs.json and scheduler-history.json
  running,            \* s.running
  runs,               \* the runs in flight
  moves, restarts,
  raced               \* observer: files whose last writes overlapped, or failed

memory == <<graphs, history>>
counters == <<moves, restarts>>
vars == <<up, memory, saves, disk, running, runs, counters, raced>>

Files == {"graphs", "history"}
\* Of a graph: is it there, and is it enabled?
GraphLists == [Graphs -> {"gone", "off", "on"}]
Switch(on) == IF on THEN "on" ELSE "off"
Histories == {list \in Seq(1..MaxMoves) : Len(list) <= MaxHistory}

\* Where a run's goroutine stands.
Stages == {"spawned", "loop", "record", "write", "release", "finish"}
Runs == [graph : Graphs, id : 1..MaxMoves, at : Stages,
         queue : 0..MaxQueue, count : 0..MaxNodes,
         snapshot : Histories]

ASSUME SchedulerAssumption ==
  /\ MaxMoves \in Nat /\ MaxRestarts \in Nat
  /\ MaxNodes \in Nat \ {0} /\ MaxQueue \in Nat \ {0} /\ MaxHistory \in Nat \ {0}
  /\ Nothing \notin GraphLists /\ Nothing \notin Runs

\* Runs that passed the guard and have not released it.
Inside == {r \in Slots : runs[r] # Nothing /\ runs[r].at \notin {"spawned", "finish"}}

TypeOK ==
  /\ up \in BOOLEAN
  /\ graphs \in GraphLists /\ history \in Histories
  /\ saves \in [1..MaxMoves -> GraphLists \cup {Nothing}]
  /\ disk \in [graphs : GraphLists, history : Histories]
  /\ running \subseteq Graphs
  /\ runs \in [Slots -> Runs \cup {Nothing}]
  /\ moves \in 0..MaxMoves /\ restarts \in 0..MaxRestarts
  /\ raced \subseteq Files
  /\ ~ up => running = {} /\ \A r \in Slots : runs[r] = Nothing

Init ==
  /\ up = TRUE
  /\ graphs = [g \in Graphs |-> "on"] /\ history = <<>>
  /\ saves = [n \in 1..MaxMoves |-> Nothing]
  /\ disk = [graphs |-> graphs, history |-> history]
  /\ running = {} /\ runs = [r \in Slots |-> Nothing]
  /\ moves = 0 /\ restarts = 0
  /\ raced = {}

-----------------------------------------------------------------------------
(***************************************************************************)
(* The graphs: changed and copied under s.mu, written outside it.          *)
(***************************************************************************)
\* Mutant: the copy is taken before the change.
CopyFirst(list) == graphs

\* What is handed to writeGraphs.
Copy(list) == list

Saving == {n \in 1..MaxMoves : saves[n] # Nothing}

Change(list) ==
  /\ up /\ moves < MaxMoves
  /\ moves' = moves + 1
  /\ graphs' = list
  /\ saves' = [saves EXCEPT ![moves'] = Copy(list)]
  /\ raced' = IF Saving # {} THEN raced \cup {"graphs"} ELSE raced
  /\ UNCHANGED <<up, history, disk, running, runs, restarts>>

\* An upsert: a graph deleted meanwhile is there again.
SaveGraph(g) ==
  \E on \in BOOLEAN : Change([graphs EXCEPT ![g] = Switch(on)])

DeleteGraph(g) == Change([graphs EXCEPT ![g] = "gone"])

\* Also of a graph that is gone: then the list is written as it is.
SetGraphEnabled(g) ==
  \E on \in BOOLEAN :
    Change(IF graphs[g] = "gone" THEN graphs ELSE [graphs EXCEPT ![g] = Switch(on)])

\* The writes of two changes reach the disk in either order; one may fail.
WriteGraphs(n) ==
  /\ saves[n] # Nothing
  /\ saves' = [saves EXCEPT ![n] = Nothing]
  /\ \/ /\ disk' = [disk EXCEPT !.graphs = saves[n]]
        /\ raced' = IF Saving = {n} /\ saves[n] = graphs THEN raced \ {"graphs"} ELSE raced
     \/ /\ raced' = raced \cup {"graphs"}
        /\ UNCHANGED disk
  /\ UNCHANGED <<up, memory, running, runs, counters>>

-----------------------------------------------------------------------------
(***************************************************************************)
(* The runs.                                                               *)
(***************************************************************************)
Spawn(g) ==
  /\ up /\ moves < MaxMoves
  /\ moves' = moves + 1
  /\ \E r \in Slots :
       /\ runs[r] = Nothing
       /\ \A q \in Slots : runs[q] = Nothing => r <= q
       /\ runs' = [runs EXCEPT ![r] =
            [graph |-> g, id |-> moves', at |-> "spawned", queue |-> 0, count |-> 0,
             snapshot |-> <<>>]]
  /\ UNCHANGED <<up, memory, saves, disk, running, restarts, raced>>

\* An event, a TPS reading or a minute tick: the graph is copied while enabled,
\* and the goroutine runs the copy whatever becomes of the graph.
Fire(g) == graphs[g] = "on" /\ Spawn(g)

\* By hand: a disabled graph too.
RunGraphNow(g) == graphs[g] # "gone" /\ Spawn(g)

\* Mutant: the deferred delete is registered before the guard.
SkippedFrees(g) == running \ {g}

\* A skipped run leaves the flag to the run that holds it.
Skipped(g) == running

\* One active run per graph: a run that finds one is skipped without a trace.
\* The graph is checked before any node runs: a wrong wire is only answered, a
\* missing destination or a bad retention is also recorded.
Begin(r) ==
  /\ runs[r] # Nothing /\ runs[r].at = "spawned"
  /\ LET g == runs[r].graph IN
       IF g \in running
         THEN runs' = [runs EXCEPT ![r] = Nothing] /\ running' = Skipped(g)
         ELSE /\ running' = running \cup {g}
              /\ \/ runs' = [runs EXCEPT ![r].at = "loop", ![r].queue = 1]
                 \/ \E at \in {"release", "record"} :
                      runs' = [runs EXCEPT ![r].at = at]
  /\ UNCHANGED <<up, memory, saves, disk, counters, raced>>

\* Mutant: only the nodes that succeed are counted.
CountedGood(run, ok) == IF ok THEN run.count + 1 ELSE run.count

\* execCount: failed nodes count too.
Counted(run, ok) == run.count + 1

Left(run) == [run EXCEPT !.at = "record", !.queue = 0, !.count = 0]

More(run) == run.queue > 0 /\ run.count < MaxNodes

\* One pass of the loop: a wire to a node that is gone is dropped uncounted; a
\* node runs and puts those after it in the queue; the run's time may be up.
Node(r) ==
  /\ runs[r] # Nothing /\ runs[r].at = "loop" /\ More(runs[r])
  /\ \/ runs' = [runs EXCEPT ![r].queue = @ - 1]
     \/ \E ok \in BOOLEAN, queue \in (runs[r].queue - 1)..MaxQueue, timeUp \in BOOLEAN :
          runs' = [runs EXCEPT ![r] =
            IF timeUp THEN Left(runs[r])
            ELSE [runs[r] EXCEPT !.count = Counted(runs[r], ok), !.queue = queue]]
  /\ UNCHANGED <<up, memory, saves, disk, running, counters, raced>>

\* The loop ends; a run that reached the cap is told as failed, even with nothing
\* left in its queue.
LoopEnds(r) ==
  /\ runs[r] # Nothing /\ runs[r].at = "loop" /\ ~ More(runs[r])
  /\ runs' = [runs EXCEPT ![r] = Left(runs[r])]
  /\ UNCHANGED <<up, memory, saves, disk, running, counters, raced>>

Recording == {r \in Slots : runs[r] # Nothing /\ runs[r].at = "write"}

\* Mutant: the history is never trimmed.
Uncapped(list) == list

\* The last historyCapacity records.
Capped(list) ==
  IF Len(list) > MaxHistory THEN SubSeq(list, Len(list) - MaxHistory + 1, Len(list)) ELSE list

\* addHistory: under s.mu.
Record(r) ==
  /\ runs[r] # Nothing /\ runs[r].at = "record"
  /\ history' = Capped(Append(history, runs[r].id))
  /\ runs' = [runs EXCEPT ![r].at = "write", ![r].snapshot = history']
  /\ raced' = IF Recording # {} THEN raced \cup {"history"} ELSE raced
  /\ UNCHANGED <<up, graphs, saves, disk, running, counters>>

WriteHistory(r) ==
  /\ runs[r] # Nothing /\ runs[r].at = "write"
  /\ runs' = [runs EXCEPT ![r].at = "release", ![r].snapshot = <<>>]
  /\ \/ /\ disk' = [disk EXCEPT !.history = runs[r].snapshot]
        /\ raced' = IF Recording = {r} /\ runs[r].snapshot = history
                      THEN raced \ {"history"} ELSE raced
     \/ /\ raced' = raced \cup {"history"}
        /\ UNCHANGED disk
  /\ UNCHANGED <<up, memory, saves, running, counters>>

Release(r) ==
  /\ runs[r] # Nothing /\ runs[r].at = "release"
  /\ running' = running \ {runs[r].graph}
  /\ runs' = [runs EXCEPT ![r].at = "finish"]
  /\ UNCHANGED <<up, memory, saves, disk, counters, raced>>

\* run-finished, after the graph may already run again.
Finish(r) ==
  /\ runs[r] # Nothing /\ runs[r].at = "finish"
  /\ runs' = [runs EXCEPT ![r] = Nothing]
  /\ UNCHANGED <<up, memory, saves, disk, running, counters, raced>>

-----------------------------------------------------------------------------
\* Closing the app waits for no run and no write: a file is whole or not written.
Close ==
  /\ up /\ restarts < MaxRestarts
  /\ restarts' = restarts + 1
  /\ up' = FALSE
  /\ saves' = [n \in 1..MaxMoves |-> Nothing]
  /\ running' = {} /\ runs' = [r \in Slots |-> Nothing]
  /\ UNCHANGED <<memory, disk, moves, raced>>

\* SetDataDir reads both files back.
Open ==
  /\ ~ up
  /\ up' = TRUE
  /\ graphs' = disk.graphs /\ history' = disk.history
  /\ raced' = {}
  /\ UNCHANGED <<saves, disk, running, runs, counters>>

Progress(r) ==
  Begin(r) \/ Node(r) \/ LoopEnds(r) \/ Record(r) \/ WriteHistory(r) \/ Release(r) \/ Finish(r)

Next ==
  \/ \E g \in Graphs : SaveGraph(g) \/ DeleteGraph(g) \/ SetGraphEnabled(g)
                       \/ Fire(g) \/ RunGraphNow(g)
  \/ \E n \in 1..MaxMoves : WriteGraphs(n)
  \/ \E r \in Slots : Progress(r)
  \/ Close \/ Open

Spec == Init /\ [][Next]_vars

\* Every goroutine goes on: a node is cut off by its time limit.
FairSpec == Spec /\ \A r \in Slots : WF_vars(Progress(r))

-----------------------------------------------------------------------------
\* executeGraph: "one active run per graph", whatever is saved, deleted, run by
\* hand or skipped meanwhile, and the running map says which.
OneRunPerGraph ==
  /\ running = {runs[r].graph : r \in Inside}
  /\ \A q, r \in Inside : runs[q].graph = runs[r].graph => q = r

\* With no write on its way, a file whose last writes did not overlap or fail
\* holds what memory holds: a restart brings it back.
DiskIsMemory ==
  up => /\ Saving = {} /\ "graphs" \notin raced => disk.graphs = graphs
        /\ Recording = {} /\ "history" \notin raced => disk.history = history

\* A run ends and is announced however its nodes are wired: a cycle runs into
\* the cap, and a skipped run does not wait.
EveryRunSettles == \A r \in Slots : runs[r] # Nothing ~> runs[r] = Nothing

=============================================================================
