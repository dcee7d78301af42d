----------------------------- MODULE HostProofs -----------------------------
(***************************************************************************)
(* Theorems about the scheduler's graphs and runs, and about the host's    *)
(* jobs of HostWork: Konnekt's own update, the saved buckets, the mod      *)
(* search and a mod's panel, the figures, the player limit and the         *)
(* connectors' grants, for any constants.                                  *)
(***************************************************************************)
EXTENDS HostWork, Scheduler, SequenceTheorems, FiniteSetTheorems, TLAPS

-----------------------------------------------------------------------------
(***************************************************************************)
(* The scheduler's graphs and runs.                                        *)
(***************************************************************************)
\* At most one write of the graphs is on its way, and it carries what memory
\* holds; with none, the disk has it already.
SavesInv ==
  /\ ~ up => Saving = {}
  /\ up /\ "graphs" \notin raced =>
       /\ \A m, n \in Saving : m = n
       /\ \A n \in Saving : saves[n] = graphs
       /\ Saving = {} => disk.graphs = graphs

\* The same of the history and the runs that write it.
RecordsInv ==
  up /\ "history" \notin raced =>
    /\ \A q, r \in Recording : q = r
    /\ \A r \in Recording : runs[r].snapshot = history
    /\ Recording = {} => disk.history = history

SchedulerInv == TypeOK /\ OneRunPerGraph /\ SavesInv /\ RecordsInv

-----------------------------------------------------------------------------
(***************************************************************************)
(* The history's records.                                                  *)
(***************************************************************************)
LEMMA EmptyHistory == <<>> \in Histories
BY SchedulerAssumption DEF Histories

\* A sequence cut to the last records kept is a history.
LEMMA CappedIsHistory ==
  ASSUME NEW kept \in Seq(1..MaxMoves)
  PROVE  Capped(kept) \in Histories
<1>1. CASE Len(kept) <= MaxHistory
  BY <1>1, SchedulerAssumption DEF Capped, Histories
<1>2. CASE Len(kept) > MaxHistory
  <2> DEFINE oldest == Len(kept) - MaxHistory + 1
  <2>1. oldest \in 1..Len(kept) /\ Len(kept) \in Nat
    BY <1>2, SchedulerAssumption
  <2>2. \A i \in oldest..Len(kept) : kept[i] \in 1..MaxMoves
    <3>1. \A i \in oldest..Len(kept) : i \in 1..Len(kept)
      BY <2>1
    <3>2. QED
      BY <3>1, ElementOfSeq
  <2>3. /\ SubSeq(kept, oldest, Len(kept)) \in Seq(1..MaxMoves)
        /\ Len(SubSeq(kept, oldest, Len(kept))) = MaxHistory
    BY <2>1, <2>2, SubSeqProperties, SchedulerAssumption
  <2>4. QED
    BY <1>2, <2>3, SchedulerAssumption DEF Capped, Histories
<1>3. QED
  BY <1>1, <1>2, SchedulerAssumption

LEMMA RecordedIsHistory ==
  ASSUME NEW kept \in Histories, NEW id \in 1..MaxMoves
  PROVE  Capped(Append(kept, id)) \in Histories
<1>1. Append(kept, id) \in Seq(1..MaxMoves)
  BY DEF Histories
<1>2. QED
  BY <1>1, CappedIsHistory

-----------------------------------------------------------------------------
LEMMA SchedulerInit == Init => SchedulerInv
<1> SUFFICES ASSUME Init
             PROVE  SchedulerInv
  OBVIOUS
<1>1. TypeOK
  BY EmptyHistory, SchedulerAssumption DEF Init, TypeOK, GraphLists, Files
<1>2. OneRunPerGraph
  BY SchedulerAssumption DEF Init, OneRunPerGraph, Inside
<1>3. SavesInv
  BY DEF Init, SavesInv, Saving
<1>4. RecordsInv
  BY DEF Init, RecordsInv, Recording
<1>5. QED
  BY <1>1, <1>2, <1>3, <1>4 DEF SchedulerInv

-----------------------------------------------------------------------------
\* The actions, with the graphs' changes taken together and the triggers' too.
LEMMA StepCases ==
  ASSUME TypeOK, [Next]_vars
  PROVE  \/ \E kept \in GraphLists : Change(kept)
         \/ \E n \in 1..MaxMoves : WriteGraphs(n)
         \/ \E g \in Graphs : Spawn(g)
         \/ \E r \in Slots : Progress(r)
         \/ Close
         \/ Open
         \/ UNCHANGED vars
<1>1. ASSUME NEW g \in Graphs, SaveGraph(g) \/ DeleteGraph(g) \/ SetGraphEnabled(g)
      PROVE  \E kept \in GraphLists : Change(kept)
  <2>1. \A v \in {"gone", "off", "on"} : [graphs EXCEPT ![g] = v] \in GraphLists
    BY DEF TypeOK, GraphLists
  <2>2. graphs \in GraphLists
    BY DEF TypeOK
  <2>3. \A on \in BOOLEAN : Switch(on) \in {"gone", "off", "on"}
    BY DEF Switch
  <2>4. CASE SaveGraph(g)
    BY <2>1, <2>3, <2>4 DEF SaveGraph
  <2>5. CASE DeleteGraph(g)
    BY <2>1, <2>5 DEF DeleteGraph
  <2>6. CASE SetGraphEnabled(g)
    BY <2>1, <2>2, <2>3, <2>6 DEF SetGraphEnabled
  <2>7. QED
    BY <1>1, <2>4, <2>5, <2>6
<1>2. ASSUME NEW g \in Graphs, Fire(g) \/ RunGraphNow(g)
      PROVE  Spawn(g)
  BY <1>2 DEF Fire, RunGraphNow
<1>3. QED
  BY <1>1, <1>2 DEF Next

\* A run that left the loop, and one after a pass of it, are runs.
LEMMA LeftIsRun ==
  ASSUME NEW run \in Runs
  PROVE  Left(run) \in Runs
<1>1. 0 \in 0..MaxQueue /\ 0 \in 0..MaxNodes /\ "record" \in Stages
  BY SchedulerAssumption DEF Stages
<1>2. QED
  BY <1>1 DEF Left, Runs

Passes(r) ==
  \E run \in Runs : /\ runs' = [runs EXCEPT ![r] = run]
                    /\ run.at \in {"loop", "record"} /\ run.graph = runs[r].graph

LEMMA PassIsRun ==
  ASSUME TypeOK, NEW r \in Slots, runs[r] \in Runs, Node(r)
  PROVE  Passes(r)
<1>1. runs[r].queue \in 1..MaxQueue /\ runs[r].count \in 0..MaxNodes - 1 /\ runs[r].at = "loop"
  <2>1. runs[r].queue \in 0..MaxQueue /\ runs[r].count \in 0..MaxNodes
    BY DEF Runs
  <2>2. runs[r].queue > 0 /\ runs[r].count < MaxNodes /\ runs[r].at = "loop"
    BY DEF Node, More
  <2>3. QED
    BY <2>1, <2>2, SchedulerAssumption
<1>2. CASE runs' = [runs EXCEPT ![r].queue = @ - 1]
  <2>1. [runs[r] EXCEPT !.queue = @ - 1] \in Runs
    BY <1>1, SchedulerAssumption DEF Runs
  <2>2. /\ [runs[r] EXCEPT !.queue = @ - 1].at = "loop"
        /\ [runs[r] EXCEPT !.queue = @ - 1].graph = runs[r].graph
    BY <1>1 DEF Runs
  <2>3. QED
    BY <1>2, <2>1, <2>2 DEF Passes
<1>3. ASSUME NEW ok \in BOOLEAN, NEW queue \in (runs[r].queue - 1)..MaxQueue,
             NEW timeUp \in BOOLEAN,
             runs' = [runs EXCEPT ![r] =
               IF timeUp THEN Left(runs[r])
               ELSE [runs[r] EXCEPT !.count = Counted(runs[r], ok), !.queue = queue]]
      PROVE  Passes(r)
  <2> DEFINE next == [runs[r] EXCEPT !.count = Counted(runs[r], ok), !.queue = queue]
  <2>1. queue \in 0..MaxQueue /\ Counted(runs[r], ok) \in 0..MaxNodes
    BY <1>1, SchedulerAssumption DEF Counted
  <2>2. next \in Runs /\ next.at = "loop" /\ next.graph = runs[r].graph
    BY <1>1, <2>1 DEF Runs
  <2>3. Left(runs[r]) \in Runs /\ Left(runs[r]).at = "record"
        /\ Left(runs[r]).graph = runs[r].graph
    BY LeftIsRun DEF Left, Runs
  <2>4. CASE timeUp
    BY <1>3, <2>3, <2>4 DEF Passes
  <2>5. CASE ~ timeUp
    BY <1>3, <2>2, <2>5 DEF Passes
  <2>6. QED
    BY <2>4, <2>5
<1>4. QED
  BY <1>2, <1>3 DEF Node

LEMMA TypeStep == TypeOK /\ [Next]_vars => TypeOK'
<1> SUFFICES ASSUME TypeOK, [Next]_vars
             PROVE  TypeOK'
  OBVIOUS
<1> USE SchedulerAssumption
<1>1. ASSUME NEW kept \in GraphLists, Change(kept)
      PROVE  TypeOK'
  BY <1>1 DEF Change, Copy, TypeOK, Files
<1>2. ASSUME NEW n \in 1..MaxMoves, WriteGraphs(n)
      PROVE  TypeOK'
  BY <1>2 DEF WriteGraphs, memory, counters, TypeOK, Files
<1>3. ASSUME NEW g \in Graphs, Spawn(g)
      PROVE  TypeOK'
  BY <1>3, EmptyHistory DEF Spawn, memory, TypeOK, Runs, Stages
<1>4. ASSUME NEW r \in Slots, Progress(r)
      PROVE  TypeOK'
  <2>0. up = TRUE /\ runs[r] # Nothing /\ runs[r] \in Runs
    BY <1>4 DEF Progress, Begin, Node, LoopEnds, Record, WriteHistory, Release, Finish, TypeOK
  <2>1. CASE Begin(r)
    BY <2>0, <2>1, SMTT(20) DEF Begin, Skipped, memory, counters, TypeOK, Runs, Stages
  <2>2. CASE Node(r)
    <3>1. Passes(r)
      BY <2>0, <2>2, PassIsRun
    <3>2. runs' \in [Slots -> Runs \cup {Nothing}]
      BY <3>1 DEF Passes, TypeOK
    <3>3. QED
      BY <2>0, <2>2, <3>2 DEF Node, memory, counters, TypeOK
  <2>3. CASE LoopEnds(r)
    BY <2>0, <2>3, LeftIsRun DEF LoopEnds, memory, counters, TypeOK
  <2>4. CASE Record(r)
    <3>1. runs[r].id \in 1..MaxMoves /\ history \in Histories
      BY <2>0 DEF TypeOK, Runs
    <3>2. history' \in Histories
      BY <2>4, <3>1, RecordedIsHistory DEF Record
    <3>3. QED
      BY <2>0, <2>4, <3>2 DEF Record, counters, TypeOK, Runs, Stages, Files
  <2>5. CASE WriteHistory(r)
    BY <2>0, <2>5, EmptyHistory DEF WriteHistory, memory, counters, TypeOK, Runs, Stages, Files
  <2>6. CASE Release(r)
    BY <2>0, <2>6 DEF Release, memory, counters, TypeOK, Runs, Stages
  <2>7. CASE Finish(r)
    BY <2>0, <2>7 DEF Finish, memory, counters, TypeOK, Runs, Stages
  <2>8. QED
    BY <1>4, <2>1, <2>2, <2>3, <2>4, <2>5, <2>6, <2>7 DEF Progress
<1>5. CASE Close
  <2>1. restarts' \in 0..MaxRestarts
    BY <1>5 DEF Close, TypeOK
  <2>2. QED
    BY <1>5, <2>1 DEF Close, memory, TypeOK
<1>6. CASE Open
  BY <1>6 DEF Open, counters, TypeOK
<1>7. CASE UNCHANGED vars
  BY <1>7 DEF vars, memory, counters, TypeOK
<1>8. QED
  BY StepCases, <1>1, <1>2, <1>3, <1>4, <1>5, <1>6, <1>7

-----------------------------------------------------------------------------
\* A step that lets no run in or out leaves the guard as it is.
LEMMA SameInside ==
  ASSUME OneRunPerGraph, Inside' = Inside, running' = running,
         \A r \in Inside : runs'[r].graph = runs[r].graph
  PROVE  OneRunPerGraph'
BY DEF OneRunPerGraph

LEMMA RunsStep == TypeOK /\ OneRunPerGraph /\ [Next]_vars => OneRunPerGraph'
<1> SUFFICES ASSUME TypeOK, OneRunPerGraph, [Next]_vars
             PROVE  OneRunPerGraph'
  OBVIOUS
<1> USE SchedulerAssumption
<1>0. TypeOK'
  BY TypeStep
<1>1. ASSUME UNCHANGED <<running, runs>>
      PROVE  OneRunPerGraph'
  BY <1>1, SameInside DEF Inside
<1>2. ASSUME NEW g \in Graphs, Spawn(g)
      PROVE  OneRunPerGraph'
  <2>1. PICK r \in Slots : runs[r] = Nothing /\ runs'[r].at = "spawned"
                           /\ \A q \in Slots \ {r} : runs'[q] = runs[q]
    BY <1>2 DEF Spawn, TypeOK
  <2>2. Inside' = Inside
    BY <2>1 DEF Inside
  <2>3. QED
    BY <1>2, <2>1, <2>2, SameInside DEF Spawn, Inside
<1>3. ASSUME NEW r \in Slots, Progress(r)
      PROVE  OneRunPerGraph'
  <2>1. runs[r] # Nothing /\ runs[r] \in Runs
    BY <1>3 DEF Progress, Begin, Node, LoopEnds, Record, WriteHistory, Release, Finish, TypeOK
  <2>2. \A q \in Slots \ {r} : runs'[q] = runs[q]
    <3>1. CASE Node(r)
      BY <2>1, <3>1, PassIsRun DEF Passes, TypeOK
    <3>2. QED
      BY <1>3, <3>1 DEF Progress, Begin, LoopEnds, Record, WriteHistory, Release, Finish, TypeOK
  <2>3. CASE Begin(r)
    <3>1. CASE runs[r].graph \in running
      <4>1. runs'[r] = Nothing /\ running' = running
        BY <2>3, <3>1 DEF Begin, Skipped, TypeOK
      <4>2. Inside' = Inside
        BY <2>2, <2>3, <4>1 DEF Begin, Inside
      <4>3. QED
        BY <2>2, <2>3, <4>1, <4>2, SameInside DEF Begin, Inside
    <3>2. CASE runs[r].graph \notin running
      <4>1. /\ runs'[r].graph = runs[r].graph /\ runs'[r].at \in {"loop", "release", "record"}
            /\ running' = running \cup {runs[r].graph}
        BY <2>1, <2>3, <3>2 DEF Begin, TypeOK, Runs
      <4>2. runs'[r] # Nothing
        BY <2>1, <2>3, <3>2, <1>0 DEF Begin, TypeOK, Runs, Stages
      <4>3. Inside' = Inside \cup {r} /\ r \notin Inside
        BY <2>2, <2>3, <4>1, <4>2 DEF Begin, Inside
      <4>4. \A q \in Inside : runs'[q].graph = runs[q].graph /\ runs[q].graph \in running
        BY <2>2, <4>3 DEF Inside, OneRunPerGraph
      <4>5. QED
        BY <3>2, <4>1, <4>3, <4>4 DEF OneRunPerGraph
    <3>3. QED
      BY <3>1, <3>2
  <2>4. CASE Node(r)
    <3>1. runs'[r] \in Runs /\ runs'[r].at \in {"loop", "record"}
          /\ runs'[r].graph = runs[r].graph
      BY <2>1, <2>4, PassIsRun DEF Passes, TypeOK
    <3>2. Inside' = Inside
      BY <2>2, <2>4, <3>1 DEF Node, Inside
    <3>3. QED
      BY <2>2, <2>4, <3>1, <3>2, SameInside DEF Node, Inside
  <2>5. CASE LoopEnds(r) \/ Record(r) \/ WriteHistory(r)
    <3>1. runs'[r].graph = runs[r].graph /\ runs'[r].at \in {"record", "write", "release"}
      <4>1. CASE LoopEnds(r)
        BY <2>1, <4>1 DEF LoopEnds, Left, TypeOK, Runs
      <4>2. CASE Record(r)
        BY <2>1, <4>2 DEF Record, TypeOK, Runs
      <4>3. CASE WriteHistory(r)
        BY <2>1, <4>3 DEF WriteHistory, TypeOK, Runs
      <4>4. QED
        BY <2>5, <4>1, <4>2, <4>3
    <3>2. runs'[r] # Nothing
      <4>1. CASE LoopEnds(r)
        BY <2>1, <4>1, LeftIsRun DEF LoopEnds, TypeOK
      <4>2. CASE Record(r)
        <5>1. history' \in Histories
          BY <1>0 DEF TypeOK
        <5>2. QED
          BY <2>1, <4>2, <5>1 DEF Record, TypeOK, Runs, Stages
      <4>3. CASE WriteHistory(r)
        BY <2>1, <4>3, EmptyHistory DEF WriteHistory, TypeOK, Runs, Stages
      <4>4. QED
        BY <2>5, <4>1, <4>2, <4>3
    <3>3. Inside' = Inside
      BY <2>1, <2>2, <2>5, <3>1, <3>2 DEF LoopEnds, Record, WriteHistory, Inside
    <3>4. QED
      BY <2>2, <2>5, <3>1, <3>3, SameInside DEF LoopEnds, Record, WriteHistory, Inside
  <2>6. CASE Release(r)
    <3>1. /\ runs'[r].at = "finish" /\ running' = running \ {runs[r].graph}
          /\ r \in Inside
      BY <2>1, <2>6 DEF Release, Inside, TypeOK, Runs
    <3>2. Inside' = Inside \ {r}
      BY <2>2, <3>1 DEF Inside
    <3>3. \A q \in Inside \ {r} : runs'[q].graph = runs[q].graph
                                  /\ runs[q].graph # runs[r].graph
      BY <2>2, <3>1 DEF Inside, OneRunPerGraph
    <3>4. QED
      BY <3>1, <3>2, <3>3 DEF OneRunPerGraph
  <2>7. CASE Finish(r)
    <3>1. runs'[r] = Nothing /\ running' = running
      BY <2>7 DEF Finish, TypeOK
    <3>2. Inside' = Inside
      BY <2>2, <2>7, <3>1 DEF Finish, Inside
    <3>3. QED
      BY <2>2, <2>7, <3>1, <3>2, SameInside DEF Finish, Inside
  <2>8. QED
    BY <1>3, <2>3, <2>4, <2>5, <2>6, <2>7 DEF Progress
<1>4. CASE Close
  BY <1>4 DEF Close, OneRunPerGraph, Inside
<1>5. QED
  BY StepCases, <1>1, <1>2, <1>3, <1>4 DEF Change, WriteGraphs, Open, vars

-----------------------------------------------------------------------------
LEMMA SavesStep == TypeOK /\ SavesInv /\ [Next]_vars => SavesInv'
<1> SUFFICES ASSUME TypeOK, SavesInv, [Next]_vars
             PROVE  SavesInv'
  OBVIOUS
<1> USE SchedulerAssumption
<1>1. ASSUME NEW kept \in GraphLists, Change(kept)
      PROVE  SavesInv'
  <2>1. /\ moves' \in 1..MaxMoves /\ kept # Nothing
        /\ saves' = [saves EXCEPT ![moves'] = kept] /\ graphs' = kept
    BY <1>1 DEF Change, Copy, TypeOK
  <2>2. Saving' = Saving \cup {moves'} /\ saves'[moves'] = graphs'
    BY <2>1 DEF Saving, TypeOK
  <2>3. "graphs" \notin raced' => Saving = {}
    BY <1>1 DEF Change
  <2>4. QED
    BY <1>1, <2>2, <2>3 DEF Change, SavesInv
<1>2. ASSUME NEW n \in 1..MaxMoves, WriteGraphs(n)
      PROVE  SavesInv'
  <2>1. n \in Saving /\ Saving' = Saving \ {n} /\ graphs' = graphs /\ up' = up
    BY <1>2 DEF WriteGraphs, memory, Saving, TypeOK
  <2>2. up
    BY <2>1 DEF SavesInv
  <2>3. CASE disk' = [disk EXCEPT !.graphs = saves[n]]
             /\ raced' = IF Saving = {n} /\ saves[n] = graphs THEN raced \ {"graphs"} ELSE raced
    <3>1. disk'.graphs = saves[n]
      BY <2>3 DEF TypeOK
    <3>2. "graphs" \notin raced' => Saving = {n} /\ saves[n] = graphs
      BY <2>1, <2>2, <2>3 DEF SavesInv
    <3>3. QED
      BY <2>1, <2>2, <3>1, <3>2 DEF SavesInv
  <2>4. CASE raced' = raced \cup {"graphs"}
    BY <2>1, <2>2, <2>4 DEF SavesInv
  <2>5. QED
    BY <1>2, <2>3, <2>4 DEF WriteGraphs
<1>3. ASSUME UNCHANGED <<up, saves, graphs>>, disk'.graphs = disk.graphs,
             "graphs" \in raced => "graphs" \in raced'
      PROVE  SavesInv'
  BY <1>3 DEF SavesInv, Saving
<1>4. ASSUME NEW r \in Slots, Progress(r)
      PROVE  SavesInv'
  <2>1. UNCHANGED <<up, saves, graphs>> /\ ("graphs" \in raced => "graphs" \in raced')
    BY <1>4 DEF Progress, Begin, Node, LoopEnds, Record, WriteHistory, Release, Finish, memory
  <2>2. disk'.graphs = disk.graphs
    BY <1>4 DEF Progress, Begin, Node, LoopEnds, Record, WriteHistory, Release, Finish, TypeOK
  <2>3. QED
    BY <1>3, <2>1, <2>2
<1>5. CASE Close
  BY <1>5 DEF Close, SavesInv, Saving
<1>6. CASE Open
  BY <1>6 DEF Open, SavesInv, Saving
<1>7. QED
  BY StepCases, <1>1, <1>2, <1>3, <1>4, <1>5, <1>6 DEF Spawn, memory, vars

\* A step that moves no run to or from its write, and no history, keeps RecordsInv.
LEMMA SameRecording ==
  ASSUME RecordsInv, Recording' = Recording, up' = up, history' = history,
         disk'.history = disk.history, "history" \in raced => "history" \in raced',
         \A r \in Recording : runs'[r].snapshot = runs[r].snapshot
  PROVE  RecordsInv'
BY DEF RecordsInv

LEMMA RecordsStep == TypeOK /\ RecordsInv /\ [Next]_vars => RecordsInv'
<1> SUFFICES ASSUME TypeOK, RecordsInv, [Next]_vars
             PROVE  RecordsInv'
  OBVIOUS
<1> USE SchedulerAssumption
<1>0. TypeOK'
  BY TypeStep
<1>1. ASSUME UNCHANGED <<runs, up, history>>, disk'.history = disk.history,
             "history" \in raced => "history" \in raced'
      PROVE  RecordsInv'
  BY <1>1, SameRecording DEF Recording
<1>2. ASSUME NEW n \in 1..MaxMoves, WriteGraphs(n)
      PROVE  RecordsInv'
  <2>1. disk'.history = disk.history
    BY <1>2 DEF WriteGraphs, TypeOK
  <2>2. QED
    BY <1>1, <1>2, <2>1 DEF WriteGraphs, memory
<1>3. ASSUME NEW g \in Graphs, Spawn(g)
      PROVE  RecordsInv'
  <2>1. PICK r \in Slots : runs[r] = Nothing /\ runs'[r].at = "spawned"
                           /\ \A q \in Slots \ {r} : runs'[q] = runs[q]
    BY <1>3 DEF Spawn, TypeOK
  <2>2. Recording' = Recording
    BY <2>1 DEF Recording
  <2>3. \A q \in Recording : runs'[q].snapshot = runs[q].snapshot
    BY <2>1 DEF Recording
  <2>4. QED
    BY <1>3, <2>2, <2>3, SameRecording DEF Spawn, memory
<1>4. ASSUME NEW r \in Slots, Progress(r)
      PROVE  RecordsInv'
  <2>1. up /\ up' = up /\ runs[r] # Nothing /\ runs[r] \in Runs
    BY <1>4 DEF Progress, Begin, Node, LoopEnds, Record, WriteHistory, Release, Finish, TypeOK
  <2>2. \A q \in Slots \ {r} : runs'[q] = runs[q]
    <3>1. CASE Node(r)
      BY <2>1, <3>1, PassIsRun DEF Passes, TypeOK
    <3>2. QED
      BY <1>4, <3>1 DEF Progress, Begin, LoopEnds, Record, WriteHistory, Release, Finish, TypeOK
  <2>3. CASE Record(r)
    <3>1. history' \in Histories
      BY <1>0 DEF TypeOK
    <3>2. runs'[r].at = "write" /\ runs'[r].snapshot = history' /\ runs'[r] # Nothing
      BY <2>1, <2>3, <3>1 DEF Record, TypeOK, Runs, Stages
    <3>3. Recording' = Recording \cup {r}
      BY <2>2, <3>2 DEF Recording
    <3>4. "history" \notin raced' => Recording = {}
      BY <2>3 DEF Record
    <3>5. QED
      BY <3>2, <3>3, <3>4 DEF RecordsInv
  <2>4. CASE WriteHistory(r)
    <3>1. r \in Recording /\ runs'[r].at # "write" /\ history' = history
      BY <2>1, <2>4 DEF WriteHistory, memory, Recording, TypeOK, Runs
    <3>2. Recording' = Recording \ {r}
      BY <2>2, <3>1 DEF Recording
    <3>3. CASE disk' = [disk EXCEPT !.history = runs[r].snapshot]
               /\ raced' = IF Recording = {r} /\ runs[r].snapshot = history
                             THEN raced \ {"history"} ELSE raced
      <4>1. disk'.history = runs[r].snapshot
        BY <3>3 DEF TypeOK
      <4>2. "history" \notin raced' => Recording = {r} /\ runs[r].snapshot = history
        BY <2>1, <3>1, <3>3 DEF RecordsInv
      <4>3. QED
        BY <3>1, <3>2, <4>1, <4>2 DEF RecordsInv
    <3>4. CASE raced' = raced \cup {"history"}
      BY <3>4 DEF RecordsInv
    <3>5. QED
      BY <2>4, <3>3, <3>4 DEF WriteHistory
  <2>5. CASE Begin(r) \/ Node(r) \/ LoopEnds(r) \/ Release(r) \/ Finish(r)
    <3>1. runs[r].at # "write" /\ UNCHANGED <<memory, disk, raced>>
      BY <2>5 DEF Begin, Node, LoopEnds, Release, Finish
    <3>2. runs'[r] = Nothing \/ runs'[r].at # "write"
      <4>1. CASE Begin(r)
        BY <2>1, <4>1 DEF Begin, TypeOK, Runs
      <4>2. CASE Node(r)
        BY <2>1, <4>2, PassIsRun DEF Passes, TypeOK
      <4>3. CASE LoopEnds(r)
        BY <2>1, <4>3 DEF LoopEnds, Left, TypeOK, Runs
      <4>4. CASE Release(r) \/ Finish(r)
        BY <2>1, <4>4 DEF Release, Finish, TypeOK, Runs
      <4>5. QED
        BY <2>5, <4>1, <4>2, <4>3, <4>4
    <3>3. Recording' = Recording
      BY <2>2, <3>1, <3>2 DEF Recording
    <3>4. \A q \in Recording : runs'[q].snapshot = runs[q].snapshot
      BY <2>2, <3>1 DEF Recording
    <3>5. QED
      BY <2>1, <3>1, <3>3, <3>4, SameRecording DEF memory
  <2>6. QED
    BY <1>4, <2>3, <2>4, <2>5 DEF Progress
<1>5. CASE Close
  BY <1>5 DEF Close, RecordsInv
<1>6. CASE Open
  <2>1. Recording' = {}
    BY <1>6 DEF Open, Recording, TypeOK
  <2>2. QED
    BY <1>6, <2>1 DEF Open, RecordsInv
<1>7. QED
  BY StepCases, <1>1, <1>2, <1>3, <1>4, <1>5, <1>6 DEF Change, memory, vars

-----------------------------------------------------------------------------
LEMMA Inductive == Spec => []SchedulerInv
<1>1. SchedulerInv /\ [Next]_vars => SchedulerInv'
  BY TypeStep, RunsStep, SavesStep, RecordsStep DEF SchedulerInv
<1>2. QED
  BY SchedulerInit, <1>1, PTL DEF Spec

\* The scheduler's variables keep their types: the files hold graphs and
\* histories, and no history outgrows historyCapacity.
THEOREM SchedulerTypeCorrect == Spec => []TypeOK
BY Inductive, PTL DEF SchedulerInv

\* executeGraph's guard: one active run per graph, and the running map says which.
THEOREM OneRunTheorem == Spec => []OneRunPerGraph
BY Inductive, PTL DEF SchedulerInv

\* writeGraphs and writeHistory: with no write on its way, a file whose last
\* writes did not overlap or fail holds what memory holds.
THEOREM DiskTheorem == Spec => []DiskIsMemory
<1>1. SchedulerInv => DiskIsMemory
  BY DEF SchedulerInv, SavesInv, RecordsInv, DiskIsMemory
<1>2. QED
  BY Inductive, <1>1, PTL

-----------------------------------------------------------------------------
(***************************************************************************)
(* The player limit: a read under way began with the file and the boot that *)
(* are there, or with one that is not over.                                *)
(***************************************************************************)
\* A read that is under way has seen the file and the boot there are.
ReadsAreTimely == reading # Nil => {propertiesFile, booted} \subseteq had

LimitInv == View!MaxTypeOK /\ View!MaxIsTrue /\ ReadsAreTimely

\* It begins so.
LEMMA LimitBegins == View!MaxInit => LimitInv
<1> SUFFICES ASSUME View!MaxInit PROVE LimitInv
  OBVIOUS
<1>1. propertiesFile \in {0} \cup FileVersions
  BY LimitAssumption DEF View!MaxInit
<1>2. diskMax \in [stamp : {0} \cup FileVersions, value : {0} \cup FileVersions]
      /\ diskMax.value = diskMax.stamp
  BY DEF View!MaxInit
<1> QED
  BY <1>1, <1>2 DEF View!MaxInit, LimitInv, View!MaxTypeOK, View!MaxIsTrue, ReadsAreTimely

\* Every step of the limit keeps it so.
LEMMA LimitGoesOn == LimitInv /\ [View!MaxNext]_limitVars => LimitInv'
<1> SUFFICES ASSUME LimitInv, [View!MaxNext]_limitVars PROVE LimitInv'
  OBVIOUS
<1> USE LimitAssumption
<1>t. /\ limitUp \in BOOLEAN /\ booted \in {0} \cup FileVersions
      /\ propertiesFile \in {0} \cup FileVersions
      /\ diskMax \in [stamp : {0} \cup FileVersions, value : {0} \cup FileVersions]
      /\ reading \in {Nil} \cup FileVersions /\ shown \in {0} \cup FileVersions
      /\ diskMax.value = diskMax.stamp /\ (reading = Nil => shown \in had)
      /\ (reading # Nil => {propertiesFile, booted} \subseteq had)
  BY DEF LimitInv, View!MaxTypeOK, View!MaxIsTrue, ReadsAreTimely
<1>1. CASE View!Stat
  BY <1>1, <1>t DEF View!Stat, View!Answers, View!ResolveMaxPlayers, LimitInv, View!MaxTypeOK,
     View!MaxIsTrue, ReadsAreTimely
<1>2. CASE View!Reparse
  BY <1>2, <1>t DEF View!Reparse, View!Answers, View!ResolveMaxPlayers, LimitInv, View!MaxTypeOK,
     View!MaxIsTrue, ReadsAreTimely
<1>3. CASE View!LimitStart
  BY <1>3, <1>t DEF View!LimitStart, LimitInv, View!MaxTypeOK, View!MaxIsTrue, ReadsAreTimely
<1>4. CASE View!LimitExit
  BY <1>4, <1>t DEF View!LimitExit, LimitInv, View!MaxTypeOK, View!MaxIsTrue, ReadsAreTimely
<1>5. CASE View!Edit
  BY <1>5, <1>t DEF View!Edit, LimitInv, View!MaxTypeOK, View!MaxIsTrue, ReadsAreTimely
<1>6. CASE UNCHANGED limitVars
  BY <1>6, <1>t DEF limitVars, LimitInv, View!MaxTypeOK, View!MaxIsTrue, ReadsAreTimely
<1> QED
  BY <1>1, <1>2, <1>3, <1>4, <1>5, <1>6 DEF View!MaxNext

-----------------------------------------------------------------------------
(***************************************************************************)
(* A server's figures: a poller asks of its own boot, and what it shows is *)
(* the last that boot told.                                                *)
(***************************************************************************)
Polls == [at : {"none", "ask", "detected", "record", "wait", "done"},
          known : {Nil} \cup DOMAIN Flavors, command : DOMAIN Flavors, got : {Nil} \cup FigureBoots]
Samples == [running : BOOLEAN, boot : {0} \cup FigureBoots]

\* The shape of what is measured.
FiguresShape ==
  /\ boot \in {0} \cup FigureBoots /\ serverState \in {"offline", "starting", "running", "stopping"}
  /\ core \in {Flavors[i] : i \in DOMAIN Flavors} /\ answers \in BOOLEAN
  /\ polls \in [FigureBoots -> Polls] /\ pollsStopped \subseteq FigureBoots
  /\ rconFlavor \in {Nil} \cup DOMAIN Flavors /\ currentTPS \in {Nil} \cup FigureBoots
  /\ fresh \in BOOLEAN /\ tpsLost \in BOOLEAN /\ overtaken \in BOOLEAN
  /\ logTPS \in {Nil, "full", "low", "recovering"}
  /\ (serverState # "offline" => boot \in FigureBoots)
  /\ (serverState = "offline" => logTPS = Nil /\ ~answers)

\* A boot that is not ready has no poller, and this boot's has asked this boot's
\* server: what it got and what it found are of it.
PollersAreTimely ==
  \A b \in FigureBoots :
    /\ b > boot \/ (b = boot /\ serverState = "starting") =>
         polls[b].at = "none" /\ polls[b].got = Nil
    /\ b = boot => polls[b].got \in {Nil, boot}
    /\ b = boot /\ polls[b].at = "detected" => Flavors[polls[b].command] = core

\* While no poll outlived its boot.
FiguresAreTimely ==
  ~overtaken =>
    /\ currentTPS # Nil => serverState # "offline" /\ currentTPS = boot
    /\ rconFlavor # Nil => serverState # "offline" /\ Flavors[rconFlavor] = core
    /\ serverState # "offline" /\ polls[boot].at = "wait" /\ polls[boot].got = Nil
         /\ currentTPS # Nil => tpsLost

\* The chart, and the sample that may come to it.
RingIsInOrder ==
  /\ ring \in Seq(Samples) /\ Len(ring) <= RingCap /\ sampled \in {Nil} \cup Samples
  /\ \A i \in DOMAIN ring : ring[i].running /\ ring[i].boot <= boot
  /\ \A i, j \in DOMAIN ring : j <= i => ring[j].boot <= ring[i].boot
  /\ sampled # Nil => /\ sampled.boot <= boot
                      /\ \A i \in DOMAIN ring : ring[i].boot <= sampled.boot

FiguresInv == FiguresShape /\ PollersAreTimely /\ FiguresAreTimely /\ RingIsInOrder

\* Nil is none of the figures, and the first flavor is one.
LEMMA FigureSets ==
  /\ FigureBoots \subseteq Nat \ {0} /\ Nil \notin Nat /\ Nil \notin Samples
  /\ Nil \notin {"full", "low", "recovering"} /\ Nil \notin FigureBoots /\ Nil \notin DOMAIN Flavors
  /\ 1 \in DOMAIN Flavors /\ DOMAIN Flavors \subseteq Nat /\ RingCap \in Nat \ {0}
  /\ \A x \in Samples : x.boot \in Nat
<1>1. DOMAIN Flavors = 1 .. Len(Flavors) /\ Len(Flavors) \in Nat /\ Len(Flavors) > 0
  BY FiguresAssumption
<1>2. Nil \notin Samples
  <2>1. {0} \cup FigureBoots \subseteq Nat
    BY FiguresAssumption
  <2>2. ASSUME NEW x \in Samples PROVE x \in [running : BOOLEAN, boot : Nat]
    BY <2>1 DEF Samples
  <2> QED BY <2>2, FiguresAssumption
<1>3. {0} \cup FigureBoots \subseteq Nat
  BY FiguresAssumption
<1>4. Nil \notin Nat /\ Nil \notin {"full", "low", "recovering"}
  BY FiguresAssumption
<1>5. ASSUME NEW x \in Samples PROVE x.boot \in Nat
  <2>1. x.boot \in {0} \cup FigureBoots
    BY DEF Samples
  <2> QED BY <2>1, <1>3
<1>6. DOMAIN Flavors \subseteq Nat /\ 1 \in DOMAIN Flavors
  BY <1>1
<1>7. Nil \notin FigureBoots /\ Nil \notin DOMAIN Flavors
  BY <1>3, <1>4, <1>6
<1> QED
  BY <1>2, <1>4, <1>5, <1>6, <1>7, FiguresAssumption

\* It begins so.
LEMMA FiguresBegin == View!FiguresInit => FiguresInv
<1> SUFFICES ASSUME View!FiguresInit PROVE FiguresInv
  OBVIOUS
<1> USE FigureSets DEF View!FiguresInit
<1>1. polls \in [FigureBoots -> Polls]
  BY DEF Polls
<1>2. FiguresShape
  BY <1>1 DEF FiguresShape
<1>3. PollersAreTimely /\ FiguresAreTimely
  BY DEF PollersAreTimely, FiguresAreTimely
<1>4. RingIsInOrder
  BY DEF RingIsInOrder
<1> QED
  BY <1>2, <1>3, <1>4 DEF FiguresInv

\* What server.go and stats.go say of the figures follows.
LEMMA FiguresPromise == FiguresInv => View!FiguresTypeOK /\ View!FiguresAreSound
<1> SUFFICES ASSUME FiguresInv PROVE View!FiguresTypeOK /\ View!FiguresAreSound
  OBVIOUS
<1> USE FigureSets
<1>1. View!FiguresTypeOK
  BY DEF FiguresInv, FiguresShape, RingIsInOrder, View!FiguresTypeOK, View!Measures, Polls
<1>2. View!TPSIsOfThisBoot
  BY DEF FiguresInv, FiguresShape, FiguresAreTimely, View!TPSIsOfThisBoot, View!Running,
     View!CurrentTPS, View!LastPollFailed
<1>3. View!FlavorIsOfThisCore
  BY DEF FiguresInv, FiguresAreTimely, View!FlavorIsOfThisCore, View!Running
<1>4. View!ChartIsInOrder
  <2> SUFFICES ASSUME NEW i \in DOMAIN ring
               PROVE  ring[i].running /\ \A j \in 1 .. i : ring[j].boot <= ring[i].boot
    BY DEF View!ChartIsInOrder
  <2>1. DOMAIN ring = 1 .. Len(ring) /\ Len(ring) \in Nat
    BY DEF FiguresInv, RingIsInOrder
  <2>2. \A j \in 1 .. i : j \in DOMAIN ring /\ j <= i
    BY <2>1
  <2> QED BY <2>2 DEF FiguresInv, RingIsInOrder
<1> QED
  BY <1>1, <1>2, <1>3, <1>4 DEF View!FiguresAreSound

\* The server's own steps.
LEMMA BootsAreTimely ==
  ASSUME FiguresInv,
         \/ View!BootFigures \/ View!Ready \/ View!StopPolls \/ View!Crash \/ View!Warns \/ View!Hangs
         \/ View!MinutePasses \/ View!Ages
  PROVE  FiguresShape' /\ PollersAreTimely' /\ FiguresAreTimely' /\ RingIsInOrder'
<1> USE FigureSets
<1> USE DEF View!Running, View!Late, View!Up
<1>s. FiguresShape
  BY DEF FiguresInv
<1>p. PollersAreTimely
  BY DEF FiguresInv
<1>f. FiguresAreTimely
  BY DEF FiguresInv
<1>r. RingIsInOrder
  BY DEF FiguresInv
<1>1. CASE View!BootFigures
  <2>1. FiguresShape'
    BY <1>1, <1>s DEF View!BootFigures, View!statVars, FiguresShape
  <2>2. PollersAreTimely'
    <3>1. boot' = boot + 1 /\ polls' = polls
      BY <1>1 DEF View!BootFigures
    <3>0. boot \in Nat
      <4>1. boot \in {0} \cup FigureBoots
        BY <1>s DEF FiguresShape
      <4>2. {0} \cup FigureBoots \subseteq Nat
        BY FigureSets
      <4> QED BY <4>1, <4>2
    <3>2. ASSUME NEW b \in FigureBoots, b > boot' \/ b = boot' PROVE b > boot
      <4>1. b \in Nat
        OBVIOUS
      <4>2. b > boot + 1 \/ b = boot + 1
        BY <3>1, <3>2
      <4> QED BY <3>0, <4>1, <4>2
    <3>3. \A b \in FigureBoots : b > boot => polls[b].at = "none" /\ polls[b].got = Nil
      BY <1>p DEF PollersAreTimely
    <3>4. ASSUME NEW b \in FigureBoots, b > boot' \/ b = boot'
          PROVE  polls'[b].at = "none" /\ polls'[b].got = Nil
      BY <3>1, <3>2, <3>3, <3>4
    <3> QED BY <3>4 DEF PollersAreTimely
  <2>3. FiguresAreTimely'
    BY <1>1, <1>s, <1>f DEF View!BootFigures, FiguresAreTimely, FiguresShape
  <2>4. RingIsInOrder'
    <3>0. boot \in {0} \cup FigureBoots /\ {0} \cup FigureBoots \subseteq Nat
      BY <1>s DEF FiguresShape
    <3>1. boot \in Nat /\ boot' = boot + 1 /\ ring' = ring /\ sampled' = sampled
      BY <1>1, <3>0 DEF View!BootFigures, View!statVars
    <3>2. \A i \in DOMAIN ring : ring[i].boot \in Nat
      BY <1>r DEF RingIsInOrder
    <3>3. sampled # Nil => sampled.boot \in Nat
      BY <1>r DEF RingIsInOrder
    <3> QED
      BY <3>1, <3>2, <3>3, <1>r DEF RingIsInOrder
  <2> QED BY <2>1, <2>2, <2>3, <2>4
<1>2. CASE View!Ready
  <2>0. boot \in FigureBoots /\ View!Asking(rconFlavor) \in Polls
        /\ polls' = [polls EXCEPT ![boot] = View!Asking(rconFlavor)]
    BY <1>2, <1>s DEF View!Ready, View!Asking, FiguresShape, Polls
  <2>a. View!Asking(rconFlavor).at = "ask" /\ View!Asking(rconFlavor).got = Nil
    BY DEF View!Asking
  <2>1. FiguresShape'
    BY <1>2, <2>0, <1>s DEF View!Ready, FiguresShape
  <2>2. PollersAreTimely'
    BY <1>2, <1>s, <1>p, <2>0, <2>a DEF View!Ready, PollersAreTimely, FiguresShape
  <2>3. FiguresAreTimely'
    BY <1>2, <1>s, <1>f, <2>0, <2>a DEF View!Ready, FiguresAreTimely, FiguresShape
  <2>4. RingIsInOrder'
    BY <1>2, <1>r DEF View!Ready, View!statVars, RingIsInOrder
  <2> QED BY <2>1, <2>2, <2>3, <2>4
<1>3. CASE View!StopPolls
  BY <1>3, <1>s, <1>p, <1>f, <1>r DEF View!StopPolls, View!statVars, FiguresShape, PollersAreTimely,
     FiguresAreTimely, RingIsInOrder
<1>4. CASE View!Crash
  BY <1>4, <1>s, <1>p, <1>f, <1>r DEF View!Crash, View!statVars, FiguresShape, PollersAreTimely,
     FiguresAreTimely, RingIsInOrder
<1>5. CASE View!Warns
  BY <1>5, <1>s, <1>p, <1>f, <1>r DEF View!Warns, View!pollVars, View!statVars, FiguresShape,
     PollersAreTimely, FiguresAreTimely, RingIsInOrder
<1>6. CASE View!Hangs
  BY <1>6, <1>s, <1>p, <1>f, <1>r DEF View!Hangs, View!pollVars, View!statVars, FiguresShape,
     PollersAreTimely, FiguresAreTimely, RingIsInOrder
<1>7. CASE View!MinutePasses
  BY <1>7, <1>s, <1>p, <1>f, <1>r DEF View!MinutePasses, View!pollVars, View!statVars, FiguresShape,
     PollersAreTimely, FiguresAreTimely, RingIsInOrder
<1>8. CASE View!Ages
  BY <1>8, <1>s, <1>p, <1>f, <1>r DEF View!Ages, View!lifeVars, View!statVars, FiguresShape,
     PollersAreTimely, FiguresAreTimely, RingIsInOrder
<1> QED
  BY <1>1, <1>2, <1>3, <1>4, <1>5, <1>6, <1>7, <1>8

\* A poller that takes a step of its own leaves what is said of the others.
LEMMA PollMoves ==
  ASSUME FiguresInv, NEW b \in FigureBoots, NEW p \in Polls, polls[b].at # "none",
         polls' = [polls EXCEPT ![b] = p],
         UNCHANGED <<boot, serverState, core, answers, pollsStopped, logTPS>>,
         b = boot => p.got \in {Nil, boot} /\ (p.at = "detected" => Flavors[p.command] = core)
  PROVE  polls' \in [FigureBoots -> Polls] /\ PollersAreTimely'
<1> USE FigureSets
<1>1. polls \in [FigureBoots -> Polls] /\ boot \in {0} \cup FigureBoots
  BY DEF FiguresInv, FiguresShape
<1>2. PollersAreTimely
  BY DEF FiguresInv
<1>3. ~(b > boot) /\ ~(b = boot /\ serverState = "starting")
  BY <1>2 DEF PollersAreTimely
<1> QED
  BY <1>1, <1>2, <1>3 DEF PollersAreTimely

\* The polls.
LEMMA PollsAreTimely ==
  ASSUME FiguresInv, NEW b \in FigureBoots,
         View!Ask(b) \/ View!Detected(b) \/ View!RecordRconTPS(b) \/ View!Again(b)
  PROVE  FiguresShape' /\ PollersAreTimely' /\ FiguresAreTimely' /\ RingIsInOrder'
<1> USE FigureSets
<1>s. FiguresShape
  BY DEF FiguresInv
<1>p. PollersAreTimely
  BY DEF FiguresInv
<1>f. FiguresAreTimely
  BY DEF FiguresInv
<1>b. /\ polls[b] \in Polls /\ polls[b].at \in {"none", "ask", "detected", "record", "wait", "done"}
      /\ polls[b].known \in {Nil} \cup DOMAIN Flavors /\ polls[b].command \in DOMAIN Flavors
      /\ polls[b].got \in {Nil} \cup FigureBoots
  BY <1>s DEF FiguresShape, Polls
<1>l. /\ UNCHANGED <<boot, serverState, core, answers, pollsStopped, logTPS>>
      /\ UNCHANGED <<ring, sampled>>
  BY DEF View!Ask, View!Detected, View!RecordRconTPS, View!Again, View!lifeVars, View!statVars
<1>r. RingIsInOrder'
  BY <1>l DEF FiguresInv, RingIsInOrder
<1>1. CASE View!Ask(b)
  <2>1. PICK p \in Polls : /\ polls' = [polls EXCEPT ![b] = p]
                           /\ p.at # "wait" /\ (p.got # polls[b].got => p.got = boot /\ boot \in FigureBoots)
                           /\ (p.at = "detected" => Flavors[p.command] = core)
    <3>1. CASE answers /\ Flavors[polls[b].command] = core
      <4> DEFINE q == [polls[b] EXCEPT !.at = IF polls[b].known = Nil THEN "detected" ELSE "record",
                                       !.got = boot]
      <4>1. boot \in FigureBoots
        BY <3>1, <1>s DEF FiguresShape
      <4>2. q \in Polls
        BY <4>1, <1>b DEF Polls
      <4>3. q.at \in {"detected", "record"} /\ q.got = boot /\ q.command = polls[b].command
        BY <1>b DEF Polls
      <4>4. polls' = [polls EXCEPT ![b] = q]
        BY <1>1, <3>1 DEF View!Ask, View!Step
      <4> QED BY <4>1, <4>2, <4>3, <4>4, <3>1
    <3>2. CASE /\ ~(answers /\ Flavors[polls[b].command] = core)
               /\ polls[b].known = Nil /\ polls[b].command < Len(Flavors)
      <4> DEFINE q == [polls[b] EXCEPT !.command = polls[b].command + 1]
      <4>1. polls[b].command + 1 \in DOMAIN Flavors
        BY <3>2, <1>b, FiguresAssumption
      <4>2. q \in Polls /\ q.at = polls[b].at /\ q.got = polls[b].got
        BY <4>1, <1>b DEF Polls
      <4>3. polls' = [polls EXCEPT ![b] = q] /\ polls[b].at = "ask"
        BY <1>1, <3>2 DEF View!Ask, View!Step
      <4> QED BY <4>2, <4>3
    <3>3. CASE /\ ~(answers /\ Flavors[polls[b].command] = core)
               /\ ~(polls[b].known = Nil /\ polls[b].command < Len(Flavors))
      <4> DEFINE q == [polls[b] EXCEPT !.at = "record"]
      <4>2. q \in Polls /\ q.at = "record" /\ q.got = polls[b].got
        BY <1>b DEF Polls
      <4>3. polls' = [polls EXCEPT ![b] = q]
        BY <1>1, <3>3 DEF View!Ask, View!Step
      <4> QED BY <4>2, <4>3
    <3> QED BY <3>1, <3>2, <3>3
  <2>2. /\ UNCHANGED <<rconFlavor, currentTPS, fresh, tpsLost, overtaken>> /\ polls[b].at = "ask"
    BY <1>1 DEF View!Ask
  <2>3. polls' \in [FigureBoots -> Polls] /\ PollersAreTimely'
    <3>1. b = boot => p.got \in {Nil, boot} /\ (p.at = "detected" => Flavors[p.command] = core)
      BY <2>1, <1>p DEF PollersAreTimely
    <3> QED BY <3>1, <2>1, <2>2, <1>l, PollMoves
  <2>4. FiguresAreTimely'
    BY <2>1, <2>2, <1>s, <1>l, <1>f DEF FiguresAreTimely, FiguresShape
  <2> QED
    BY <2>2, <2>3, <2>4, <1>s, <1>l, <1>r DEF FiguresShape
<1>2. CASE View!Detected(b)
  <2> DEFINE q == [polls[b] EXCEPT !.at = "record"]
  <2>1. q \in Polls /\ q.at = "record" /\ q.got = polls[b].got
    BY <1>b DEF Polls
  <2>2. /\ polls' = [polls EXCEPT ![b] = q] /\ polls[b].at = "detected" /\ rconFlavor' = polls[b].command
        /\ overtaken' = (overtaken \/ ~(b = boot /\ serverState # "offline"))
        /\ UNCHANGED <<currentTPS, fresh, tpsLost>>
    BY <1>2 DEF View!Detected, View!Step, View!Late, View!Up, View!Running
  <2> HIDE DEF q
  <2>3. polls' \in [FigureBoots -> Polls] /\ PollersAreTimely'
    <3>1. b = boot => q.got \in {Nil, boot} /\ (q.at = "detected" => Flavors[q.command] = core)
      BY <2>1, <1>p DEF PollersAreTimely
    <3> QED BY <3>1, <2>1, <2>2, <1>l, PollMoves
  <2>4. FiguresAreTimely'
    <3> SUFFICES ASSUME ~overtaken' PROVE FiguresAreTimely'
      BY DEF FiguresAreTimely
    <3>1. ~overtaken /\ b = boot /\ serverState # "offline" /\ Flavors[polls[b].command] = core
      BY <2>2, <1>s, <1>p DEF PollersAreTimely, FiguresShape
    <3>2. polls'[boot].at = "record"
      BY <2>1, <2>2, <3>1, <1>s DEF FiguresShape
    <3> QED
      BY <3>1, <3>2, <2>2, <1>l, <1>f DEF FiguresAreTimely
  <2> QED
    BY <2>2, <2>3, <2>4, <1>b, <1>s, <1>l, <1>r DEF FiguresShape
<1>3. CASE View!RecordRconTPS(b)
  <2> DEFINE q == [polls[b] EXCEPT !.at = "wait"]
  <2>1. q \in Polls /\ q.at = "wait" /\ q.got = polls[b].got
    BY <1>b DEF Polls
  <2>2. /\ polls' = [polls EXCEPT ![b] = q] /\ polls[b].at = "record"
        /\ currentTPS' = IF polls[b].got # Nil THEN polls[b].got ELSE currentTPS
        /\ fresh' = (polls[b].got # Nil) /\ rconFlavor' = rconFlavor
        /\ tpsLost' = (IF polls[b].got # Nil THEN FALSE ELSE tpsLost \/ currentTPS # Nil)
        /\ overtaken' = (overtaken \/ ~(b = boot /\ serverState # "offline"))
    BY <1>3 DEF View!RecordRconTPS, View!LostBy, View!Step, View!Late, View!Up, View!Running
  <2> HIDE DEF q
  <2>3. polls' \in [FigureBoots -> Polls] /\ PollersAreTimely'
    <3>1. b = boot => q.got \in {Nil, boot} /\ (q.at = "detected" => Flavors[q.command] = core)
      BY <2>1, <1>p DEF PollersAreTimely
    <3> QED BY <3>1, <2>1, <2>2, <1>l, PollMoves
  <2>4. FiguresAreTimely'
    <3> SUFFICES ASSUME ~overtaken' PROVE FiguresAreTimely'
      BY DEF FiguresAreTimely
    <3>1. ~overtaken /\ b = boot /\ serverState # "offline" /\ polls[b].got \in {Nil, boot}
      BY <2>2, <1>s, <1>p DEF PollersAreTimely, FiguresShape
    <3>2. polls'[boot].got = polls[b].got
      BY <2>1, <2>2, <3>1, <1>s DEF FiguresShape
    <3> QED
      BY <3>1, <3>2, <2>2, <1>l, <1>f DEF FiguresAreTimely
  <2>5. tpsLost' \in BOOLEAN /\ fresh' \in BOOLEAN /\ overtaken' \in BOOLEAN /\ currentTPS' \in {Nil} \cup FigureBoots
    BY <2>2, <1>b, <1>s DEF FiguresShape
  <2> QED
    BY <2>2, <2>3, <2>4, <2>5, <1>b, <1>s, <1>l, <1>r DEF FiguresShape
<1>4. CASE View!Again(b)
  <2>1. PICK p \in Polls : /\ polls' = [polls EXCEPT ![b] = p]
                           /\ p.at \in {"ask", "done"} /\ p.got \in {Nil, polls[b].got}
    <3>1. CASE View!Step(b, View!Asking(rconFlavor))
      <4>1. View!Asking(rconFlavor) \in Polls /\ View!Asking(rconFlavor).at = "ask"
            /\ View!Asking(rconFlavor).got = Nil
        BY <1>s DEF View!Asking, FiguresShape, Polls
      <4> QED BY <4>1, <3>1 DEF View!Step
    <3>2. CASE View!Step(b, [polls[b] EXCEPT !.at = "done"])
      <4>1. /\ [polls[b] EXCEPT !.at = "done"] \in Polls /\ [polls[b] EXCEPT !.at = "done"].at = "done"
            /\ [polls[b] EXCEPT !.at = "done"].got = polls[b].got
        BY <1>b DEF Polls
      <4> QED BY <4>1, <3>2 DEF View!Step
    <3> QED BY <1>4, <3>1, <3>2 DEF View!Again
  <2>2. /\ UNCHANGED <<rconFlavor, currentTPS, fresh, tpsLost, overtaken>> /\ polls[b].at = "wait"
    BY <1>4 DEF View!Again
  <2>3. polls' \in [FigureBoots -> Polls] /\ PollersAreTimely'
    <3>1. b = boot => p.got \in {Nil, boot} /\ (p.at = "detected" => Flavors[p.command] = core)
      BY <2>1, <1>p DEF PollersAreTimely
    <3> QED BY <3>1, <2>1, <2>2, <1>l, PollMoves
  <2>4. FiguresAreTimely'
    BY <2>1, <2>2, <1>s, <1>l, <1>f DEF FiguresAreTimely, FiguresShape
  <2> QED
    BY <2>2, <2>3, <2>4, <1>s, <1>l, <1>r DEF FiguresShape
<1> QED
  BY <1>1, <1>2, <1>3, <1>4

\* The stats' ticks.
LEMMA TicksAreInOrder ==
  ASSUME FiguresInv, View!TickReads \/ View!TickAppends
  PROVE  FiguresShape' /\ PollersAreTimely' /\ FiguresAreTimely' /\ RingIsInOrder'
<1> USE FigureSets
<1>0. /\ UNCHANGED <<boot, serverState, core, answers, pollsStopped, logTPS>>
      /\ UNCHANGED <<polls, rconFlavor, currentTPS, fresh, tpsLost, overtaken>>
  BY DEF View!TickReads, View!TickAppends, View!lifeVars, View!pollVars
<1>1. FiguresShape' /\ PollersAreTimely' /\ FiguresAreTimely'
  BY <1>0 DEF FiguresInv, FiguresShape, PollersAreTimely, FiguresAreTimely
<1>r. /\ ring \in Seq(Samples) /\ Len(ring) <= RingCap /\ sampled \in {Nil} \cup Samples
      /\ \A i \in DOMAIN ring : ring[i].running /\ ring[i].boot <= boot
      /\ \A i, j \in DOMAIN ring : j <= i => ring[j].boot <= ring[i].boot
      /\ sampled # Nil => /\ sampled.boot <= boot
                          /\ \A i \in DOMAIN ring : ring[i].boot <= sampled.boot
  BY DEF FiguresInv, RingIsInOrder
<1>2. CASE View!TickReads
  <2>1. sampled' \in Samples /\ sampled'.boot = boot /\ ring' = ring
    BY <1>2 DEF View!TickReads, View!Running, Samples, FiguresInv, FiguresShape
  <2> QED
    BY <2>1, <1>r, <1>0, <1>1 DEF RingIsInOrder, Samples, FiguresInv, FiguresShape
<1>3. CASE View!TickAppends /\ ~sampled.running
  BY <1>3, <1>0, <1>1, <1>r DEF View!TickAppends, RingIsInOrder
<1>4. CASE View!TickAppends /\ sampled.running
  <2>1. sampled \in Samples /\ sampled.running /\ ring' = View!Push(ring, sampled) /\ sampled' = Nil
    BY <1>4, <1>r DEF View!TickAppends
  <2> DEFINE rest == IF Len(ring) >= RingCap THEN Tail(ring) ELSE ring
  <2>2. /\ rest \in Seq(Samples) /\ Len(rest) < RingCap
        /\ \A i \in DOMAIN rest : rest[i].running /\ rest[i].boot <= sampled.boot
        /\ \A i, j \in DOMAIN rest : j <= i => rest[j].boot <= rest[i].boot
    <3>1. CASE Len(ring) >= RingCap
      <4>1. ring # <<>> /\ rest = Tail(ring) /\ Len(rest) = Len(ring) - 1 /\ rest \in Seq(Samples)
        BY <3>1, <1>r
      <4>2. \A i \in DOMAIN rest : i \in Nat /\ rest[i] = ring[i + 1] /\ i + 1 \in DOMAIN ring
        BY <4>1, <1>r
      <4> QED BY <4>1, <4>2, <1>r, <2>1
    <3>2. CASE ~(Len(ring) >= RingCap)
      BY <3>2, <1>r, <2>1
    <3> QED BY <3>1, <3>2
  <2>3. ring' = Append(rest, sampled)
    BY <2>1 DEF View!Push
  <2> HIDE DEF rest
  <2>4. /\ ring' \in Seq(Samples) /\ Len(ring') = Len(rest) + 1 /\ Len(ring') <= RingCap
        /\ \A i \in DOMAIN ring' : (i \in DOMAIN rest /\ ring'[i] = rest[i])
                                   \/ (i = Len(rest) + 1 /\ ring'[i] = sampled)
    BY <2>1, <2>2, <2>3
  <2>5. sampled.boot \in Nat /\ sampled.boot <= boot /\ boot \in Nat
        /\ \A i \in DOMAIN rest : i \in Nat /\ i <= Len(rest) /\ rest[i].boot \in Nat
    <3>2. boot \in Nat
      BY DEF FiguresInv, FiguresShape
    <3> QED BY <2>1, <2>2, <1>r, <3>2
  <2>6. \A i \in DOMAIN ring' : ring'[i].running /\ ring'[i].boot <= boot
    BY <2>1, <2>2, <2>4, <2>5
  <2>7. ASSUME NEW i \in DOMAIN ring', NEW j \in DOMAIN ring', j <= i
        PROVE  ring'[j].boot <= ring'[i].boot
    BY <2>2, <2>4, <2>5, <2>7
  <2> QED
    BY <2>1, <2>4, <2>6, <2>7, <1>0, <1>1 DEF RingIsInOrder
<1> QED
  BY <1>2, <1>3, <1>4

\* Every step of the figures keeps it so.
LEMMA FiguresGoOn == FiguresInv /\ [View!FiguresNext]_figuresVars => FiguresInv'
<1> SUFFICES ASSUME FiguresInv, [View!FiguresNext]_figuresVars PROVE FiguresInv'
  OBVIOUS
<1>1. CASE \/ View!BootFigures \/ View!Ready \/ View!StopPolls \/ View!Crash \/ View!Warns \/ View!Hangs
           \/ View!MinutePasses \/ View!Ages
  BY <1>1, BootsAreTimely DEF FiguresInv
<1>2. CASE \E b \in FigureBoots : View!Ask(b) \/ View!Detected(b) \/ View!RecordRconTPS(b) \/ View!Again(b)
  BY <1>2, PollsAreTimely DEF FiguresInv
<1>3. CASE View!TickReads \/ View!TickAppends
  BY <1>3, TicksAreInOrder DEF FiguresInv
<1>4. CASE UNCHANGED figuresVars
  BY <1>4 DEF figuresVars, FiguresInv, FiguresShape, PollersAreTimely, FiguresAreTimely, RingIsInOrder
<1> QED
  BY <1>1, <1>2, <1>3, <1>4 DEF View!FiguresNext

-----------------------------------------------------------------------------
(***************************************************************************)
(* Konnekt's own update: what is downloaded, attested and put in place.    *)
(***************************************************************************)
Settled == inMemory \in SnapshotBuilds \/ channel = "snapshot"

\* A build that may take the executable's place.
Fits(b) == b \in attested /\ b \in KonnektBuilds /\ b > inMemory /\ (b \in SnapshotBuilds => Settled)

\* A release that a call may have resolved.
ReleaseFits(rel) ==
  /\ rel.build \in KonnektBuilds /\ rel.build > inMemory
  /\ IF rel.floats THEN Settled ELSE rel.build \notin SnapshotBuilds

\* What GitHub holds: stable builds, and a snapshot newer than this Konnekt.
HoldingsFit ==
  /\ released \notin SnapshotBuilds
  /\ rolling # Nil => rolling \in SnapshotBuilds /\ rolling > inMemory

\* What the calls hold.
CallFits(c) ==
  /\ c.at \in {"resolved", "proved"} => ReleaseFits(c.rel)
  /\ c.at \in {"proved", "downloaded", "writing", "written"} => Fits(c.sum)
CallsFit == \A i \in Konnekt!Calls : CallFits(installs[i])

TwoAsked == \E i, j \in Konnekt!Calls : i # j /\ installs[i] # Konnekt!Unused /\ installs[j] # Konnekt!Unused

\* The file beside the executable is half of one only while a call writes it.
SpareFits ==
  /\ spare # <<>> => spare[1] = Nil \/ Fits(spare[1])
  /\ spare # <<>> /\ spare[1] = Nil => \E i \in Konnekt!Calls : installs[i].at = "writing"
ExeFits == exe = inMemory \/ (exe = Nil /\ TwoAsked) \/ Fits(exe)

\* While nothing moved, no snapshot would be offered in place of a stable release.
NoSnapshot == \A c \in Konnekt!Candidates(Konnekt!Consulted) : ~c.floats
OffersStand ==
  /\ ~moved /\ about.status = "available" /\ ~about.info.floats => NoSnapshot
  /\ ~moved => \A i \in Konnekt!Calls :
                 installs[i].at = "resolving" /\ ~installs[i].rel.floats => NoSnapshot
  /\ ~unasked

ConfirmsStand ==
  /\ about.agreed # Nil => about.agreed = about.info.build
  /\ about.status \in {"closed", "checking"} => about.agreed = Nil

KonnektInv ==
  /\ Konnekt!SelfTypeOK /\ HoldingsFit /\ CallsFit /\ SpareFits /\ ExeFits /\ OffersStand
  /\ ConfirmsStand /\ Konnekt!OneKonnekt

CallSet == [at : {"unused", "resolving", "resolved", "proved",
                  "downloaded", "writing", "written", "applied", "over"},
            rel : Konnekt!Releases, sum : KonnektBuilds \cup {Nil}]
PaneSet == [status : {"closed", "idle", "checking", "available", "upToDate", "error",
                      "downloading", "installFailed"},
            info : Konnekt!Releases, agreed : KonnektBuilds \cup {Nil}]

\* The types, by the names used here.
LEMMA KonnektTypes ==
  Konnekt!SelfTypeOK <=>
    /\ released \in KonnektBuilds \cup {Nil} /\ rolling \in KonnektBuilds \cup {Nil}
    /\ attested \subseteq KonnektBuilds /\ channel \in {"stable", "snapshot"}
    /\ about \in PaneSet /\ installs \in [Konnekt!Calls -> CallSet]
    /\ spare \in {<<>>} \cup {<<b>> : b \in KonnektBuilds \cup {Nil}} /\ exe \in KonnektBuilds \cup {Nil}
    /\ inMemory \in KonnektBuilds /\ first \in {"open", "closing", "gone"}
    /\ second \in {"none", "starting", "up", "refused"}
    /\ moved \in BOOLEAN /\ unasked \in BOOLEAN
BY DEF Konnekt!SelfTypeOK, CallSet, PaneSet

\* What a step leaves alone keeps its type.
LEMMA KonnektTypesHold ==
  Konnekt!SelfTypeOK' <=>
    /\ released' \in KonnektBuilds \cup {Nil} /\ rolling' \in KonnektBuilds \cup {Nil}
    /\ attested' \subseteq KonnektBuilds /\ channel' \in {"stable", "snapshot"}
    /\ about' \in PaneSet /\ installs' \in [Konnekt!Calls -> CallSet]
    /\ spare' \in {<<>>} \cup {<<b>> : b \in KonnektBuilds \cup {Nil}} /\ exe' \in KonnektBuilds \cup {Nil}
    /\ inMemory' \in KonnektBuilds /\ first' \in {"open", "closing", "gone"}
    /\ second' \in {"none", "starting", "up", "refused"}
    /\ moved' \in BOOLEAN /\ unasked' \in BOOLEAN
BY DEF Konnekt!SelfTypeOK, CallSet, PaneSet

\* Nil is none of what stands beside it.
LEMMA KonnektSets ==
  /\ KonnektBuilds \subseteq Nat /\ Nil \notin KonnektBuilds /\ Nil \notin SnapshotBuilds
  /\ SnapshotBuilds \subseteq KonnektBuilds /\ Konnekt!None \in Konnekt!Releases
  /\ Konnekt!Unused \in CallSet /\ Konnekt!Over \in CallSet /\ Konnekt!Over.at = "over"
  /\ Konnekt!Unused.at = "unused" /\ Konnekt!Blank \in PaneSet /\ Konnekt!Closed \in PaneSet
  /\ Konnekt!Checking \in PaneSet /\ Konnekt!Blank.status = "idle" /\ Konnekt!Closed.status = "closed"
  /\ Konnekt!Checking.status = "checking" /\ Konnekt!Blank.agreed = Nil /\ Konnekt!Closed.agreed = Nil
  /\ Konnekt!Checking.agreed = Nil
BY KonnektAssumption DEF Konnekt!None, Konnekt!Releases, Konnekt!Unused, Konnekt!Over, Konnekt!Blank,
   Konnekt!Closed, Konnekt!Checking, CallSet, PaneSet

\* It begins so.
LEMMA KonnektBegins == Konnekt!SelfInit => KonnektInv
<1> SUFFICES ASSUME Konnekt!SelfInit PROVE KonnektInv
  OBVIOUS
<1> USE KonnektSets
<1>0. /\ released = Nil /\ rolling = Nil /\ attested = {} /\ channel \in {"stable", "snapshot"}
      /\ about = Konnekt!Closed /\ installs = [i \in Konnekt!Calls |-> Konnekt!Unused]
      /\ inMemory \in OldBuilds /\ exe = inMemory /\ spare = <<>> /\ first = "open" /\ second = "none"
      /\ moved = FALSE /\ unasked = FALSE
  BY DEF Konnekt!SelfInit
<1>1. Konnekt!SelfTypeOK
  BY <1>0, KonnektTypes, KonnektAssumption
<1>2. HoldingsFit /\ CallsFit /\ SpareFits /\ ExeFits
  BY <1>0 DEF HoldingsFit, CallsFit, CallFits, SpareFits, ExeFits
<1>3. OffersStand /\ ConfirmsStand /\ Konnekt!OneKonnekt
  BY <1>0 DEF OffersStand, ConfirmsStand, Konnekt!OneKonnekt
<1> QED
  BY <1>1, <1>2, <1>3 DEF KonnektInv

\* What update.go promises follows.
LEMMA KonnektPromise == KonnektInv => Konnekt!SelfTypeOK /\ Konnekt!UpdateIsSound
<1> SUFFICES ASSUME KonnektInv PROVE Konnekt!SelfTypeOK /\ Konnekt!UpdateIsSound
  OBVIOUS
<1> USE KonnektSets
<1>1. Konnekt!ReplacedByRelease
  BY DEF KonnektInv, ExeFits, TwoAsked, Fits, Konnekt!ReplacedByRelease, Konnekt!Newer
<1>2. Konnekt!OptingOutIsReal
  BY DEF KonnektInv, ExeFits, Fits, Settled, Konnekt!OptingOutIsReal, Konnekt!EffectiveChannel
<1>3. Konnekt!SnapshotIsConfirmed
  BY DEF KonnektInv, OffersStand, ConfirmsStand, Konnekt!SnapshotIsConfirmed
<1> QED
  BY <1>1, <1>2, <1>3 DEF KonnektInv, Konnekt!UpdateIsSound

\* An offer is newer, and a snapshot only to who takes snapshots.
LEMMA OffersFit ==
  ASSUME KonnektInv, NEW answering \in SUBSET Konnekt!Consulted, NEW c \in Konnekt!Offer(answering)
  PROVE  /\ c \in Konnekt!Releases /\ ReleaseFits(c) /\ c \in Konnekt!Candidates(answering)
         /\ c.floats \in BOOLEAN /\ c.build = IF c.floats THEN rolling ELSE released
<1> USE KonnektSets
<1>1. c \in Konnekt!Candidates(answering) /\ c.build > inMemory
  BY DEF Konnekt!Offer, Konnekt!Newer
<1>2. PICK e \in answering : c \in Konnekt!Published(e)
  BY <1>1 DEF Konnekt!Candidates
<1>3. e \in {"stable", "snapshot"} /\ (e = "snapshot" => Settled)
  BY DEF Konnekt!Consulted, Konnekt!EffectiveChannel, Settled
<1>4. /\ c = [build |-> IF e = "stable" THEN released ELSE rolling, floats |-> e = "snapshot"]
      /\ c.build # Nil
  BY <1>2 DEF Konnekt!Published
<1>5. c.floats = (e = "snapshot") /\ c.build = IF c.floats THEN rolling ELSE released
  BY <1>3, <1>4
<1>6. c.build \in KonnektBuilds /\ (~c.floats => c.build \notin SnapshotBuilds)
  BY <1>4, <1>5, KonnektTypes DEF KonnektInv, HoldingsFit
<1>7. c \in Konnekt!Releases
  BY <1>4, <1>5, <1>6 DEF Konnekt!Releases
<1> QED
  BY <1>1, <1>3, <1>5, <1>6, <1>7 DEF ReleaseFits

\* A stable release is offered to who takes snapshots if there is no newer snapshot.
LEMMA StableIsNewest ==
  ASSUME KonnektInv, NEW c \in Konnekt!Offer(Konnekt!Consulted), ~c.floats
  PROVE  NoSnapshot
<1> USE KonnektSets
<1>1. c \in Konnekt!Candidates(Konnekt!Consulted) /\ c.build = released /\ c.build \in KonnektBuilds
  BY OffersFit DEF ReleaseFits
<1> SUFFICES ASSUME NEW d \in Konnekt!Candidates(Konnekt!Consulted), d.floats PROVE FALSE
  BY DEF NoSnapshot
<1>2. PICK e \in Konnekt!Consulted : d \in Konnekt!Published(e)
  BY DEF Konnekt!Candidates
<1>3. d.build = rolling /\ rolling # Nil /\ rolling \in SnapshotBuilds
  <2>1. e \in {"stable", "snapshot"}
    BY DEF Konnekt!Consulted
  <2>2. d = [build |-> IF e = "stable" THEN released ELSE rolling, floats |-> e = "snapshot"] /\ d.build # Nil
    BY <1>2 DEF Konnekt!Published
  <2> QED BY <2>1, <2>2 DEF KonnektInv, HoldingsFit
<1>4. c.build >= d.build /\ d.build >= c.build
  <2> DEFINE found == UNION {Konnekt!Published(x) : x \in Konnekt!Consulted}
  <2>1. Konnekt!Candidates(Konnekt!Consulted) = {x \in found : \A y \in found : x.build >= y.build}
    BY DEF Konnekt!Candidates
  <2> HIDE DEF found
  <2> QED BY <2>1, <1>1
<1>5. c.build = d.build
  <2>1. c.build \in Nat /\ d.build \in Nat
    BY <1>1, <1>3
  <2> QED BY <2>1, <1>4
<1> QED
  BY <1>1, <1>3, <1>5 DEF KonnektInv, HoldingsFit

\* What an answer would offer is as it was, if nothing was published or set.
LEMMA OffersStay ==
  ASSUME UNCHANGED <<released, rolling, channel, inMemory>>
  PROVE  NoSnapshot' <=> NoSnapshot
BY DEF NoSnapshot, Konnekt!Candidates, Konnekt!Consulted, Konnekt!Published, Konnekt!EffectiveChannel

\* A release that is cut or dropped, and the channel, take nothing away from what fits.
LEMMA ReleasesMove ==
  ASSUME KonnektInv,
         Konnekt!CutRelease \/ Konnekt!DropSnapshot \/ Konnekt!CreateSnapshot \/ Konnekt!SetChannel
  PROVE  KonnektInv'
<1> USE KonnektSets
<1>t. /\ released \in KonnektBuilds \cup {Nil} /\ rolling \in KonnektBuilds \cup {Nil}
      /\ attested \subseteq KonnektBuilds /\ channel \in {"stable", "snapshot"}
      /\ about \in PaneSet /\ installs \in [Konnekt!Calls -> CallSet]
      /\ spare \in {<<>>} \cup {<<b>> : b \in KonnektBuilds \cup {Nil}} /\ exe \in KonnektBuilds \cup {Nil}
      /\ inMemory \in KonnektBuilds /\ first \in {"open", "closing", "gone"}
      /\ second \in {"none", "starting", "up", "refused"}
      /\ moved \in BOOLEAN /\ unasked \in BOOLEAN
  BY KonnektTypes DEF KonnektInv
<1>l. /\ UNCHANGED <<about, installs, spare, exe, inMemory, first, second, unasked>>
      /\ attested \subseteq attested' /\ (channel = "snapshot" => channel' = "snapshot")
      /\ channel' \in {"stable", "snapshot"}
  BY <1>t DEF Konnekt!CutRelease, Konnekt!DropSnapshot, Konnekt!CreateSnapshot, Konnekt!SetChannel
<1>1. /\ released' \in KonnektBuilds \cup {Nil} /\ rolling' \in KonnektBuilds \cup {Nil}
      /\ attested' \subseteq KonnektBuilds /\ moved' \in BOOLEAN /\ HoldingsFit'
  <2>h. HoldingsFit
    BY DEF KonnektInv
  <2>1. CASE Konnekt!CutRelease
    BY <2>1, <2>h, <1>t DEF Konnekt!CutRelease, Konnekt!Offered, HoldingsFit
  <2>2. CASE Konnekt!DropSnapshot
    BY <2>2, <2>h, <1>t DEF Konnekt!DropSnapshot, HoldingsFit
  <2>3. CASE Konnekt!CreateSnapshot
    BY <2>3, <2>h, <1>t DEF Konnekt!CreateSnapshot, Konnekt!Offered, HoldingsFit
  <2>4. CASE Konnekt!SetChannel
    BY <2>4, <2>h, <1>t DEF Konnekt!SetChannel, Konnekt!Offered, HoldingsFit
  <2> QED BY <2>1, <2>2, <2>3, <2>4
<1>2. Konnekt!SelfTypeOK'
  BY <1>1, <1>l, <1>t, KonnektTypesHold
<1>3. CallsFit' /\ SpareFits' /\ ExeFits'
  <2>1. CallsFit'
    BY <1>l DEF KonnektInv, CallsFit, CallFits, ReleaseFits, Fits, Settled
  <2>2. SpareFits'
    BY <1>l DEF KonnektInv, SpareFits, Fits, Settled
  <2>3. ExeFits'
    BY <1>l DEF KonnektInv, ExeFits, TwoAsked, Fits, Settled
  <2> QED BY <2>1, <2>2, <2>3
<1>4. OffersStand'
  <2>o. OffersStand
    BY DEF KonnektInv
  <2>1. CASE Konnekt!CutRelease \/ Konnekt!CreateSnapshot \/ Konnekt!SetChannel
    <3>1. moved' = Konnekt!Offered
      BY <2>1 DEF Konnekt!CutRelease, Konnekt!CreateSnapshot, Konnekt!SetChannel
    <3> QED
      BY <3>1, <1>l, <2>o DEF OffersStand, Konnekt!Offered
  <2>2. CASE Konnekt!DropSnapshot
    <3>1. NoSnapshot'
      <4>1. rolling' = Nil
        BY <2>2 DEF Konnekt!DropSnapshot
      <4>2. ASSUME NEW e \in {"stable", "snapshot"}, NEW c \in Konnekt!Published(e)'
            PROVE  ~c.floats
        <5>1. e # "snapshot"
          BY <4>1 DEF Konnekt!Published
        <5>2. c.floats = (e = "snapshot")
          BY <5>1, <4>2 DEF Konnekt!Published
        <5>3. ~c.floats
          BY <5>1, <5>2, Zenon
        <5> QED BY <5>3
      <4> QED
        BY <4>2 DEF NoSnapshot, Konnekt!Candidates, Konnekt!Consulted
    <3> QED
      BY <3>1, <1>l, <2>o DEF OffersStand
  <2> QED BY <2>1, <2>2
<1>5. ConfirmsStand' /\ Konnekt!OneKonnekt'
  BY <1>l DEF KonnektInv, ConfirmsStand, Konnekt!OneKonnekt
<1> QED
  BY <1>1, <1>2, <1>3, <1>4, <1>5 DEF KonnektInv

\* The About pane installs nothing by itself.
LEMMA PaneMoves ==
  ASSUME KonnektInv,
         \/ Konnekt!OpenPane \/ Konnekt!ClosePane \/ Konnekt!RunCheck \/ Konnekt!CheckAnswered
         \/ Konnekt!Confirm
  PROVE  KonnektInv'
<1> USE KonnektSets
<1>t. /\ released \in KonnektBuilds \cup {Nil} /\ rolling \in KonnektBuilds \cup {Nil}
      /\ attested \subseteq KonnektBuilds /\ channel \in {"stable", "snapshot"}
      /\ about \in PaneSet /\ installs \in [Konnekt!Calls -> CallSet]
      /\ spare \in {<<>>} \cup {<<b>> : b \in KonnektBuilds \cup {Nil}} /\ exe \in KonnektBuilds \cup {Nil}
      /\ inMemory \in KonnektBuilds /\ first \in {"open", "closing", "gone"}
      /\ second \in {"none", "starting", "up", "refused"}
      /\ moved \in BOOLEAN /\ unasked \in BOOLEAN
  BY KonnektTypes DEF KonnektInv
<1>l. UNCHANGED <<released, rolling, attested, channel, installs, spare, exe, inMemory, first, second, unasked>>
  BY DEF Konnekt!OpenPane, Konnekt!ClosePane, Konnekt!RunCheck, Konnekt!CheckAnswered, Konnekt!Confirm
<1>c. /\ about.info \in Konnekt!Releases /\ about.agreed \in KonnektBuilds \cup {Nil}
      /\ about.status \in {"closed", "idle", "checking", "available", "upToDate", "error",
                           "downloading", "installFailed"}
  BY <1>t DEF PaneSet
<1>o. OffersStand /\ ConfirmsStand
  BY DEF KonnektInv
<1>n. NoSnapshot' <=> NoSnapshot
  BY <1>l, OffersStay
<1>1. HoldingsFit' /\ CallsFit' /\ SpareFits' /\ ExeFits' /\ Konnekt!OneKonnekt'
  <2>1. HoldingsFit' /\ CallsFit' /\ Konnekt!OneKonnekt'
    BY <1>l DEF KonnektInv, HoldingsFit, CallsFit, CallFits, ReleaseFits, Fits, Settled, Konnekt!OneKonnekt
  <2>2. SpareFits' /\ ExeFits'
    BY <1>l DEF KonnektInv, SpareFits, ExeFits, TwoAsked, Fits, Settled
  <2> QED BY <2>1, <2>2
<1>2. about' \in PaneSet /\ moved' \in BOOLEAN /\ OffersStand' /\ ConfirmsStand'
  <2>1. CASE Konnekt!OpenPane \/ Konnekt!ClosePane \/ Konnekt!RunCheck
    <3>1. about' \in {Konnekt!Blank, Konnekt!Closed, Konnekt!Checking} /\ moved' = moved
      BY <2>1 DEF Konnekt!OpenPane, Konnekt!ClosePane, Konnekt!RunCheck
    <3>2. about' \in PaneSet /\ about'.status # "available" /\ about'.agreed = Nil
      BY <3>1
    <3> QED
      BY <3>1, <3>2, <1>l, <1>o, <1>n, <1>t DEF OffersStand, ConfirmsStand
  <2>2. CASE Konnekt!CheckAnswered
    <3>1. PICK answering \in SUBSET Konnekt!Consulted :
            /\ moved' = \/ answering # Konnekt!Consulted
                        \/ moved /\ \E i \in Konnekt!Calls : installs[i].at = "resolving"
            /\ \/ about' = [about EXCEPT !.status = "error"]
               \/ about' = [about EXCEPT !.status = "upToDate"]
               \/ \E c \in Konnekt!Offer(answering) :
                    about' = [about EXCEPT !.status = "available", !.info = c]
      BY <2>2 DEF Konnekt!CheckAnswered
    <3>2. about.status = "checking" /\ about.agreed = Nil
      BY <2>2, <1>o DEF Konnekt!CheckAnswered, ConfirmsStand
    <3>3. moved' \in BOOLEAN
      BY <3>1
    <3>4. /\ about' \in PaneSet /\ about'.agreed = Nil
          /\ about'.status = "available" =>
               about'.info \in Konnekt!Offer(answering)
      <4>1. CASE about' \in {[about EXCEPT !.status = "error"], [about EXCEPT !.status = "upToDate"]}
        BY <4>1, <3>2, <1>t, <1>c DEF PaneSet
      <4>2. ASSUME NEW c \in Konnekt!Offer(answering),
                   about' = [about EXCEPT !.status = "available", !.info = c]
            PROVE  about' \in PaneSet /\ about'.agreed = Nil /\ about'.info = c
        <5>1. c \in Konnekt!Releases
          BY OffersFit
        <5> QED BY <5>1, <4>2, <3>2, <1>t, <1>c DEF PaneSet
      <4> QED BY <3>1, <4>1, <4>2
    <3>5. ASSUME ~moved', about'.status = "available", ~about'.info.floats PROVE NoSnapshot
      <4>1. answering = Konnekt!Consulted
        BY <3>1, <3>5
      <4> QED BY <4>1, <3>4, <3>5, StableIsNewest
    <3>6. ASSUME ~moved', NEW i \in Konnekt!Calls, installs[i].at = "resolving", ~installs[i].rel.floats
          PROVE  NoSnapshot
      BY <3>1, <3>6, <1>o DEF OffersStand
    <3>7. OffersStand'
      BY <3>5, <3>6, <1>n, <1>l, <1>o DEF OffersStand
    <3> QED
      BY <3>2, <3>3, <3>4, <3>7 DEF ConfirmsStand
  <2>3. CASE Konnekt!Confirm
    <3> DEFINE says == IF about.agreed = Nil THEN about.info.build ELSE Nil
    <3>1. about' = [about EXCEPT !.agreed = says] /\ moved' = moved /\ about.status = "available" /\ about.info.floats
      BY <2>3 DEF Konnekt!Confirm
    <3>2. says \in KonnektBuilds \cup {Nil}
      BY <1>c DEF Konnekt!Releases, Konnekt!None
    <3>3. about' \in PaneSet /\ about'.status = "available" /\ about'.info = about.info /\ about'.agreed = says
      BY <3>1, <3>2, <1>t, <1>c DEF PaneSet
    <3>4. says # Nil => says = about.info.build
      OBVIOUS
    <3> HIDE DEF says
    <3> QED
      BY <3>1, <3>3, <3>4, <1>l, <1>o, <1>n, <1>t DEF OffersStand, ConfirmsStand
  <2> QED BY <2>1, <2>2, <2>3
<1>3. Konnekt!SelfTypeOK'
  BY <1>2, <1>l, <1>t, KonnektTypesHold
<1> QED
  BY <1>1, <1>2, <1>3 DEF KonnektInv

\* A call that takes its next step within what fits keeps what the others hold.
LEMMA CallMoves ==
  ASSUME KonnektInv, NEW i \in Konnekt!Calls, NEW r \in CallSet,
         installs' = [installs EXCEPT ![i] = r],
         UNCHANGED <<released, rolling, attested, channel, inMemory>>,
         CallFits(r), r # Konnekt!Unused
  PROVE  /\ installs' \in [Konnekt!Calls -> CallSet] /\ HoldingsFit' /\ CallsFit'
         /\ (TwoAsked => TwoAsked')
         /\ \A b : Fits(b)' <=> Fits(b)
         /\ NoSnapshot' <=> NoSnapshot
<1>1. installs \in [Konnekt!Calls -> CallSet]
  BY KonnektTypes DEF KonnektInv
<1>2. \A c : CallFits(c)' <=> CallFits(c)
  BY DEF CallFits, ReleaseFits, Fits, Settled
<1>3. \A j \in Konnekt!Calls : installs'[j] = IF j = i THEN r ELSE installs[j]
  BY <1>1
<1>4. CallsFit'
  BY <1>1, <1>2, <1>3 DEF KonnektInv, CallsFit, CallFits, ReleaseFits, Fits, Settled
<1>5. TwoAsked => TwoAsked'
  BY <1>1, <1>3 DEF TwoAsked
<1>6. NoSnapshot' <=> NoSnapshot
  BY OffersStay
<1> QED
  BY <1>1, <1>4, <1>5, <1>6 DEF KonnektInv, HoldingsFit, Fits, Settled

\* A call that asks, is refused, or resolves what it will install.
LEMMA CallResolves ==
  ASSUME KonnektInv, NEW i \in Konnekt!Calls,
         Konnekt!RunInstall(i) \/ Konnekt!FailInstall(i) \/ Konnekt!Resolve(i)
  PROVE  KonnektInv'
<1> USE KonnektSets
<1>t. /\ released \in KonnektBuilds \cup {Nil} /\ rolling \in KonnektBuilds \cup {Nil}
      /\ attested \subseteq KonnektBuilds /\ channel \in {"stable", "snapshot"}
      /\ about \in PaneSet /\ installs \in [Konnekt!Calls -> CallSet]
      /\ spare \in {<<>>} \cup {<<b>> : b \in KonnektBuilds \cup {Nil}} /\ exe \in KonnektBuilds \cup {Nil}
      /\ inMemory \in KonnektBuilds /\ first \in {"open", "closing", "gone"}
      /\ second \in {"none", "starting", "up", "refused"}
      /\ moved \in BOOLEAN /\ unasked \in BOOLEAN
  BY KonnektTypes DEF KonnektInv
<1>i. /\ installs[i] \in CallSet /\ installs[i].rel \in Konnekt!Releases
      /\ installs[i].sum \in KonnektBuilds \cup {Nil}
  BY <1>t DEF CallSet
<1>c. /\ about.info \in Konnekt!Releases /\ about.agreed \in KonnektBuilds \cup {Nil}
  BY <1>t DEF PaneSet
<1>o. OffersStand /\ ConfirmsStand
  BY DEF KonnektInv
<1>l. UNCHANGED <<released, rolling, attested, channel, spare, exe, inMemory, first, second, moved>>
  BY DEF Konnekt!RunInstall, Konnekt!FailInstall, Konnekt!Resolve
<1>1. PICK r \in CallSet :
        /\ installs' = [installs EXCEPT ![i] = r] /\ CallFits(r) /\ r # Konnekt!Unused
        /\ about' \in PaneSet /\ about'.info = about.info /\ about'.agreed = about.agreed
        /\ about' = about \/ about'.status \notin {"available", "closed", "checking"}
        /\ installs[i].at # "writing"
        /\ r.at = "resolving" => about.status = "available" /\ r.rel = about.info
        /\ unasked' = FALSE
  <2>1. CASE Konnekt!RunInstall(i)
    <3> DEFINE r == [installs[i] EXCEPT !.at = "resolving", !.rel = about.info]
    <3>1. r \in CallSet /\ r.at = "resolving" /\ r.rel = about.info
      BY <1>i, <1>c DEF CallSet
    <3>2. installs' = [installs EXCEPT ![i] = r]
      BY <2>1 DEF Konnekt!RunInstall
    <3>3. about' = [about EXCEPT !.status = "downloading"] /\ about.status = "available"
          /\ installs[i] = Konnekt!Unused /\ unasked' = unasked
      BY <2>1 DEF Konnekt!RunInstall, Konnekt!MayInstall
    <3>4. about' \in PaneSet /\ about'.status = "downloading" /\ about'.info = about.info /\ about'.agreed = about.agreed
      BY <3>3, <1>t, <1>c DEF PaneSet
    <3>5. CallFits(r) /\ r # Konnekt!Unused
      BY <3>1 DEF CallFits
    <3> HIDE DEF r
    <3>6. unasked' = FALSE /\ installs[i].at # "writing"
      BY <3>3, <1>o, <1>t DEF OffersStand
    <3> QED
      BY <3>1, <3>2, <3>3, <3>4, <3>5, <3>6
  <2>2. CASE Konnekt!FailInstall(i)
    <3>1. installs' = [installs EXCEPT ![i] = Konnekt!Over] /\ installs[i].at # "writing" /\ unasked' = unasked
          /\ about' \in {about, [about EXCEPT !.status = "installFailed"]}
      BY <2>2 DEF Konnekt!FailInstall
    <3>2. about' \in PaneSet /\ about'.info = about.info /\ about'.agreed = about.agreed
          /\ (about' = about \/ about'.status = "installFailed")
      BY <3>1, <1>t, <1>c DEF PaneSet
    <3>3. CallFits(Konnekt!Over)
      BY DEF CallFits
    <3>6. unasked' = FALSE
      BY <3>1, <1>o, <1>t DEF OffersStand
    <3> QED
      BY <3>1, <3>2, <3>3, <3>6
  <2>3. CASE Konnekt!Resolve(i)
    <3>0. PICK answering \in SUBSET Konnekt!Consulted : \E c \in Konnekt!Offer(answering) :
            /\ installs' = [installs EXCEPT ![i] = [installs[i] EXCEPT !.at = "resolved", !.rel = c]]
            /\ unasked' = \/ unasked
                          \/ c.floats /\ ~installs[i].rel.floats /\ ~moved /\ answering = Konnekt!Consulted
      BY <2>3 DEF Konnekt!Resolve
    <3>1. PICK c \in Konnekt!Offer(answering) :
            /\ installs' = [installs EXCEPT ![i] = [installs[i] EXCEPT !.at = "resolved", !.rel = c]]
            /\ unasked' = \/ unasked
                          \/ c.floats /\ ~installs[i].rel.floats /\ ~moved /\ answering = Konnekt!Consulted
      BY <3>0
    <3>2. c \in Konnekt!Releases /\ ReleaseFits(c) /\ c \in Konnekt!Candidates(answering)
      BY OffersFit
    <3> DEFINE r == [installs[i] EXCEPT !.at = "resolved", !.rel = c]
    <3>3. r \in CallSet /\ r.at = "resolved" /\ r.rel = c
      BY <3>2, <1>i DEF CallSet
    <3>4. CallFits(r) /\ r # Konnekt!Unused
      BY <3>2, <3>3 DEF CallFits
    <3>5. installs[i].at = "resolving" /\ about' = about
      BY <2>3 DEF Konnekt!Resolve
    <3>6. ~unasked'
      BY <3>1, <3>2, <3>5, <1>o DEF OffersStand, NoSnapshot
    <3>7. installs' = [installs EXCEPT ![i] = r]
      BY <3>1
    <3>8. unasked' = FALSE
      BY <3>1, <3>6, <1>t
    <3> HIDE DEF r
    <3> QED
      BY <3>3, <3>4, <3>5, <3>7, <3>8, <1>t
  <2> QED BY <2>1, <2>2, <2>3
<1>2. /\ installs' \in [Konnekt!Calls -> CallSet] /\ HoldingsFit' /\ CallsFit'
      /\ (TwoAsked => TwoAsked') /\ \A b : Fits(b)' <=> Fits(b)
      /\ NoSnapshot' <=> NoSnapshot
  BY <1>1, <1>l, CallMoves
<1>3. Konnekt!SelfTypeOK'
  BY <1>1, <1>2, <1>l, <1>t, KonnektTypesHold
<1>j. \A j \in Konnekt!Calls : installs'[j] = IF j = i THEN r ELSE installs[j]
  BY <1>1, <1>t
<1>4. SpareFits'
  BY <1>1, <1>2, <1>j, <1>l DEF KonnektInv, SpareFits
<1>5. ExeFits'
  BY <1>2, <1>l DEF KonnektInv, ExeFits
<1>6. OffersStand'
  BY <1>1, <1>2, <1>j, <1>l, <1>o DEF OffersStand
<1>7. ConfirmsStand' /\ Konnekt!OneKonnekt'
  BY <1>1, <1>l, <1>o DEF KonnektInv, ConfirmsStand, Konnekt!OneKonnekt
<1> QED
  BY <1>2, <1>3, <1>4, <1>5, <1>6, <1>7 DEF KonnektInv

\* A call that fetches the digest, downloads what bears it and writes that.
LEMMA CallFetches ==
  ASSUME KonnektInv, NEW i \in Konnekt!Calls,
         \/ Konnekt!FetchChecksums(i) \/ Konnekt!Download(i) \/ Konnekt!BeginWrite(i)
         \/ Konnekt!EndWrite(i) \/ Konnekt!Swap(i)
  PROVE  KonnektInv'
<1> USE KonnektSets
<1>t. /\ released \in KonnektBuilds \cup {Nil} /\ rolling \in KonnektBuilds \cup {Nil}
      /\ attested \subseteq KonnektBuilds /\ channel \in {"stable", "snapshot"}
      /\ about \in PaneSet /\ installs \in [Konnekt!Calls -> CallSet]
      /\ spare \in {<<>>} \cup {<<b>> : b \in KonnektBuilds \cup {Nil}} /\ exe \in KonnektBuilds \cup {Nil}
      /\ inMemory \in KonnektBuilds /\ first \in {"open", "closing", "gone"}
      /\ second \in {"none", "starting", "up", "refused"}
      /\ moved \in BOOLEAN /\ unasked \in BOOLEAN
  BY KonnektTypes DEF KonnektInv
<1>i. /\ installs[i] \in CallSet /\ installs[i].rel \in Konnekt!Releases
      /\ installs[i].sum \in KonnektBuilds \cup {Nil}
  BY <1>t DEF CallSet
<1>f. CallFits(installs[i]) /\ HoldingsFit /\ SpareFits /\ ExeFits
  BY DEF KonnektInv, CallsFit
<1>o. OffersStand /\ ConfirmsStand
  BY DEF KonnektInv
<1>l. UNCHANGED <<released, rolling, attested, channel, about, inMemory, first, second, moved, unasked>>
  BY DEF Konnekt!FetchChecksums, Konnekt!Download, Konnekt!BeginWrite, Konnekt!EndWrite, Konnekt!Swap
<1>u. installs[i].at # "unused"
  BY DEF Konnekt!FetchChecksums, Konnekt!Download, Konnekt!BeginWrite, Konnekt!EndWrite, Konnekt!Swap
\* Whichever step it is.
<1> DEFINE Goes(r) ==
             /\ installs' = [installs EXCEPT ![i] = r] /\ CallFits(r) /\ r.at \notin {"unused", "resolving"}
             /\ spare' \in {<<>>} \cup {<<b>> : b \in KonnektBuilds \cup {Nil}}
             /\ exe' \in KonnektBuilds \cup {Nil}
             /\ spare' # <<>> => spare'[1] = Nil \/ Fits(spare'[1])
             /\ spare' # <<>> /\ spare'[1] = Nil =>
                  r.at = "writing" \/ (spare' = spare /\ installs[i].at # "writing")
             /\ exe' = exe \/ Fits(exe')
                \/ (exe' = Nil /\ spare # <<>> /\ spare[1] = Nil /\ installs[i].at # "writing")
<1>1. \E r \in CallSet : Goes(r)
  <2>1. CASE Konnekt!FetchChecksums(i)
    <3> DEFINE s == Konnekt!Served(installs[i].rel)
               r == [installs[i] EXCEPT !.at = "proved", !.sum = s]
    <3>1. installs[i].at = "resolved" /\ s # Nil /\ s \in attested /\ UNCHANGED <<spare, exe>>
      BY <2>1 DEF Konnekt!FetchChecksums, Konnekt!Proven
    <3>2. ReleaseFits(installs[i].rel)
      BY <3>1, <1>f DEF CallFits
    <3>3. Fits(s)
      BY <3>1, <3>2, <1>f, <1>t DEF Konnekt!Served, ReleaseFits, HoldingsFit, Fits
    <3>4. installs' = [installs EXCEPT ![i] = r]
      BY <2>1, <1>t, <1>i DEF Konnekt!FetchChecksums, CallSet
    <3>5. s \in KonnektBuilds
      BY <3>3 DEF Fits
    <3> HIDE DEF s
    <3>6. r \in CallSet /\ r.at = "proved" /\ r.sum = s /\ r.rel = installs[i].rel
      BY <3>5, <1>i DEF CallSet
    <3> HIDE DEF r
    <3>7. CallFits(r)
      BY <3>2, <3>3, <3>6 DEF CallFits
    <3> QED
      BY <3>1, <3>4, <3>6, <3>7, <1>t, <1>f DEF SpareFits
  <2>2. CASE Konnekt!Download(i)
    <3>1. PICK got \in {Konnekt!Served(installs[i].rel), Nil} :
            /\ got = installs[i].sum
            /\ installs' = [installs EXCEPT ![i] = [at |-> "downloaded", rel |-> Konnekt!None, sum |-> got]]
      BY <2>2 DEF Konnekt!Download, Konnekt!Matches
    <3>2. installs[i].at = "proved" /\ UNCHANGED <<spare, exe>>
      BY <2>2 DEF Konnekt!Download
    <3> DEFINE r == [at |-> "downloaded", rel |-> Konnekt!None, sum |-> got]
    <3>3. Fits(got)
      BY <3>1, <3>2, <1>f DEF CallFits
    <3>4. r \in CallSet /\ r.at = "downloaded" /\ r.sum = got
      BY <3>3 DEF CallSet, Fits
    <3>5. installs' = [installs EXCEPT ![i] = r]
      BY <3>1
    <3> HIDE DEF r
    <3>6. CallFits(r)
      BY <3>3, <3>4 DEF CallFits
    <3> QED
      BY <3>2, <3>4, <3>5, <3>6, <1>t, <1>f DEF SpareFits
  <2>3. CASE Konnekt!BeginWrite(i)
    <3> DEFINE r == [installs[i] EXCEPT !.at = "writing"]
    <3>1. /\ installs[i].at = "downloaded" /\ spare' = <<Nil>> /\ exe' = exe
          /\ installs' = [installs EXCEPT ![i] = r]
      BY <2>3 DEF Konnekt!BeginWrite
    <3>2. r \in CallSet /\ r.at = "writing" /\ r.sum = installs[i].sum
      BY <1>i DEF CallSet
    <3> HIDE DEF r
    <3>3. CallFits(r)
      BY <3>1, <3>2, <1>f DEF CallFits
    <3> QED
      BY <3>1, <3>2, <3>3, <1>t
  <2>4. CASE Konnekt!EndWrite(i)
    <3> DEFINE r == [installs[i] EXCEPT !.at = "written"]
    <3>1. /\ installs[i].at = "writing" /\ installs' = [installs EXCEPT ![i] = r]
          /\ IF spare = <<>> THEN exe' = installs[i].sum /\ spare' = spare
             ELSE spare' = <<installs[i].sum>> /\ exe' = exe
      BY <2>4 DEF Konnekt!EndWrite
    <3>2. r \in CallSet /\ r.at = "written" /\ r.sum = installs[i].sum
      BY <1>i DEF CallSet
    <3> HIDE DEF r
    <3>3. CallFits(r) /\ Fits(installs[i].sum) /\ installs[i].sum # Nil
      BY <3>1, <3>2, <1>f DEF CallFits, Fits
    <3>4. <<installs[i].sum>>[1] = installs[i].sum
      OBVIOUS
    <3> QED
      BY <3>1, <3>2, <3>3, <3>4, <1>i, <1>t
  <2>5. CASE Konnekt!Swap(i)
    <3> DEFINE r == [installs[i] EXCEPT !.at = "applied"]
    <3>1. /\ installs[i].at = "written" /\ installs' = [installs EXCEPT ![i] = r]
          /\ spare # <<>> /\ exe' = spare[1] /\ spare' = <<>>
      BY <2>5 DEF Konnekt!Swap
    <3>2. r \in CallSet /\ r.at = "applied"
      BY <1>i DEF CallSet
    <3> HIDE DEF r
    <3>3. CallFits(r)
      BY <3>2 DEF CallFits
    <3>4. PICK b \in KonnektBuilds \cup {Nil} : spare = <<b>>
      BY <3>1, <1>t
    <3>5. spare[1] = b
      BY <3>4
    <3> QED
      BY <3>1, <3>2, <3>3, <3>4, <3>5, <1>f DEF SpareFits
  <2> QED BY <2>1, <2>2, <2>3, <2>4, <2>5
<1>2. PICK r \in CallSet : Goes(r)
  BY <1>1
<1>r. r # Konnekt!Unused
  BY <1>2
<1>3. /\ installs' \in [Konnekt!Calls -> CallSet] /\ HoldingsFit' /\ CallsFit'
      /\ (TwoAsked => TwoAsked') /\ \A b : Fits(b)' <=> Fits(b)
      /\ NoSnapshot' <=> NoSnapshot
  BY <1>2, <1>r, <1>l, CallMoves
<1>4. Konnekt!SelfTypeOK'
  BY <1>2, <1>3, <1>l, <1>t, KonnektTypesHold
<1>j. \A j \in Konnekt!Calls : installs'[j] = IF j = i THEN r ELSE installs[j]
  BY <1>2, <1>t
<1>5. SpareFits'
  <2>2. spare' # <<>> /\ spare'[1] = Nil => \E j \in Konnekt!Calls : installs'[j].at = "writing"
    BY <1>2, <1>j, <1>f DEF SpareFits
  <2> QED BY <1>2, <1>l, <2>2 DEF SpareFits, Fits, Settled
<1>6. ExeFits'
  <2>1. CASE exe' = exe
    BY <2>1, <1>3, <1>l, <1>f DEF ExeFits
  <2>2. CASE Fits(exe')
    BY <2>2, <1>l DEF ExeFits, Fits, Settled
  <2>3. CASE exe' = Nil /\ spare # <<>> /\ spare[1] = Nil /\ installs[i].at # "writing"
    <3>1. PICK j \in Konnekt!Calls : installs[j].at = "writing"
      BY <2>3, <1>f DEF SpareFits
    <3>2. j # i /\ installs'[j] # Konnekt!Unused /\ installs'[i] # Konnekt!Unused
      BY <3>1, <2>3, <1>j, <1>r
    <3> QED BY <3>2, <2>3 DEF ExeFits, TwoAsked
  <2> QED BY <2>1, <2>2, <2>3, <1>2
<1>7. OffersStand'
  BY <1>2, <1>3, <1>j, <1>l, <1>o DEF OffersStand
<1>8. ConfirmsStand' /\ Konnekt!OneKonnekt'
  BY <1>l, <1>o DEF KonnektInv, ConfirmsStand, Konnekt!OneKonnekt
<1> QED
  BY <1>3, <1>4, <1>5, <1>6, <1>7, <1>8 DEF KonnektInv

\* The relaunch, the end of the first process and the start of the second.
LEMMA KonnektRelaunches ==
  ASSUME KonnektInv,
         (\E i \in Konnekt!Calls : Konnekt!Relaunch(i)) \/ Konnekt!FirstEnds \/ Konnekt!SecondStarts
  PROVE  KonnektInv'
<1> USE KonnektSets
<1>t. /\ released \in KonnektBuilds \cup {Nil} /\ rolling \in KonnektBuilds \cup {Nil}
      /\ attested \subseteq KonnektBuilds /\ channel \in {"stable", "snapshot"}
      /\ about \in PaneSet /\ installs \in [Konnekt!Calls -> CallSet]
      /\ spare \in {<<>>} \cup {<<b>> : b \in KonnektBuilds \cup {Nil}} /\ exe \in KonnektBuilds \cup {Nil}
      /\ inMemory \in KonnektBuilds /\ first \in {"open", "closing", "gone"}
      /\ second \in {"none", "starting", "up", "refused"}
      /\ moved \in BOOLEAN /\ unasked \in BOOLEAN
  BY KonnektTypes DEF KonnektInv
<1>o. OffersStand /\ ConfirmsStand
  BY DEF KonnektInv
<1>l. UNCHANGED <<released, rolling, attested, channel, spare, exe, inMemory, moved, unasked>>
  BY DEF Konnekt!Relaunch, Konnekt!FirstEnds, Konnekt!SecondStarts
<1>1. ASSUME NEW i \in Konnekt!Calls, Konnekt!Relaunch(i) PROVE KonnektInv'
  <2>1. /\ installs[i].at = "applied" /\ installs' = [installs EXCEPT ![i] = Konnekt!Over]
        /\ first # "gone" /\ first' = "closing" /\ about' = Konnekt!Closed
        /\ second' = IF second = "up" THEN second ELSE "starting"
    BY <1>1 DEF Konnekt!Relaunch, Konnekt!Alive
  <2>2. CallFits(Konnekt!Over) /\ Konnekt!Over # Konnekt!Unused
    BY DEF CallFits
  <2>3. /\ installs' \in [Konnekt!Calls -> CallSet] /\ HoldingsFit' /\ CallsFit'
        /\ (TwoAsked => TwoAsked') /\ \A b : Fits(b)' <=> Fits(b)
        /\ NoSnapshot' <=> NoSnapshot
    BY <2>1, <2>2, <1>l, CallMoves
  <2>4. Konnekt!SelfTypeOK'
    BY <2>1, <2>3, <1>l, <1>t, KonnektTypesHold
  <2>j. \A j \in Konnekt!Calls : installs'[j] = IF j = i THEN Konnekt!Over ELSE installs[j]
    BY <2>1, <1>t
  <2>5. SpareFits' /\ ExeFits'
    BY <2>1, <2>3, <2>j, <1>l DEF KonnektInv, SpareFits, ExeFits
  <2>6. OffersStand'
    BY <2>1, <2>3, <2>j, <1>l, <1>o DEF OffersStand
  <2>7. ConfirmsStand' /\ Konnekt!OneKonnekt'
    BY <2>1 DEF KonnektInv, ConfirmsStand, Konnekt!OneKonnekt
  <2> QED
    BY <2>3, <2>4, <2>5, <2>6, <2>7 DEF KonnektInv
<1>2. CASE Konnekt!FirstEnds \/ Konnekt!SecondStarts
  <2>1. UNCHANGED <<about, installs>>
    BY <1>2 DEF Konnekt!FirstEnds, Konnekt!SecondStarts
  <2>2. first' \in {"open", "closing", "gone"} /\ second' \in {"none", "starting", "up", "refused"}
        /\ Konnekt!OneKonnekt'
    BY <1>2, <1>t DEF KonnektInv, Konnekt!FirstEnds, Konnekt!SecondStarts, Konnekt!OneKonnekt, Konnekt!MayRun
  <2>3. Konnekt!SelfTypeOK'
    BY <2>1, <2>2, <1>l, <1>t, KonnektTypesHold
  <2>4. HoldingsFit' /\ CallsFit' /\ SpareFits' /\ ExeFits' /\ ConfirmsStand'
    BY <2>1, <1>l DEF KonnektInv, HoldingsFit, CallsFit, CallFits, ReleaseFits, Fits, Settled, SpareFits, ExeFits,
       TwoAsked, ConfirmsStand
  <2>5. OffersStand'
    BY <2>1, <1>l, <1>o, OffersStay DEF OffersStand
  <2> QED
    BY <2>2, <2>3, <2>4, <2>5 DEF KonnektInv
<1> QED
  BY <1>1, <1>2

\* Every step of an update keeps it so.
LEMMA KonnektGoesOn == KonnektInv /\ [Konnekt!SelfNext]_konnektVars => KonnektInv'
<1> SUFFICES ASSUME KonnektInv, [Konnekt!SelfNext]_konnektVars PROVE KonnektInv'
  OBVIOUS
<1>1. CASE Konnekt!SelfNext
  BY <1>1, ReleasesMove, PaneMoves, CallResolves, CallFetches, KonnektRelaunches DEF Konnekt!SelfNext
<1>2. CASE UNCHANGED konnektVars
  <2>1. /\ UNCHANGED <<released, rolling, attested, channel, about, installs, spare, exe, inMemory>>
        /\ UNCHANGED <<first, second, moved, unasked>>
    BY <1>2 DEF konnektVars
  <2>2. NoSnapshot' <=> NoSnapshot
    BY <2>1, OffersStay
  <2>3. Konnekt!SelfTypeOK' /\ HoldingsFit' /\ CallsFit' /\ Konnekt!OneKonnekt'
    BY <2>1 DEF KonnektInv, Konnekt!SelfTypeOK, HoldingsFit, CallsFit, CallFits, ReleaseFits, Fits, Settled,
       Konnekt!OneKonnekt
  <2>4. SpareFits' /\ ExeFits' /\ ConfirmsStand'
    BY <2>1 DEF KonnektInv, Fits, Settled, SpareFits, ExeFits, TwoAsked, ConfirmsStand
  <2>5. OffersStand'
    BY <2>1, <2>2 DEF KonnektInv, OffersStand
  <2> QED
    BY <2>3, <2>4, <2>5 DEF KonnektInv
<1> QED
  BY <1>1, <1>2

-----------------------------------------------------------------------------
(***************************************************************************)
(* A mod's panel and its installs.                                         *)
(***************************************************************************)
\* The mods pane: a job is of the mod in whose panel it was asked for, and a panel
\* that was left with nothing of another mod's shows and asks about its own.
JobsAreOfTheirPanel == strays = {} /\ job # Nil => job.of = job.under

DetailInv == Mods!DetailTypeOK /\ JobsAreOfTheirPanel /\ Mods!PanelIsOfOneMod /\ Mods!LoadingEnds

\* It begins so.
LEMMA DetailBegins == Mods!DetailInit => DetailInv
<1> SUFFICES ASSUME Mods!DetailInit PROVE DetailInv
  OBVIOUS
<1> USE BrowserAssumption
<1>1. Mods!DetailTypeOK
  <2>1. clicksMade \in 0 .. MaxClicks
    BY DEF Mods!DetailInit
  <2> QED BY <2>1 DEF Mods!DetailInit, Mods!DetailTypeOK
<1>2. JobsAreOfTheirPanel /\ Mods!PanelIsOfOneMod /\ Mods!LoadingEnds
  BY DEF Mods!DetailInit, JobsAreOfTheirPanel, Mods!PanelIsOfOneMod, Mods!LoadingEnds
<1> QED
  BY <1>1, <1>2 DEF DetailInv

\* What the panel promises is part of it.
LEMMA DetailPromise == DetailInv => Mods!DetailIsSound
BY DEF DetailInv, JobsAreOfTheirPanel, Mods!DetailIsSound, Mods!InstallsWhatIsShown

DetailJobs == [at : {"looking", "installing"}, of : BrowserMods, under : BrowserMods \cup {Nil}]

\* Every step of the panel keeps it so.
LEMMA DetailGoesOn == DetailInv /\ [Mods!DetailNext]_detailVars => DetailInv'
<1> SUFFICES ASSUME DetailInv, [Mods!DetailNext]_detailVars PROVE DetailInv'
  OBVIOUS
<1> USE BrowserAssumption
<1>t. /\ view \in {"library", "browse"} /\ shownMod \in BrowserMods \cup {Nil}
      /\ detailsOf \subseteq BrowserMods /\ fetchesOf \subseteq BrowserMods
      /\ versionsOf \in BrowserMods \cup {Nil} /\ fetchingV \in BOOLEAN /\ vtab \in BOOLEAN
      /\ confirming \in BrowserMods \cup {Nil} /\ clicksMade \in 0 .. MaxClicks
      /\ job \in DetailJobs \cup {Nil}
      /\ strays \subseteq {"detail", "versions", "kept", "question"}
  BY DEF DetailInv, Mods!DetailTypeOK, DetailJobs
<1>i. JobsAreOfTheirPanel /\ Mods!PanelIsOfOneMod /\ Mods!LoadingEnds
  BY DEF DetailInv
<1>s. ASSUME Mods!DetailTypeOK', JobsAreOfTheirPanel', Mods!PanelIsOfOneMod', Mods!LoadingEnds' PROVE DetailInv'
  BY <1>s DEF DetailInv
<1>1. CASE Mods!CloseProject
  <2>1. Mods!DetailTypeOK'
    BY <1>1, <1>t DEF Mods!CloseProject, Mods!Clear, Mods!DetailTypeOK, DetailJobs
  <2>2. JobsAreOfTheirPanel' /\ Mods!PanelIsOfOneMod' /\ Mods!LoadingEnds'
    BY <1>1, <1>t, <1>i DEF Mods!CloseProject, Mods!Clear, DetailJobs, JobsAreOfTheirPanel, Mods!PanelIsOfOneMod, Mods!LoadingEnds
  <2> QED BY <2>1, <2>2, <1>s
<1>2. CASE Mods!SwitchView
  <2>1. Mods!DetailTypeOK'
    BY <1>2, <1>t DEF Mods!SwitchView, Mods!Clear, Mods!DetailTypeOK, DetailJobs
  <2>2. JobsAreOfTheirPanel' /\ Mods!PanelIsOfOneMod' /\ Mods!LoadingEnds'
    BY <1>2, <1>t, <1>i DEF Mods!SwitchView, Mods!Clear, DetailJobs, JobsAreOfTheirPanel, Mods!PanelIsOfOneMod, Mods!LoadingEnds
  <2> QED BY <2>1, <2>2, <1>s
<1>3. CASE Mods!OpenVersions
  <2>1. Mods!DetailTypeOK'
    BY <1>3, <1>t DEF Mods!OpenVersions, Mods!DetailTypeOK, DetailJobs
  <2>2. JobsAreOfTheirPanel' /\ Mods!PanelIsOfOneMod' /\ Mods!LoadingEnds'
    BY <1>3, <1>t, <1>i DEF Mods!OpenVersions, DetailJobs, JobsAreOfTheirPanel, Mods!PanelIsOfOneMod, Mods!LoadingEnds
  <2> QED BY <2>1, <2>2, <1>s
<1>4. CASE Mods!LoadAllVersions
  <2>1. Mods!DetailTypeOK'
    BY <1>4, <1>t DEF Mods!LoadAllVersions, Mods!Clicks, Mods!DetailTypeOK, DetailJobs
  <2>2. JobsAreOfTheirPanel' /\ Mods!PanelIsOfOneMod' /\ Mods!LoadingEnds'
    BY <1>4, <1>t, <1>i DEF Mods!LoadAllVersions, Mods!Clicks, DetailJobs, JobsAreOfTheirPanel, Mods!PanelIsOfOneMod, Mods!LoadingEnds
  <2> QED BY <2>1, <2>2, <1>s
<1>5. CASE Mods!InstallLatest
  <2>1. Mods!DetailTypeOK'
    BY <1>5, <1>t DEF Mods!InstallLatest, Mods!Idle, Mods!Clicks, Mods!DetailTypeOK, DetailJobs
  <2>2. JobsAreOfTheirPanel' /\ Mods!PanelIsOfOneMod' /\ Mods!LoadingEnds'
    BY <1>5, <1>t, <1>i DEF Mods!InstallLatest, Mods!Idle, Mods!Clicks, DetailJobs, JobsAreOfTheirPanel, Mods!PanelIsOfOneMod, Mods!LoadingEnds
  <2> QED BY <2>1, <2>2, <1>s
<1>6. CASE Mods!InstallVersion
  <2>1. Mods!DetailTypeOK'
    BY <1>6, <1>t DEF Mods!InstallVersion, Mods!Idle, Mods!Clicks, Mods!DetailTypeOK, DetailJobs
  <2>2. JobsAreOfTheirPanel' /\ Mods!PanelIsOfOneMod' /\ Mods!LoadingEnds'
    BY <1>6, <1>t, <1>i DEF Mods!InstallVersion, Mods!Idle, Mods!Clicks, DetailJobs, JobsAreOfTheirPanel, Mods!PanelIsOfOneMod, Mods!LoadingEnds
  <2> QED BY <2>1, <2>2, <1>s
<1>7. CASE Mods!Looked
  <2>1. Mods!DetailTypeOK'
    BY <1>7, <1>t DEF Mods!Looked, Mods!DetailTypeOK, DetailJobs
  <2>2. JobsAreOfTheirPanel' /\ Mods!PanelIsOfOneMod' /\ Mods!LoadingEnds'
    BY <1>7, <1>t, <1>i DEF Mods!Looked, DetailJobs, JobsAreOfTheirPanel, Mods!PanelIsOfOneMod, Mods!LoadingEnds
  <2> QED BY <2>1, <2>2, <1>s
<1>8. CASE Mods!DepConfirm
  <2>1. Mods!DetailTypeOK'
    BY <1>8, <1>t DEF Mods!DepConfirm, Mods!Idle, Mods!Clicks, Mods!DetailTypeOK, DetailJobs
  <2>2. JobsAreOfTheirPanel' /\ Mods!PanelIsOfOneMod' /\ Mods!LoadingEnds'
    BY <1>8, <1>t, <1>i DEF Mods!DepConfirm, Mods!Idle, Mods!Clicks, DetailJobs, JobsAreOfTheirPanel, Mods!PanelIsOfOneMod, Mods!LoadingEnds
  <2> QED BY <2>1, <2>2, <1>s
<1>9. CASE Mods!DepCancel
  <2>1. Mods!DetailTypeOK'
    BY <1>9, <1>t DEF Mods!DepCancel, Mods!DetailTypeOK, DetailJobs
  <2>2. JobsAreOfTheirPanel' /\ Mods!PanelIsOfOneMod' /\ Mods!LoadingEnds'
    BY <1>9, <1>t, <1>i DEF Mods!DepCancel, DetailJobs, JobsAreOfTheirPanel, Mods!PanelIsOfOneMod, Mods!LoadingEnds
  <2> QED BY <2>1, <2>2, <1>s
<1>10. CASE Mods!InstallEnds
  <2>1. Mods!DetailTypeOK'
    BY <1>10, <1>t DEF Mods!InstallEnds, Mods!DetailTypeOK, DetailJobs
  <2>2. JobsAreOfTheirPanel' /\ Mods!PanelIsOfOneMod' /\ Mods!LoadingEnds'
    BY <1>10, <1>t, <1>i DEF Mods!InstallEnds, DetailJobs, JobsAreOfTheirPanel, Mods!PanelIsOfOneMod, Mods!LoadingEnds
  <2> QED BY <2>1, <2>2, <1>s
<1>11. ASSUME NEW m \in BrowserMods, Mods!SelectProject(m) PROVE DetailInv'
  <2>1. Mods!DetailTypeOK'
    <3>1. strays' \subseteq {"detail", "versions", "kept", "question"}
      BY <1>11, <1>t DEF Mods!SelectProject, Mods!Kept
    <3>2. clicksMade' \in 0 .. MaxClicks /\ job' = job
      BY <1>11, <1>t DEF Mods!SelectProject, Mods!Clicks
    <3>3. /\ view' = view /\ shownMod' = m /\ detailsOf' = detailsOf \cup {m} /\ vtab' \in {vtab, FALSE}
          /\ confirming' \in {confirming, Nil}
          /\ UNCHANGED <<versionsOf, fetchesOf, fetchingV>>
      BY <1>11 DEF Mods!SelectProject, Mods!Shown
    <3> QED
      BY <3>1, <3>2, <3>3, <1>t DEF Mods!DetailTypeOK, DetailJobs
  <2>2. JobsAreOfTheirPanel' /\ Mods!PanelIsOfOneMod' /\ Mods!LoadingEnds'
    BY <1>11, <1>t, <1>i DEF Mods!SelectProject, Mods!Clicks, Mods!Shown, Mods!Kept, DetailJobs, JobsAreOfTheirPanel, Mods!PanelIsOfOneMod, Mods!LoadingEnds
  <2> QED BY <2>1, <2>2, <1>s
<1>12. ASSUME NEW m \in BrowserMods, Mods!ProjectArrives(m) PROVE DetailInv'
  <2>1. Mods!DetailTypeOK'
    BY <1>12, <1>t DEF Mods!ProjectArrives, Mods!Shown, Mods!Kept, Mods!DetailTypeOK, DetailJobs
  <2>2. JobsAreOfTheirPanel' /\ Mods!PanelIsOfOneMod' /\ Mods!LoadingEnds'
    BY <1>12, <1>t, <1>i DEF Mods!ProjectArrives, Mods!Shown, Mods!Kept, DetailJobs, JobsAreOfTheirPanel, Mods!PanelIsOfOneMod, Mods!LoadingEnds
  <2> QED BY <2>1, <2>2, <1>s
<1>13. ASSUME NEW m \in BrowserMods, Mods!VersionsArrive(m) PROVE DetailInv'
  <2>1. Mods!DetailTypeOK'
    BY <1>13, <1>t DEF Mods!VersionsArrive, Mods!DetailTypeOK, DetailJobs
  <2>2. JobsAreOfTheirPanel' /\ Mods!PanelIsOfOneMod' /\ Mods!LoadingEnds'
    BY <1>13, <1>t, <1>i DEF Mods!VersionsArrive, DetailJobs, JobsAreOfTheirPanel, Mods!PanelIsOfOneMod, Mods!LoadingEnds
  <2> QED BY <2>1, <2>2, <1>s
<1>14. CASE UNCHANGED detailVars
  BY <1>14, <1>t, <1>i DEF detailVars, DetailInv, Mods!DetailTypeOK, DetailJobs, JobsAreOfTheirPanel, Mods!PanelIsOfOneMod, Mods!LoadingEnds
<1> QED
  BY <1>1, <1>2, <1>3, <1>4, <1>5, <1>6, <1>7, <1>8, <1>9, <1>10, <1>11, <1>12, <1>13, <1>14 DEF Mods!DetailNext

-----------------------------------------------------------------------------
(***************************************************************************)
(* The mod search: the turns of its grid and the answers still to come.    *)
(***************************************************************************)
\* While no answer fell between two searches of a turn, a turn that has its results
\* has the hook's, one that has none awaits them, and off a turn the tiles are theirs.
TurnHolds ==
  "dropped" \notin lateSearches =>
    /\ ~turn.on => grid = hits
    /\ turn.on /\ turn.got # Nil => turn.got = hits /\ ~turn.out
    /\ turn.on /\ turn.got = Nil => searching

\* The one timer is the exit's as long as the tiles are going out, and a new page
\* has its frames or its timer ahead.
TimersRun ==
  /\ timer = "exit" => turn.on /\ ~turn.out
  /\ "cut" \notin lateSearches /\ turn.on /\ ~turn.out => timer = "exit"
  /\ phase # "idle" => turn.on \/ frames \/ timer = "idle"

\* The last search sent is out as long as the hook says it loads, and answers that
\* came in order leave the hook with the latest.
SearchesAreInOrder ==
  /\ unanswered \subseteq 1 .. sent /\ (searching => sent \in unanswered)
  /\ hits <= sent
  /\ {"overtaken", "dropped"} \cap lateSearches = {} /\ hits # 0 =>
       \A q \in Mods!Searches : hits < q /\ q <= sent => q \in unanswered

\* Tiles that are hidden have something ahead that shows them.
TilesAreAwaited ==
  "unshown" \notin lateSearches /\ ~seen =>
    \/ frames \/ appearing \/ panel.slide # "rest" \/ panel.frames
    \/ grid = 0 /\ ~panel.open /\ phase = "idle"

PanelFits ==
  /\ panel.slide = "opening" => panel.open
  /\ panel.slide \in {"closing", "hiding"} => ~panel.open
  /\ panel.slide = "rest" => panel.layout = panel.open

SearchInv ==
  Mods!SearchTypeOK /\ TurnHolds /\ TimersRun /\ SearchesAreInOrder /\ TilesAreAwaited /\ PanelFits

Turns == [on : BOOLEAN, out : BOOLEAN, got : 0 .. MaxSearches \cup {Nil}]
Panels == [open : BOOLEAN, layout : BOOLEAN, frames : BOOLEAN,
           slide : {"rest", "opening", "closing", "hiding"}]
Lateness == {"overtaken", "dropped", "cut", "unshown"}

\* It begins so.
LEMMA SearchBegins == Mods!SearchInit => SearchInv
<1> SUFFICES ASSUME Mods!SearchInit PROVE SearchInv
  OBVIOUS
<1> USE BrowserAssumption
<1>1. /\ typed = TRUE /\ sent = 0 /\ unanswered = {} /\ hits = 0 /\ searching = FALSE /\ grid = 0
      /\ turn = [on |-> FALSE, out |-> FALSE, got |-> Nil] /\ timer = Nil /\ frames = FALSE /\ phase = "idle"
      /\ seen = FALSE /\ appearing = FALSE /\ lateSearches = {}
      /\ panel = [open |-> FALSE, layout |-> FALSE, frames |-> FALSE, slide |-> "rest"]
  BY DEF Mods!SearchInit, Mods!NoTurn
<1>2. /\ turn \in Turns /\ panel \in Panels /\ ~turn.on /\ ~turn.out
      /\ ~panel.open /\ ~panel.layout /\ panel.slide = "rest"
  BY <1>1 DEF Turns, Panels
<1>z. 0 \in 0 .. MaxSearches
  OBVIOUS
<1>3. Mods!SearchTypeOK
  BY <1>1, <1>2, <1>z DEF Mods!SearchTypeOK, Turns, Panels
<1> QED
  BY <1>1, <1>2, <1>3 DEF SearchInv, TurnHolds, TimersRun, SearchesAreInOrder, TilesAreAwaited, PanelFits

\* A search that is over shows the last results.
LEMMA SearchPromise == SearchInv => Mods!BrowserSettles
<1> SUFFICES ASSUME SearchInv PROVE Mods!BrowserSettles
  OBVIOUS
<1> USE BrowserAssumption
<1>t. /\ sent \in 0 .. MaxSearches /\ hits \in 0 .. MaxSearches /\ turn \in Turns /\ panel \in Panels
      /\ searching \in BOOLEAN
  BY DEF SearchInv, Mods!SearchTypeOK, Turns, Panels
<1>1. Mods!GridShowsHits
  BY <1>t DEF SearchInv, TurnHolds, TimersRun, SearchesAreInOrder, Mods!GridShowsHits, Mods!Quiet, Turns
<1>2. Mods!LastSearchWins
  <2> SUFFICES ASSUME unanswered = {}, {"overtaken", "dropped"} \cap lateSearches = {}
               PROVE  hits \in {sent, 0} /\ ~searching
    BY DEF Mods!LastSearchWins
  <2>1. ~searching /\ hits <= sent
    BY DEF SearchInv, SearchesAreInOrder
  <2>2. hits # 0 => ~(hits < sent)
    <3>1. sent \in Mods!Searches \/ sent = 0
      BY <1>t DEF Mods!Searches
    <3> QED BY <1>t, <3>1 DEF SearchInv, SearchesAreInOrder
  <2> QED BY <2>1, <2>2, <1>t
<1>3. Mods!TilesComeBack
  BY <1>t DEF SearchInv, TilesAreAwaited, PanelFits, Mods!TilesComeBack, Mods!Quiet, Panels
<1> QED
  BY <1>1, <1>2, <1>3 DEF Mods!BrowserSettles

\* Every step of the browser keeps it so.
LEMMA SearchGoesOn == SearchInv /\ [Mods!SearchNext]_searchVars => SearchInv'
<1> SUFFICES ASSUME SearchInv, [Mods!SearchNext]_searchVars PROVE SearchInv'
  OBVIOUS
<1> USE BrowserAssumption
<1>t. /\ typed \in BOOLEAN /\ sent \in 0 .. MaxSearches /\ unanswered \subseteq 1 .. MaxSearches
      /\ hits \in 0 .. MaxSearches /\ grid \in 0 .. MaxSearches /\ searching \in BOOLEAN
      /\ turn \in Turns /\ timer \in {"exit", "idle", Nil} /\ frames \in BOOLEAN
      /\ phase \in {"idle", "exit", "enter"} /\ seen \in BOOLEAN /\ appearing \in BOOLEAN
      /\ panel \in Panels /\ lateSearches \subseteq Lateness
  BY DEF SearchInv, Mods!SearchTypeOK, Turns, Panels, Mods!Searches, Lateness
<1>f. /\ turn.on \in BOOLEAN /\ turn.out \in BOOLEAN /\ turn.got \in 0 .. MaxSearches \cup {Nil}
      /\ panel.open \in BOOLEAN /\ panel.layout \in BOOLEAN /\ panel.frames \in BOOLEAN
      /\ panel.slide \in {"rest", "opening", "closing", "hiding"}
  BY <1>t DEF Turns, Panels
<1>i. TurnHolds /\ TimersRun /\ SearchesAreInOrder /\ TilesAreAwaited /\ PanelFits
  BY DEF SearchInv
\* What a step owes, when its types are right.
<1>s. ASSUME /\ typed' \in BOOLEAN /\ sent' \in 0 .. MaxSearches /\ unanswered' \subseteq 1 .. MaxSearches
             /\ hits' \in 0 .. MaxSearches /\ grid' \in 0 .. MaxSearches /\ searching' \in BOOLEAN
             /\ turn' \in Turns /\ timer' \in {"exit", "idle", Nil} /\ frames' \in BOOLEAN
             /\ phase' \in {"idle", "exit", "enter"} /\ seen' \in BOOLEAN /\ appearing' \in BOOLEAN
             /\ panel' \in Panels /\ lateSearches' \subseteq Lateness,
             TurnHolds', TimersRun', SearchesAreInOrder', TilesAreAwaited', PanelFits'
      PROVE  SearchInv'
  BY <1>s DEF SearchInv, Mods!SearchTypeOK, Turns, Panels, Mods!Searches, Lateness
\* A search that is sent.
<1>n. ASSUME Mods!Send
      PROVE  /\ sent' = sent + 1 /\ sent' \in 0 .. MaxSearches /\ unanswered' = unanswered \cup {sent'}
             /\ unanswered' \subseteq 1 .. sent' /\ unanswered' \subseteq 1 .. MaxSearches /\ searching' = TRUE
  BY <1>n, <1>t, <1>i DEF Mods!Send, SearchesAreInOrder
\* What the tiles that come in bring.
<1>e. ASSUME NEW found \in 0 .. MaxSearches, Mods!Enters(found)
      PROVE  /\ turn' = Mods!NoTurn /\ turn' \in Turns /\ ~turn'.on /\ ~turn'.out /\ grid' = found
             /\ phase' = "enter" /\ seen' = FALSE /\ frames' = TRUE /\ appearing' \in BOOLEAN
  BY <1>e, <1>t DEF Mods!Enters, Mods!Shows, Mods!NoTurn, Turns
<1>1. CASE Mods!Type
  BY <1>1, <1>t, <1>i, <1>s DEF Mods!Type, Mods!gridVars, TurnHolds, TimersRun, SearchesAreInOrder,
     TilesAreAwaited, PanelFits
<1>2. CASE Mods!Search
  <2>1. UNCHANGED <<hits, grid, turn, timer, frames, phase, lateSearches, seen, appearing, panel>>
        /\ typed' = FALSE /\ Mods!Send
    BY <1>2 DEF Mods!Search
  <2>2. TurnHolds' /\ TimersRun' /\ TilesAreAwaited' /\ PanelFits'
    BY <2>1, <1>n, <1>i DEF TurnHolds, TimersRun, TilesAreAwaited, PanelFits
  <2>3. SearchesAreInOrder'
    BY <2>1, <1>n, <1>i, <1>t DEF SearchesAreInOrder, Mods!Searches
  <2> QED BY <2>1, <2>2, <2>3, <1>n, <1>t, <1>s
<1>3. CASE Mods!TurnPage
  <2>1. UNCHANGED <<typed, hits, grid, frames, lateSearches, seen, appearing, panel>>
        /\ Mods!Send /\ grid # 0 /\ timer' = "exit" /\ phase' = "exit"
        /\ turn' = [Mods!NoTurn EXCEPT !.on = TRUE]
    BY <1>3 DEF Mods!TurnPage
  <2>2. turn' \in Turns /\ turn'.on /\ ~turn'.out /\ turn'.got = Nil
    BY <2>1 DEF Turns, Mods!NoTurn
  <2>3. TurnHolds' /\ TimersRun' /\ TilesAreAwaited' /\ PanelFits'
    BY <2>1, <2>2, <1>n, <1>i DEF TurnHolds, TimersRun, TilesAreAwaited, PanelFits
  <2>4. SearchesAreInOrder'
    BY <2>1, <1>n, <1>i, <1>t DEF SearchesAreInOrder, Mods!Searches
  <2> QED BY <2>1, <2>2, <2>3, <2>4, <1>n, <1>t, <1>s
<1>4. CASE Mods!ExitEnds
  <2>1. UNCHANGED <<typed, sent, unanswered, hits, searching, panel>> /\ timer = "exit" /\ timer' = Nil
    BY <1>4 DEF Mods!ExitEnds
  <2>i. turn.on /\ ~turn.out
    BY <2>1, <1>i DEF TimersRun
  <2>2. CASE turn.got = Nil
    <3>1. /\ turn' = [turn EXCEPT !.out = TRUE]
          /\ UNCHANGED <<grid, frames, phase, seen, appearing, lateSearches>>
      BY <1>4, <2>2 DEF Mods!ExitEnds
    <3>2. turn' \in Turns /\ turn'.on /\ turn'.out /\ turn'.got = Nil
      BY <3>1, <1>t, <2>i, <2>2 DEF Turns
    <3>3. TurnHolds' /\ TimersRun' /\ TilesAreAwaited' /\ PanelFits' /\ SearchesAreInOrder'
      BY <2>1, <2>2, <2>i, <3>1, <3>2, <1>i DEF TurnHolds, TimersRun, TilesAreAwaited, PanelFits, SearchesAreInOrder
    <3> QED BY <2>1, <3>1, <3>2, <3>3, <1>t, <1>s
  <2>3. CASE turn.got # Nil
    <3>1. Mods!Enters(turn.got) /\ UNCHANGED lateSearches /\ turn.got \in 0 .. MaxSearches
      BY <1>4, <2>3, <1>f DEF Mods!ExitEnds
    <3>3. TurnHolds' /\ TimersRun' /\ TilesAreAwaited' /\ PanelFits' /\ SearchesAreInOrder'
      BY <2>1, <2>3, <2>i, <3>1, <1>e, <1>i DEF TurnHolds, TimersRun, TilesAreAwaited, PanelFits, SearchesAreInOrder
    <3> QED BY <2>1, <3>1, <3>3, <1>e, <1>t, <1>s
  <2> QED BY <2>2, <2>3
<1>5. CASE Mods!EnterBegins
  <2>1. /\ UNCHANGED <<typed, sent, unanswered, hits, searching, grid, turn, phase, appearing, panel>>
        /\ frames' = FALSE /\ seen' = TRUE /\ timer' = "idle"
        /\ lateSearches' = IF timer = "exit" THEN lateSearches \cup {"cut"} ELSE lateSearches
    BY <1>5 DEF Mods!EnterBegins
  <2>2. lateSearches' \subseteq Lateness
    BY <2>1, <1>t DEF Lateness
  <2>3. TurnHolds' /\ TimersRun' /\ TilesAreAwaited' /\ PanelFits' /\ SearchesAreInOrder'
    BY <2>1, <1>i DEF TurnHolds, TimersRun, TilesAreAwaited, PanelFits, SearchesAreInOrder
  <2> QED BY <2>1, <2>2, <2>3, <1>t, <1>s
<1>6. CASE Mods!EnterEnds
  <2>1. /\ UNCHANGED <<typed, sent, unanswered, hits, searching, grid, turn, frames, lateSearches, seen,
                       appearing, panel>>
        /\ timer = "idle" /\ timer' = Nil /\ phase' = "idle"
    BY <1>6 DEF Mods!EnterEnds
  <2>3. TurnHolds' /\ TimersRun' /\ TilesAreAwaited' /\ PanelFits' /\ SearchesAreInOrder'
    BY <2>1, <1>i DEF TurnHolds, TimersRun, TilesAreAwaited, PanelFits, SearchesAreInOrder
  <2> QED BY <2>1, <2>3, <1>t, <1>s
<1>7. CASE Mods!Appear
  <2>1. UNCHANGED <<typed, sent, unanswered, hits, searching, grid, turn, timer, frames, phase, lateSearches,
                    panel>>
        /\ appearing' = FALSE /\ seen' = TRUE
    BY <1>7 DEF Mods!Appear, Mods!gridVars
  <2>3. TurnHolds' /\ TimersRun' /\ TilesAreAwaited' /\ PanelFits' /\ SearchesAreInOrder'
    BY <2>1, <1>i DEF TurnHolds, TimersRun, TilesAreAwaited, PanelFits, SearchesAreInOrder
  <2> QED BY <2>1, <2>3, <1>t, <1>s
<1>8. CASE Mods!OpenPanel \/ Mods!ClosePanel \/ Mods!PanelSlides \/ Mods!PanelSettles
  <2>1. UNCHANGED <<typed, sent, unanswered, hits, searching, grid, turn, timer, frames, phase, lateSearches,
                    appearing>>
    BY <1>8 DEF Mods!OpenPanel, Mods!ClosePanel, Mods!PanelSlides, Mods!PanelSettles, Mods!gridVars
  <2>2. panel' \in Panels /\ seen' \in BOOLEAN /\ TilesAreAwaited' /\ PanelFits'
    <3>1. CASE Mods!OpenPanel
      BY <3>1, <2>1, <1>t, <1>i DEF Mods!OpenPanel, Panels, TilesAreAwaited, PanelFits
    <3>2. CASE Mods!ClosePanel
      BY <3>2, <2>1, <1>t, <1>i DEF Mods!ClosePanel, Panels, TilesAreAwaited, PanelFits
    <3>3. CASE Mods!PanelSlides
      <4>1. CASE panel.slide = "closing"
        BY <3>3, <4>1, <2>1, <1>t, <1>i DEF Mods!PanelSlides, Panels, TilesAreAwaited, PanelFits
      <4>2. CASE panel.slide = "opening"
        <5>1. /\ panel' = [panel EXCEPT !.slide = "rest", !.frames = TRUE, !.layout = panel.slide = "opening"]
              /\ seen' = seen
          BY <3>3, <4>2 DEF Mods!PanelSlides
        <5>2. panel' \in Panels /\ panel'.slide = "rest" /\ panel'.frames /\ panel'.layout /\ panel'.open = panel.open
          BY <5>1, <4>2, <1>t DEF Panels
        <5> QED BY <5>1, <5>2, <4>2, <2>1, <1>t, <1>f, <1>i DEF TilesAreAwaited, PanelFits
      <4>3. CASE panel.slide = "hiding"
        <5>1. /\ panel' = [panel EXCEPT !.slide = "rest", !.frames = TRUE, !.layout = panel.slide = "opening"]
              /\ seen' = seen
          BY <3>3, <4>3 DEF Mods!PanelSlides
        <5>2. panel' \in Panels /\ panel'.slide = "rest" /\ panel'.frames /\ ~panel'.layout /\ panel'.open = panel.open
          BY <5>1, <4>3, <1>t DEF Panels
        <5> QED BY <5>1, <5>2, <4>3, <2>1, <1>t, <1>f, <1>i DEF TilesAreAwaited, PanelFits
      <4> QED BY <4>1, <4>2, <4>3, <3>3, <1>f DEF Mods!PanelSlides
    <3>4. CASE Mods!PanelSettles
      BY <3>4, <2>1, <1>t, <1>i DEF Mods!PanelSettles, Panels, TilesAreAwaited, PanelFits
    <3> QED BY <3>1, <3>2, <3>3, <3>4, <1>8
  <2>3. TurnHolds' /\ TimersRun' /\ SearchesAreInOrder'
    BY <2>1, <1>i DEF TurnHolds, TimersRun, SearchesAreInOrder
  <2> QED BY <2>1, <2>2, <2>3, <1>t, <1>s
<1>9. ASSUME NEW s \in Mods!Searches, Mods!Answer(s) PROVE SearchInv'
  <2>1. /\ s \in unanswered /\ unanswered' = unanswered \ {s} /\ searching' = FALSE
        /\ UNCHANGED <<typed, sent, panel>>
    BY <1>9 DEF Mods!Answer
  <2>2. PICK found \in {s, 0} :
       /\ hits' = found
       /\ CASE turn.on /\ searching /\ turn.out ->
                 Mods!Enters(found) /\ lateSearches' = lateSearches \cup Mods!Overtaken(s) /\ UNCHANGED timer
            [] turn.on /\ searching /\ ~turn.out ->
                 /\ turn' = [turn EXCEPT !.got = found] /\ lateSearches' = lateSearches \cup Mods!Overtaken(s)
                 /\ UNCHANGED <<grid, timer, frames, phase, seen, appearing>>
            [] turn.on /\ ~searching ->
                 /\ lateSearches' = lateSearches \cup {"dropped"}
                 /\ UNCHANGED <<turn, grid, timer, frames, phase, seen, appearing>>
            [] ~turn.on ->
                 /\ UNCHANGED <<turn, timer, frames, phase, seen>>
                 /\ Mods!Shows(found) /\ lateSearches' = lateSearches \cup Mods!Overtaken(s) \cup Mods!Unshown
    BY <1>9 DEF Mods!Answer
  <2>3. s \in 1 .. sent /\ found \in 0 .. MaxSearches /\ s \in 1 .. MaxSearches /\ found \in Nat
    BY <2>1, <1>t, <1>i DEF SearchesAreInOrder
  <2>4. Mods!Overtaken(s) \subseteq {"overtaken"} /\ Mods!Unshown \subseteq {"unshown"}
    BY DEF Mods!Overtaken, Mods!Unshown
  <2>o. SearchesAreInOrder' /\ unanswered' \subseteq 1 .. MaxSearches
    <3>1. CASE "dropped" \in lateSearches'
      BY <3>1, <2>1, <2>2, <2>3, <1>t, <1>i DEF SearchesAreInOrder
    <3>2. CASE "dropped" \notin lateSearches'
      <4>1. Mods!Overtaken(s) \subseteq lateSearches'
        BY <3>2, <2>2, <1>f, <1>t
      <4>2. "overtaken" \notin lateSearches' =>
              \A q \in Mods!Searches : s < q /\ q <= sent => q \in unanswered
        BY <4>1, <1>t, <2>3 DEF Mods!Overtaken, Mods!Searches
      <4> QED
        BY <4>2, <2>1, <2>2, <2>3, <1>t, <1>i DEF SearchesAreInOrder, Mods!Searches
    <3> QED BY <3>1, <3>2
  <2>p. PanelFits' /\ panel' \in Panels
    BY <2>1, <1>t, <1>i DEF PanelFits
  <2>a. CASE turn.on /\ searching /\ turn.out
    <3>1. Mods!Enters(found) /\ lateSearches' = lateSearches \cup Mods!Overtaken(s) /\ UNCHANGED timer
      BY <2>a, <2>2
    <3>2. lateSearches' \subseteq Lateness
      BY <3>1, <2>4, <1>t DEF Lateness
    <3>3. TurnHolds' /\ TimersRun' /\ TilesAreAwaited'
      BY <2>a, <2>1, <2>2, <2>3, <3>1, <1>e, <1>i DEF TurnHolds, TimersRun, TilesAreAwaited
    <3> QED BY <2>1, <2>2, <2>3, <2>o, <2>p, <3>1, <3>2, <3>3, <1>e, <1>t, <1>s
  <2>b. CASE turn.on /\ searching /\ ~turn.out
    <3>1. /\ turn' = [turn EXCEPT !.got = found] /\ lateSearches' = lateSearches \cup Mods!Overtaken(s)
          /\ UNCHANGED <<grid, timer, frames, phase, seen, appearing>>
      BY <2>b, <2>2
    <3>2. lateSearches' \subseteq Lateness /\ turn' \in Turns /\ turn'.on = turn.on /\ turn'.out = turn.out
          /\ turn'.got = found
      BY <3>1, <2>3, <2>4, <1>t DEF Lateness, Turns
    <3>3. TurnHolds' /\ TimersRun' /\ TilesAreAwaited'
      BY <2>b, <2>1, <2>2, <2>3, <2>4, <3>1, <3>2, <1>i DEF TurnHolds, TimersRun, TilesAreAwaited
    <3> QED BY <2>1, <2>2, <2>3, <2>o, <2>p, <3>1, <3>2, <3>3, <1>t, <1>s
  <2>c. CASE turn.on /\ ~searching
    <3>1. /\ lateSearches' = lateSearches \cup {"dropped"}
          /\ UNCHANGED <<turn, grid, timer, frames, phase, seen, appearing>>
      BY <2>c, <2>2
    <3>2. lateSearches' \subseteq Lateness
      BY <3>1, <1>t DEF Lateness
    <3>3. TurnHolds' /\ TimersRun' /\ TilesAreAwaited'
      BY <2>c, <2>1, <2>2, <3>1, <1>i DEF TurnHolds, TimersRun, TilesAreAwaited
    <3> QED BY <2>1, <2>2, <2>3, <2>o, <2>p, <3>1, <3>2, <3>3, <1>t, <1>s
  <2>d. CASE ~turn.on
    <3>1. /\ UNCHANGED <<turn, timer, frames, phase, seen>>
          /\ Mods!Shows(found) /\ lateSearches' = lateSearches \cup Mods!Overtaken(s) \cup Mods!Unshown
      BY <2>d, <2>2
    <3>2. lateSearches' \subseteq Lateness
      BY <3>1, <2>4, <1>t DEF Lateness
    <3>3. grid' = found /\ appearing' \in BOOLEAN
      BY <3>1, <1>t, <1>f DEF Mods!Shows
    <3>4. TurnHolds' /\ TimersRun'
      BY <2>d, <2>1, <2>2, <2>3, <2>4, <3>1, <3>3, <1>i DEF TurnHolds, TimersRun
    <3>5. TilesAreAwaited'
      <4> SUFFICES ASSUME "unshown" \notin lateSearches', ~seen'
                   PROVE \/ frames' \/ appearing' \/ panel'.slide # "rest" \/ panel'.frames
                         \/ grid' = 0 /\ ~panel'.open /\ phase' = "idle"
        BY DEF TilesAreAwaited
      <4>1. "unshown" \notin lateSearches /\ "unshown" \notin Mods!Unshown /\ ~seen
        BY <3>1
      <4>2. appearing => appearing' \/ frames'
        BY <4>1, <3>1, <3>3, <1>t DEF Mods!Unshown
      <4>3. \/ frames \/ appearing \/ panel.slide # "rest" \/ panel.frames
            \/ grid = 0 /\ ~panel.open /\ phase = "idle"
        BY <4>1, <1>i DEF TilesAreAwaited
      <4>4. ASSUME grid = 0, ~panel.open, phase = "idle" PROVE appearing' \/ grid' = 0
        BY <4>4, <3>1, <1>t DEF Mods!Shows
      <4> QED BY <4>2, <4>3, <4>4, <3>1, <2>1
    <3> QED BY <2>1, <2>2, <2>3, <2>o, <2>p, <3>1, <3>2, <3>3, <3>4, <3>5, <1>t, <1>s
  <2> QED BY <2>a, <2>b, <2>c, <2>d, <1>f, <1>t
<1>10. CASE UNCHANGED searchVars
  BY <1>10, <1>t, <1>i, <1>s DEF searchVars, TurnHolds, TimersRun, SearchesAreInOrder, TilesAreAwaited, PanelFits
<1> QED
  BY <1>1, <1>2, <1>3, <1>4, <1>5, <1>6, <1>7, <1>8, <1>9, <1>10 DEF Mods!SearchNext

-----------------------------------------------------------------------------
(***************************************************************************)
(* The saved buckets, their secrets and the pane that lists them.          *)
(***************************************************************************)
DestIds == 1 .. MaxIds
DestAccounts == 1 .. MaxSaves
Readings == [of : {"pane", "form"}, is : [DestIds -> Uploads!Shown \cup {Nil}]]
Forms == [id : DestIds \cup {0, Nil}, account : {0} \cup DestAccounts,
          call : {"save", "remove", "done", "reading", Nil}]
Openings == [at : {"none", "found", "open"}, id : DestIds \cup {Nil},
             account : {0} \cup DestAccounts, secret : {0} \cup DestAccounts]

\* What has not been born has neither row nor secret.
NothingUnborn == \A d \in DestIds : d > born => listed[d] = Nil /\ secrets[d] = 0

\* A call is of a form that is open, and a form of a row has an account.
FormFits ==
  /\ form.call = "remove" => form.id \in DestIds
  /\ form.call = "save" => form.id # Nil
  /\ form.id \in DestIds => form.account \in DestAccounts

\* What excuses a secret that is not its row's, and a row that is not as it is shown.
Crossed(d) == savesCrossed \/ <<"save", d>> \in torn
Excused(d) == d \in elsewhere \/ <<"save", d>> \in torn \/ <<"delete", d>> \in torn

\* A stored secret, and the one that is about to be read, are the row's account's.
SecretsFit == \A d \in DestIds : listed[d] # Nil /\ secrets[d] # 0 => secrets[d] = listed[d].account \/ Crossed(d)
OpeningFits ==
  opening.at = "found" =>
    /\ opening.id \in DestIds
    /\ secrets[opening.id] # 0 => secrets[opening.id] = opening.account \/ Crossed(opening.id)

\* The readings lie in the order they were asked for, and a call awaits one of its own.
ReadingsFit ==
  /\ \A r, q \in 1 .. MaxReads : q < r /\ lists[r] # Nil => lists[q] # Nil
  /\ \A r \in 1 .. MaxReads : lists[r] # Nil /\ lists[r].of = "form" => form.call = "reading"
  /\ \A r, q \in 1 .. MaxReads :
       lists[r] # Nil /\ lists[q] # Nil /\ lists[r].of = "form" /\ lists[q].of = "form" => r = q

\* What is told of a destination, and whether a list tells no more and no less.
Told(d) == IF listed[d] = Nil THEN Nil ELSE [row |-> listed[d], secretSet |-> secrets[d] # 0]
Tells(l) == \A d \in DestIds : l[d] = Told(d) \/ Excused(d)

\* The last reading asked for, or the list once there is none, tells what is stored.
ListsFit ==
  ~listOvertaken /\ form.call # "done" =>
    /\ (\A r \in 1 .. MaxReads : lists[r] = Nil) => Tells(list)
    /\ \A r \in 1 .. MaxReads :
         lists[r] # Nil /\ (\A q \in 1 .. MaxReads : r < q => lists[q] = Nil) => Tells(lists[r].is)

DestInv ==
  /\ Uploads!DestTypeOK /\ NothingUnborn /\ FormFits /\ Uploads!NamesAreUnique /\ Uploads!SecretsHaveOwners
  /\ SecretsFit /\ OpeningFits /\ Uploads!SignsWithItsOwn /\ ReadingsFit /\ ListsFit

\* The types of the state.
LEMMA DestTypes ==
  ASSUME DestInv
  PROVE  /\ listed \in [DestIds -> Uploads!Row \cup {Nil}] /\ secrets \in [DestIds -> {0} \cup DestAccounts]
         /\ accounts \in {0} \cup DestAccounts /\ born \in 0 .. MaxIds
         /\ list \in [DestIds -> Uploads!Shown \cup {Nil}] /\ listing \in BOOLEAN
         /\ lists \in [1 .. MaxReads -> Readings \cup {Nil}]
         /\ form \in Forms /\ opening \in Openings
         /\ torn \subseteq {"save", "delete"} \X DestIds /\ elsewhere \subseteq DestIds
         /\ savesCrossed \in BOOLEAN /\ listOvertaken \in BOOLEAN
BY DEF DestInv, Uploads!DestTypeOK, DestIds, DestAccounts, Readings, Forms, Openings, Uploads!Ids, Uploads!Accounts, Uploads!New

\* And of the next.
LEMMA DestTypesHold ==
  ASSUME listed' \in [DestIds -> Uploads!Row \cup {Nil}], secrets' \in [DestIds -> {0} \cup DestAccounts],
         accounts' \in {0} \cup DestAccounts, born' \in 0 .. MaxIds,
         list' \in [DestIds -> Uploads!Shown \cup {Nil}], listing' \in BOOLEAN,
         lists' \in [1 .. MaxReads -> Readings \cup {Nil}],
         form' \in Forms, opening' \in Openings,
         torn' \subseteq {"save", "delete"} \X DestIds, elsewhere' \subseteq DestIds,
         savesCrossed' \in BOOLEAN, listOvertaken' \in BOOLEAN
  PROVE  Uploads!DestTypeOK'
BY DEF Uploads!DestTypeOK, DestIds, DestAccounts, Readings, Forms, Openings, Uploads!Ids, Uploads!Accounts, Uploads!New

\* What the sets hold, and that Nil is in none.
LEMMA DestSets ==
  /\ DestIds \subseteq Nat \ {0} /\ DestAccounts \subseteq Nat \ {0} /\ Nil \notin DestIds /\ Nil # 0
  /\ Nil \notin {"save", "remove", "done", "reading"} /\ Nil \notin Readings
  /\ Nil \notin Uploads!Row /\ Nil \notin Uploads!Shown
  /\ \A x \in Uploads!Row : x.account \in DestAccounts
  /\ \A x \in Uploads!Shown : x.row \in Uploads!Row
  /\ \A x \in Readings : x.of \in {"pane", "form"} /\ x.is \in [DestIds -> Uploads!Shown \cup {Nil}]
  /\ Uploads!NoForm \in Forms /\ Uploads!NoForm.call = Nil /\ Uploads!NoForm.id = Nil
  /\ Uploads!NoClient \in Openings /\ Uploads!NoClient.at = "none"
<1>1. DestIds \subseteq Nat \ {0} /\ DestAccounts \subseteq Nat \ {0}
  BY PlacesAssumption DEF DestIds, DestAccounts
<1>2. Nil \notin Readings
  BY PlacesAssumption DEF Readings, DestIds, Uploads!Ids
<1>3. \A x \in Uploads!Row : x.account \in DestAccounts
  BY DEF Uploads!Row, Uploads!Accounts, DestAccounts
<1>4. \A x \in Uploads!Shown : x.row \in Uploads!Row
  BY DEF Uploads!Shown
<1>5. \A x \in Readings : x.of \in {"pane", "form"} /\ x.is \in [DestIds -> Uploads!Shown \cup {Nil}]
  BY DEF Readings
<1>6. /\ Uploads!NoForm \in Forms /\ Uploads!NoForm.call = Nil /\ Uploads!NoForm.id = Nil
      /\ Uploads!NoClient \in Openings /\ Uploads!NoClient.at = "none"
  BY DEF Uploads!NoForm, Uploads!NoClient, Forms, Openings
<1> QED
  BY <1>1, <1>2, <1>3, <1>4, <1>5, <1>6, PlacesAssumption

\* It begins so.
LEMMA DestBegins == Uploads!DestInit => DestInv
<1> SUFFICES ASSUME Uploads!DestInit PROVE DestInv
  OBVIOUS
<1> USE DestSets, PlacesAssumption
<1>1. /\ listed = [d \in DestIds |-> Nil] /\ secrets = [d \in DestIds |-> 0] /\ accounts = 0 /\ born = 0
      /\ list = [d \in DestIds |-> Nil] /\ lists = [r \in 1 .. MaxReads |-> Nil]
      /\ listing = FALSE /\ form = Uploads!NoForm /\ opening = Uploads!NoClient
      /\ torn = {} /\ savesCrossed = FALSE /\ listOvertaken = FALSE /\ elsewhere = {}
  BY DEF Uploads!DestInit, DestIds, Uploads!Ids
<1>2. Uploads!DestTypeOK
  <2>1. born \in 0 .. MaxIds
    BY <1>1
  <2> QED
    BY <2>1, <1>1 DEF Uploads!DestTypeOK, DestIds, DestAccounts, Readings, Forms, Openings, Uploads!Ids,
       Uploads!Accounts, Uploads!New
<1>3. NothingUnborn /\ FormFits /\ SecretsFit /\ OpeningFits /\ ReadingsFit
  BY <1>1 DEF NothingUnborn, FormFits, SecretsFit, OpeningFits, ReadingsFit
<1>4. Uploads!NamesAreUnique /\ Uploads!SecretsHaveOwners /\ Uploads!SignsWithItsOwn
  BY <1>1 DEF Uploads!NamesAreUnique, Uploads!SecretsHaveOwners, Uploads!SignsWithItsOwn, DestIds, Uploads!Ids
<1>5. ListsFit
  BY <1>1 DEF ListsFit, Tells, Told
<1> QED
  BY <1>2, <1>3, <1>4, <1>5 DEF DestInv

\* A pane at rest shows what is stored.
LEMMA DestPromise == DestInv => Uploads!DestinationsAreSound
<1> SUFFICES ASSUME DestInv PROVE Uploads!ListIsStored
  BY DEF DestInv, Uploads!DestinationsAreSound
<1> SUFFICES ASSUME \A r \in 1 .. MaxReads : lists[r] = Nil, ~listOvertaken, form.call # "done",
                    NEW d \in DestIds
             PROVE  \/ list[d] = Uploads!List[d] \/ d \in elsewhere
                    \/ {<<"save", d>>, <<"delete", d>>} \cap torn # {}
  BY DEF Uploads!ListIsStored, DestIds, Uploads!Ids
<1>1. list[d] = Told(d) \/ Excused(d)
  BY DEF DestInv, ListsFit, Tells
<1>2. Uploads!List[d] = Told(d)
  BY DEF Uploads!List, Told, DestIds, Uploads!Ids
<1> QED
  BY <1>1, <1>2 DEF Excused

\* What the pane and its readings tell is not touched by a step that changes only what
\* is excused, or that leaves a call done.
LEMMA ListsStay ==
  ASSUME DestInv, UNCHANGED <<lists, list, listOvertaken>>,
         form'.call # "done" => form.call # "done",
         form'.call # "done" => \A d \in DestIds : Told(d)' = Told(d) \/ Excused(d)',
         \A d \in DestIds : Excused(d) => Excused(d)'
  PROVE  ListsFit'
<1>1. ListsFit
  BY DEF DestInv
<1>2. ASSUME form'.call # "done", NEW l, Tells(l) PROVE \A d \in DestIds : l[d] = Told(d)' \/ Excused(d)'
  BY <1>2 DEF Tells
<1>3. ASSUME form'.call # "done", Tells(list) PROVE Tells(list)'
  BY <1>2, <1>3 DEF Tells
<1>4. ASSUME form'.call # "done", NEW r \in 1 .. MaxReads, Tells(lists[r].is) PROVE Tells(lists[r].is)'
  <2>1. \A d \in DestIds : lists[r].is[d] = Told(d)' \/ Excused(d)'
    BY <1>4, <1>2
  <2> QED BY <2>1 DEF Tells
<1> QED
  BY <1>1, <1>3, <1>4 DEF ListsFit

\* The pane's own steps, which leave what is stored alone.
LEMMA StoredStays ==
  ASSUME DestInv, UNCHANGED <<listed, secrets, accounts, born, torn, savesCrossed, elsewhere>>
  PROVE  /\ NothingUnborn' /\ Uploads!NamesAreUnique' /\ Uploads!SecretsHaveOwners' /\ SecretsFit'
         /\ opening' = opening => OpeningFits' /\ Uploads!SignsWithItsOwn'
         /\ \A d \in DestIds : Told(d)' = Told(d) /\ (Excused(d)' <=> Excused(d))
BY DEF DestInv, NothingUnborn, Uploads!NamesAreUnique, Uploads!SecretsHaveOwners, SecretsFit, Crossed,
   OpeningFits, Uploads!SignsWithItsOwn, Told, Excused

\* A save, of either store.
LEMMA SaveGoesOn == ASSUME DestInv, Uploads!SaveDestination PROVE DestInv'
<1> USE DestSets
<1>t. /\ listed \in [DestIds -> Uploads!Row \cup {Nil}] /\ secrets \in [DestIds -> {0} \cup DestAccounts]
      /\ accounts \in {0} \cup DestAccounts /\ born \in 0 .. MaxIds /\ form \in Forms /\ opening \in Openings
      /\ torn \subseteq {"save", "delete"} \X DestIds /\ savesCrossed \in BOOLEAN
  BY DestTypes
<1>i. /\ NothingUnborn /\ FormFits /\ Uploads!NamesAreUnique /\ Uploads!SecretsHaveOwners
      /\ SecretsFit /\ OpeningFits /\ Uploads!SignsWithItsOwn /\ ReadingsFit /\ ListsFit
  BY DEF DestInv
<1>f. form.call = "save" /\ UNCHANGED <<list, listing, lists, opening, listOvertaken, elsewhere>>
  BY DEF Uploads!SaveDestination
<1>1. PICK d \in DestIds, name \in BucketNames, typedIn \in BOOLEAN :
       /\ Uploads!IdOf(d) /\ Uploads!Saves(d, name, typedIn) /\ (typedIn => accounts < MaxSaves)
       /\ Uploads!StoreSecret(d, typedIn)
       /\ accounts' = IF typedIn THEN accounts + 1 ELSE accounts
       /\ born' = IF form.id = 0 THEN d ELSE born
       /\ savesCrossed' = \/ savesCrossed
                          \/ opening.at = "found" /\ opening.id = d
                          \/ ~typedIn /\ listed[d].account # form.account
       /\ \/ Uploads!StoreRow(d, name, typedIn) /\ Uploads!Ended("done") /\ UNCHANGED torn
          \/ /\ torn = {} /\ UNCHANGED listed /\ Uploads!Ended(Nil)
             /\ torn' = IF typedIn THEN torn \cup {<<"save", d>>} ELSE torn
  BY DEF Uploads!SaveDestination, DestIds, Uploads!Ids, Uploads!New
<1>2. /\ form.id = 0 => d = born + 1 /\ secrets[d] = 0 /\ listed[d] = Nil /\ typedIn
      /\ form.id # 0 => d = form.id /\ form.account \in DestAccounts /\ listed[d] # Nil
  <2>1. form.id \in DestIds \cup {0}
    BY <1>t, <1>i, <1>f DEF FormFits, Forms
  <2>2. form.id = 0 => d = born + 1
    BY <1>1 DEF Uploads!IdOf, Uploads!New
  <2>3. form.id = 0 => secrets[d] = 0 /\ listed[d] = Nil
    BY <2>2, <1>t, <1>i DEF NothingUnborn
  <2>4. typedIn \/ secrets[d] # 0
    BY <1>1 DEF Uploads!Saves
  <2>5. form.id # 0 => d = form.id /\ listed[d] # Nil
    BY <1>1 DEF Uploads!IdOf, Uploads!Saves, Uploads!New
  <2> QED BY <2>1, <2>2, <2>3, <2>4, <2>5, <1>i DEF FormFits
<1> DEFINE kept == IF typedIn THEN accounts + 1 ELSE secrets[d]
<1>3. kept \in DestAccounts /\ accounts' \in {0} \cup DestAccounts
  <2>1. CASE typedIn
    BY <2>1, <1>1, <1>t, PlacesAssumption DEF DestAccounts
  <2>2. CASE ~typedIn
    BY <2>2, <1>1, <1>t DEF Uploads!Saves
  <2> QED BY <2>1, <2>2
<1>4. secrets' = [secrets EXCEPT ![d] = kept]
  BY <1>1, <1>t DEF Uploads!StoreSecret
<1>5. secrets' \in [DestIds -> {0} \cup DestAccounts] /\ secrets'[d] = kept /\ secrets'[d] # 0
      /\ \A e \in DestIds \ {d} : secrets'[e] = secrets[e]
  BY <1>3, <1>4, <1>t
<1>6. born' \in 0 .. MaxIds /\ d <= born' /\ born <= born'
  <2>1. d \in 0 .. MaxIds /\ d \in Nat
    BY DEF DestIds
  <2>2. CASE form.id = 0
    BY <2>1, <2>2, <1>1, <1>2, <1>t
  <2>3. CASE form.id # 0
    <3>1. ~(d > born)
      BY <2>3, <1>2, <1>i DEF NothingUnborn
    <3> QED BY <2>1, <2>3, <3>1, <1>1, <1>t
  <2> QED BY <2>2, <2>3
<1>7. savesCrossed' \in BOOLEAN /\ (savesCrossed => savesCrossed')
      /\ (opening.at = "found" /\ opening.id = d => savesCrossed')
      /\ (~typedIn /\ listed[d].account # form.account => savesCrossed')
  BY <1>1
<1> HIDE DEF kept
\* What goes for either end of the save.
<1>e. ASSUME listed' \in [DestIds -> Uploads!Row \cup {Nil}],
             \A e \in DestIds \ {d} : listed'[e] = listed[e],
             form' \in Forms, form'.call \in {"done", Nil}, form'.id = form.id, form'.account = form.account,
             torn \subseteq torn', torn' \subseteq torn \cup {<<"save", d>>},
             Uploads!NamesAreUnique',
             listed'[d] = Nil => <<"save", d>> \in torn',
             listed'[d] # Nil => kept = listed'[d].account \/ savesCrossed' \/ <<"save", d>> \in torn',
             form'.call # "done" => Told(d)' = Told(d) \/ Excused(d)'
      PROVE  DestInv'
  <2>1. torn' \subseteq {"save", "delete"} \X DestIds
    BY <1>e, <1>t
  <2>2. Uploads!DestTypeOK'
    BY <1>e, <1>3, <1>5, <1>6, <1>7, <1>f, <2>1, DestTypes, DestTypesHold
  <2>3. NothingUnborn'
    BY <1>e, <1>5, <1>6, <1>t, <1>i DEF NothingUnborn
  <2>4. FormFits' /\ ReadingsFit'
    BY <1>e, <1>f, <1>i DEF FormFits, ReadingsFit
  <2>5. Uploads!SecretsHaveOwners'
    <3> SUFFICES ASSUME NEW e \in DestIds
                 PROVE  /\ secrets'[e] # 0 /\ listed'[e] = Nil => <<"save", e>> \in torn'
                        /\ secrets'[e] = 0 /\ listed'[e] # Nil => <<"delete", e>> \in torn'
      BY DEF Uploads!SecretsHaveOwners, DestIds, Uploads!Ids
    <3>1. CASE e = d
      BY <3>1, <1>e, <1>5
    <3>2. CASE e # d
      BY <3>2, <1>e, <1>5, <1>i DEF Uploads!SecretsHaveOwners, DestIds, Uploads!Ids
    <3> QED BY <3>1, <3>2
  <2>6. \A e \in DestIds : Crossed(e) => Crossed(e)'
    BY <1>e, <1>7 DEF Crossed
  <2>7. SecretsFit'
    <3> SUFFICES ASSUME NEW e \in DestIds, listed'[e] # Nil, secrets'[e] # 0
                 PROVE  secrets'[e] = listed'[e].account \/ Crossed(e)'
      BY DEF SecretsFit
    <3>1. CASE e = d
      BY <3>1, <1>e, <1>5 DEF Crossed
    <3>2. CASE e # d
      BY <3>2, <2>6, <1>e, <1>5, <1>i DEF SecretsFit
    <3> QED BY <3>1, <3>2
  <2>8. OpeningFits'
    <3> SUFFICES ASSUME opening.at = "found"
                 PROVE  /\ opening.id \in DestIds
                        /\ secrets'[opening.id] # 0 => secrets'[opening.id] = opening.account \/ Crossed(opening.id)'
      BY <1>f DEF OpeningFits
    <3>1. opening.id \in DestIds
      BY <1>i DEF OpeningFits
    <3>2. CASE opening.id = d
      BY <3>1, <3>2, <1>7 DEF Crossed
    <3>3. CASE opening.id # d
      <4>1. secrets'[opening.id] = secrets[opening.id] /\ (secrets[opening.id] # 0 =>
              secrets[opening.id] = opening.account \/ savesCrossed \/ <<"save", opening.id>> \in torn)
        BY <3>1, <3>3, <1>5, <1>i DEF OpeningFits, Crossed
      <4> QED BY <3>1, <4>1, <1>e, <1>f, <1>7 DEF Crossed
    <3> QED BY <3>1, <3>2, <3>3
  <2>9. Uploads!SignsWithItsOwn'
    BY <1>e, <1>f, <1>7, <1>i DEF Uploads!SignsWithItsOwn
  <2>10. ListsFit'
    <3>1. \A e \in DestIds \ {d} : Told(e)' = Told(e)
      BY <1>e, <1>5 DEF Told
    <3>2. \A e \in DestIds : Excused(e) => Excused(e)'
      BY <1>e, <1>f DEF Excused
    <3> QED BY <3>1, <3>2, <1>e, <1>f, ListsStay
  <2> QED
    BY <1>e, <2>2, <2>3, <2>4, <2>5, <2>7, <2>8, <2>9, <2>10 DEF DestInv
<1>8. CASE Uploads!StoreRow(d, name, typedIn) /\ Uploads!Ended("done") /\ UNCHANGED torn
  <2> DEFINE row == [name |-> name, account |-> IF typedIn THEN accounts + 1 ELSE form.account]
  <2>1. listed' = [listed EXCEPT ![d] = row]
    BY <1>8 DEF Uploads!StoreRow
  <2>2. row \in Uploads!Row /\ row.name = name /\ row.account = (IF typedIn THEN accounts + 1 ELSE form.account)
    BY <1>2, <1>3 DEF kept, Uploads!Row, Uploads!Accounts, DestAccounts
  <2> HIDE DEF row
  <2>3. /\ listed' \in [DestIds -> Uploads!Row \cup {Nil}] /\ listed'[d] = row
        /\ \A e \in DestIds \ {d} : listed'[e] = listed[e]
    BY <2>1, <2>2, <1>t
  <2>4. form' \in Forms /\ form'.call = "done" /\ form'.id = form.id /\ form'.account = form.account
    BY <1>8, <1>t DEF Uploads!Ended, Forms
  <2>5. Uploads!NamesAreUnique'
    <3>1. \A e \in DestIds \ {d} : listed[e] # Nil => listed[e].name # name
      BY <1>1 DEF Uploads!Saves, Uploads!NameFree, DestIds, Uploads!Ids
    <3> SUFFICES ASSUME NEW e \in DestIds, NEW g \in DestIds, e # g, listed'[e] # Nil, listed'[g] # Nil
                 PROVE  listed'[e].name # listed'[g].name
      BY DEF Uploads!NamesAreUnique, DestIds, Uploads!Ids
    <3>2. CASE e # d /\ g # d
      BY <3>2, <2>3, <1>i DEF Uploads!NamesAreUnique, DestIds, Uploads!Ids
    <3>3. CASE e = d \/ g = d
      BY <3>1, <3>3, <2>2, <2>3
    <3> QED BY <3>2, <3>3
  <2>6. kept = listed'[d].account \/ savesCrossed' \/ <<"save", d>> \in torn'
    <3>1. CASE typedIn
      BY <3>1, <2>2, <2>3 DEF kept
    <3>2. CASE ~typedIn
      <4>1. listed[d] # Nil /\ secrets[d] # 0
        BY <3>2, <1>2, <1>1 DEF Uploads!Saves
      <4>2. secrets[d] = listed[d].account \/ savesCrossed \/ <<"save", d>> \in torn
        BY <4>1, <1>i DEF SecretsFit, Crossed
      <4>3. listed[d].account = form.account \/ savesCrossed'
        BY <3>2, <1>7
      <4> QED BY <3>2, <4>2, <4>3, <2>2, <2>3, <1>7, <1>8 DEF kept
    <3> QED BY <3>1, <3>2
  <2>7. listed'[d] # Nil
    BY <2>2, <2>3
  <2> QED BY <2>3, <2>4, <2>5, <2>6, <2>7, <1>8, <1>e
<1>9. CASE /\ torn = {} /\ UNCHANGED listed /\ Uploads!Ended(Nil)
           /\ torn' = IF typedIn THEN torn \cup {<<"save", d>>} ELSE torn
  <2>1. form' \in Forms /\ form'.call = Nil /\ form'.id = form.id /\ form'.account = form.account
    BY <1>9, <1>t DEF Uploads!Ended, Forms
  <2>2. Uploads!NamesAreUnique'
    BY <1>9, <1>i DEF Uploads!NamesAreUnique
  <2>3. CASE typedIn
    <3>1. <<"save", d>> \in torn' /\ torn \subseteq torn' /\ torn' \subseteq torn \cup {<<"save", d>>} /\ Excused(d)'
      BY <2>3, <1>9 DEF Excused
    <3> QED BY <3>1, <2>1, <2>2, <1>9, <1>t, <1>e
  <2>4. CASE ~typedIn
    <3>1. listed[d] # Nil /\ secrets[d] # 0 /\ kept = secrets[d] /\ torn' = torn
      BY <2>4, <1>2, <1>1, <1>9 DEF Uploads!Saves, kept
    <3>2. kept = listed'[d].account \/ savesCrossed' \/ <<"save", d>> \in torn'
      BY <3>1, <1>9, <1>7, <1>i DEF SecretsFit, Crossed
    <3>3. Told(d)' = Told(d)
      BY <3>1, <1>5, <1>9 DEF Told
    <3> QED BY <3>1, <3>2, <3>3, <2>1, <2>2, <1>9, <1>t, <1>e
  <2> QED BY <2>3, <2>4
<1> QED
  BY <1>1, <1>8, <1>9

\* A secret that goes, and its row after it or not.
LEMMA DeleteGoesOn ==
  ASSUME DestInv, NEW d \in DestIds, NEW through \in BOOLEAN, Uploads!Delete(d, through),
         UNCHANGED <<accounts, born, list, listing, lists, opening, savesCrossed, listOvertaken>>,
         elsewhere \subseteq elsewhere', elsewhere' \subseteq DestIds,
         form' \in Forms, FormFits', ReadingsFit',
         form'.call # "done" => form.call # "done" /\ (d \in elsewhere' \/ ~through)
  PROVE  DestInv'
<1> USE DestSets
<1>t. /\ listed \in [DestIds -> Uploads!Row \cup {Nil}] /\ secrets \in [DestIds -> {0} \cup DestAccounts]
      /\ torn \subseteq {"save", "delete"} \X DestIds /\ opening \in Openings
  BY DestTypes
<1>i. /\ NothingUnborn /\ Uploads!NamesAreUnique /\ Uploads!SecretsHaveOwners
      /\ SecretsFit /\ OpeningFits /\ Uploads!SignsWithItsOwn /\ ListsFit
  BY DEF DestInv
<1>1. /\ secrets' = [secrets EXCEPT ![d] = 0]
      /\ listed' = IF through THEN [listed EXCEPT ![d] = Nil] ELSE listed
      /\ torn' = IF through \/ listed[d] = Nil THEN torn ELSE torn \cup {<<"delete", d>>}
  BY DEF Uploads!Delete
<1>2. /\ secrets' \in [DestIds -> {0} \cup DestAccounts] /\ secrets'[d] = 0
      /\ \A e \in DestIds \ {d} : secrets'[e] = secrets[e]
      /\ listed' \in [DestIds -> Uploads!Row \cup {Nil}]
      /\ \A e \in DestIds \ {d} : listed'[e] = listed[e]
      /\ listed'[d] \in {listed[d], Nil} /\ (listed'[d] # Nil => <<"delete", d>> \in torn')
      /\ torn \subseteq torn' /\ torn' \subseteq {"save", "delete"} \X DestIds
  BY <1>1, <1>t
<1>3. Uploads!DestTypeOK'
  BY <1>2, DestTypes, DestTypesHold
<1>4. NothingUnborn' /\ Uploads!NamesAreUnique'
  <2>1. \A e \in DestIds : listed'[e] # Nil => listed'[e] = listed[e] /\ listed[e] # Nil
    BY <1>2
  <2>2. Uploads!NamesAreUnique'
    BY <2>1, <1>i DEF Uploads!NamesAreUnique, DestIds, Uploads!Ids
  <2>3. NothingUnborn'
    BY <2>1, <1>2, <1>i DEF NothingUnborn
  <2> QED BY <2>2, <2>3
<1>5. Uploads!SecretsHaveOwners'
  <2> SUFFICES ASSUME NEW e \in DestIds
               PROVE  /\ secrets'[e] # 0 /\ listed'[e] = Nil => <<"save", e>> \in torn'
                      /\ secrets'[e] = 0 /\ listed'[e] # Nil => <<"delete", e>> \in torn'
    BY DEF Uploads!SecretsHaveOwners, DestIds, Uploads!Ids
  <2> QED BY <1>2, <1>i DEF Uploads!SecretsHaveOwners, DestIds, Uploads!Ids
<1>6. \A e \in DestIds : Crossed(e) => Crossed(e)'
  BY <1>2 DEF Crossed
<1>7. SecretsFit'
  BY <1>2, <1>6, <1>i DEF SecretsFit
<1>8. OpeningFits' /\ Uploads!SignsWithItsOwn'
  <2>1. OpeningFits'
    BY <1>2, <1>6, <1>i DEF OpeningFits
  <2>2. Uploads!SignsWithItsOwn'
    BY <1>2, <1>i DEF Uploads!SignsWithItsOwn
  <2> QED BY <2>1, <2>2
<1>9. ListsFit'
  <2>1. \A e \in DestIds \ {d} : Told(e)' = Told(e)
    BY <1>2 DEF Told
  <2>2. \A e \in DestIds : Excused(e) => Excused(e)'
    BY <1>2 DEF Excused
  <2>3. form'.call # "done" => Told(d)' = Told(d) \/ Excused(d)'
    <3>1. CASE through
      BY <3>1 DEF Excused
    <3>2. CASE ~through
      BY <3>2, <1>1 DEF Excused, Told
    <3> QED BY <3>1, <3>2
  <2> QED BY <2>1, <2>2, <2>3, ListsStay
<1> QED
  BY <1>3, <1>4, <1>5, <1>7, <1>8, <1>9 DEF DestInv

\* The steps of the form, which end or begin a call or draw it anew.
LEMMA FormGoesOn ==
  ASSUME DestInv,
         UNCHANGED <<listed, secrets, accounts, born, list, listing, lists, opening, torn, savesCrossed,
                     listOvertaken, elsewhere>>,
         form' \in Forms, FormFits', ReadingsFit', form'.call # "done", form.call # "done"
  PROVE  DestInv'
<1>1. ListsFit'
  BY ListsStay, StoredStays
<1>2. Uploads!DestTypeOK'
  BY DestTypes, DestTypesHold
<1> QED
  BY <1>1, <1>2, StoredStays DEF DestInv

\* A list that is asked for.
LEMMA RefreshGoesOn ==
  ASSUME DestInv, NEW of \in {"pane", "form"}, Uploads!Refresh(of)
  PROVE  DestInv'
<1> USE DestSets
<1>t. /\ listed \in [DestIds -> Uploads!Row \cup {Nil}] /\ secrets \in [DestIds -> {0} \cup DestAccounts]
      /\ lists \in [1 .. MaxReads -> Readings \cup {Nil}] /\ form \in Forms
  BY DestTypes
<1>i. ReadingsFit /\ FormFits
  BY DEF DestInv
<1>1. /\ UNCHANGED <<listed, secrets, accounts, born, list, opening, torn, savesCrossed, listOvertaken, elsewhere>>
      /\ listing' = TRUE
      /\ IF of = "pane" THEN form.call = Nil /\ form' = Uploads!NoForm
         ELSE form.call = "done" /\ Uploads!Ended("reading")
  BY DEF Uploads!Refresh
<1>2. PICK r \in 1 .. MaxReads :
        /\ lists[r] = Nil /\ \A q \in 1 .. r - 1 : lists[q] # Nil
        /\ lists' = [lists EXCEPT ![r] = [of |-> of, is |-> Uploads!List]]
  BY DEF Uploads!Refresh
<1> DEFINE new == [of |-> of, is |-> Uploads!List]
<1>3. \A d \in DestIds : Uploads!List[d] = Told(d)
  BY DEF Uploads!List, Told, DestIds, Uploads!Ids
<1>4. Uploads!List \in [DestIds -> Uploads!Shown \cup {Nil}]
  <2>1. ASSUME NEW d \in DestIds PROVE Told(d) \in Uploads!Shown \cup {Nil}
    BY <1>t DEF Told, Uploads!Shown
  <2>2. Uploads!List = [d \in DestIds |-> Told(d)]
    BY DEF Uploads!List, Told, DestIds, Uploads!Ids
  <2> QED BY <2>1, <2>2
<1>5. new \in Readings /\ new # Nil /\ new.of = of /\ new.is = Uploads!List
  BY <1>4 DEF Readings
<1> HIDE DEF new
<1>6. /\ lists' \in [1 .. MaxReads -> Readings \cup {Nil}] /\ lists'[r] = new
      /\ \A q \in 1 .. MaxReads : q # r => lists'[q] = lists[q]
  BY <1>2, <1>5, <1>t DEF new
<1>7. /\ \A q \in 1 .. MaxReads : q < r => lists[q] # Nil
      /\ \A q \in 1 .. MaxReads : r < q => lists[q] = Nil
  <2>1. \A q \in 1 .. MaxReads : q < r => q \in 1 .. r - 1
    BY PlacesAssumption
  <2> QED BY <2>1, <1>2, <1>i DEF ReadingsFit
<1>8. /\ form' \in Forms /\ FormFits' /\ form'.call # "done"
      /\ of = "form" => form'.call = "reading"
      /\ of = "pane" => form.call # "reading"
      /\ form.call # "reading"
  <2>1. CASE of = "pane"
    BY <2>1, <1>1 DEF FormFits
  <2>2. CASE of = "form"
    BY <2>2, <1>1, <1>t, <1>i DEF FormFits, Uploads!Ended, Forms
  <2> QED BY <2>1, <2>2
<1>9. ReadingsFit'
  <2>1. \A q \in 1 .. MaxReads : q # r /\ lists'[q] # Nil => lists'[q].of # "form"
    BY <1>6, <1>8, <1>i DEF ReadingsFit
  <2>2. \A p, q \in 1 .. MaxReads : q < p /\ lists'[p] # Nil => lists'[q] # Nil
    BY <1>5, <1>6, <1>7, <1>i DEF ReadingsFit
  <2> QED BY <2>1, <2>2, <1>5, <1>6, <1>8 DEF ReadingsFit
<1>10. ListsFit'
  <2>1. \A d \in DestIds : Told(d)' = Told(d)
    BY StoredStays, <1>1
  <2>2. Tells(lists[r].is)'
    BY <2>1, <1>3, <1>5, <1>6 DEF Tells
  <2>3. \A q \in 1 .. MaxReads : lists'[q] # Nil /\ (\A p \in 1 .. MaxReads : q < p => lists'[p] = Nil) => q = r
    <3> SUFFICES ASSUME NEW q \in 1 .. MaxReads, lists'[q] # Nil, q # r,
                        \A p \in 1 .. MaxReads : q < p => lists'[p] = Nil
                 PROVE  FALSE
      OBVIOUS
    <3>1. q < r \/ r < q
      BY PlacesAssumption
    <3> QED BY <3>1, <1>5, <1>6, <1>7
  <2>4. ~(\A q \in 1 .. MaxReads : lists'[q] = Nil)
    BY <1>5, <1>6
  <2> QED BY <2>2, <2>3, <2>4 DEF ListsFit
<1>11. Uploads!DestTypeOK'
  BY <1>1, <1>6, <1>8, DestTypes, DestTypesHold
<1> QED
  BY <1>1, <1>8, <1>9, <1>10, <1>11, StoredStays DEF DestInv

\* A list that comes.
LEMMA AnswerGoesOn ==
  ASSUME DestInv, NEW r \in 1 .. MaxReads, Uploads!Answered(r)
  PROVE  DestInv'
<1> USE DestSets, PlacesAssumption
<1>t. /\ lists \in [1 .. MaxReads -> Readings \cup {Nil}] /\ form \in Forms /\ listOvertaken \in BOOLEAN
      /\ list \in [DestIds -> Uploads!Shown \cup {Nil}]
  BY DestTypes
<1>i. ReadingsFit /\ FormFits /\ ListsFit
  BY DEF DestInv
<1>1. /\ UNCHANGED <<listed, secrets, accounts, born, opening, torn, savesCrossed, elsewhere>>
      /\ lists[r] # Nil /\ list' = lists[r].is /\ listing' = FALSE
      /\ listOvertaken' = (listOvertaken \/ r > 1)
      /\ lists' = Uploads!Without(r)
      /\ form' = IF lists[r].of = "form" THEN Uploads!NoForm ELSE Uploads!Redrawn(lists[r].is)
  BY DEF Uploads!Answered
<1>2. /\ lists[r] \in Readings /\ list' \in [DestIds -> Uploads!Shown \cup {Nil}]
      /\ listOvertaken' \in BOOLEAN
  BY <1>1, <1>t
<1>3. \A q \in 1 .. MaxReads :
        lists'[q] = IF q < r THEN lists[q] ELSE IF q = MaxReads THEN Nil ELSE lists[q + 1]
  BY <1>1 DEF Uploads!Without
<1>4. \A q \in 1 .. MaxReads : q # MaxReads => q + 1 \in 1 .. MaxReads
  OBVIOUS
<1>5. lists' \in [1 .. MaxReads -> Readings \cup {Nil}]
  <2>1. \A q \in 1 .. MaxReads : lists'[q] \in Readings \cup {Nil}
    BY <1>3, <1>4, <1>t
  <2>2. lists' = [q \in 1 .. MaxReads |-> lists'[q]]
    BY <1>1 DEF Uploads!Without
  <2> QED BY <2>1, <2>2
\* Each reading that is left was there, and they are in the same order.
<1>6. \A q \in 1 .. MaxReads : lists'[q] # Nil =>
        \E p \in 1 .. MaxReads : p # r /\ lists'[q] = lists[p] /\ p = (IF q < r THEN q ELSE q + 1)
  BY <1>3, <1>4
<1>7. /\ form' \in Forms /\ FormFits' /\ (form'.call = "done" => form.call = "done")
      /\ (lists[r].of # "form" => form'.call = form.call)
  <2>1. CASE lists[r].of = "form"
    BY <2>1, <1>1 DEF FormFits
  <2>2. CASE lists[r].of # "form"
    <3>1. form' = Uploads!Redrawn(lists[r].is)
      BY <2>2, <1>1
    <3>2. CASE form' = form
      BY <3>2, <1>t, <1>i DEF FormFits
    <3>3. CASE form' # form
      <4>1. /\ form.id \in DestIds /\ lists[r].is[form.id] # Nil
            /\ form' = [form EXCEPT !.account = lists[r].is[form.id].row.account]
        BY <3>1, <3>3 DEF Uploads!Redrawn, DestIds, Uploads!Ids
      <4>2. lists[r].is[form.id] \in Uploads!Shown
        BY <4>1, <1>2
      <4>3. lists[r].is[form.id].row.account \in DestAccounts
        BY <4>2
      <4> QED BY <4>1, <4>3, <1>t, <1>i DEF FormFits, Forms
    <3> QED BY <3>2, <3>3
  <2> QED BY <2>1, <2>2
<1>8. ReadingsFit'
  <2>1. \A p, q \in 1 .. MaxReads : q < p /\ lists'[p] # Nil => lists'[q] # Nil
    <3> SUFFICES ASSUME NEW p \in 1 .. MaxReads, NEW q \in 1 .. MaxReads, q < p, lists'[p] # Nil
                 PROVE  lists'[q] # Nil
      OBVIOUS
    <3>1. PICK a \in 1 .. MaxReads : lists'[p] = lists[a] /\ a = (IF p < r THEN p ELSE p + 1)
      BY <1>6
    <3>2. q # MaxReads /\ q + 1 \in 1 .. MaxReads
      BY <1>4
    <3>3. lists'[q] = IF q < r THEN lists[q] ELSE lists[q + 1]
      BY <1>3, <3>2
    <3>4. CASE q < r
      BY <3>1, <3>3, <3>4, <1>i DEF ReadingsFit
    <3>5. CASE ~(q < r)
      <4>1. q + 1 < a
        BY <3>1, <3>5
      <4> QED BY <4>1, <3>1, <3>2, <3>3, <3>5, <1>i DEF ReadingsFit
    <3> QED BY <3>4, <3>5
  <2>2. \A q \in 1 .. MaxReads : lists'[q] # Nil /\ lists'[q].of = "form" => form'.call = "reading"
    <3> SUFFICES ASSUME NEW q \in 1 .. MaxReads, lists'[q] # Nil, lists'[q].of = "form"
                 PROVE  form'.call = "reading"
      OBVIOUS
    <3>1. PICK a \in 1 .. MaxReads : a # r /\ lists'[q] = lists[a]
      BY <1>6
    <3>2. form.call = "reading" /\ lists[r].of # "form"
      BY <3>1, <1>1, <1>i DEF ReadingsFit
    <3> QED BY <3>2, <1>7
  <2>3. \A p, q \in 1 .. MaxReads :
          lists'[p] # Nil /\ lists'[q] # Nil /\ lists'[p].of = "form" /\ lists'[q].of = "form" => p = q
    <3> SUFFICES ASSUME NEW p \in 1 .. MaxReads, NEW q \in 1 .. MaxReads,
                        lists'[p] # Nil, lists'[q] # Nil, lists'[p].of = "form", lists'[q].of = "form"
                 PROVE  p = q
      OBVIOUS
    <3>1. PICK a \in 1 .. MaxReads : lists'[p] = lists[a] /\ a = (IF p < r THEN p ELSE p + 1)
      BY <1>6
    <3>2. PICK b \in 1 .. MaxReads : lists'[q] = lists[b] /\ b = (IF q < r THEN q ELSE q + 1)
      BY <1>6
    <3>3. a = b
      BY <3>1, <3>2, <1>i DEF ReadingsFit
    <3> QED BY <3>1, <3>2, <3>3
  <2> QED BY <2>1, <2>2, <2>3 DEF ReadingsFit
<1>9. ListsFit'
  <2> SUFFICES ASSUME ~listOvertaken', form'.call # "done"
               PROVE  /\ (\A q \in 1 .. MaxReads : lists'[q] = Nil) => Tells(list)'
                      /\ \A q \in 1 .. MaxReads :
                           lists'[q] # Nil /\ (\A p \in 1 .. MaxReads : q < p => lists'[p] = Nil) => Tells(lists[q].is)'
    BY DEF ListsFit
  <2>1. r = 1 /\ ~listOvertaken
    <3>1. ~(listOvertaken \/ r > 1)
      BY <1>1, Zenon
    <3> QED BY <3>1
  <2>2. form.call # "done"
    BY <1>1, <1>7, <1>i DEF ReadingsFit
  <2>3. \A d \in DestIds : Told(d)' = Told(d) /\ (Excused(d)' <=> Excused(d))
    BY <1>1, StoredStays
  <2>4. ASSUME \A q \in 1 .. MaxReads : lists'[q] = Nil PROVE Tells(list)'
    <3>1. \A q \in 1 .. MaxReads : r < q => lists[q] = Nil
      <4> SUFFICES ASSUME NEW q \in 1 .. MaxReads, r < q PROVE lists[q] = Nil
        OBVIOUS
      <4>1. q - 1 \in 1 .. MaxReads /\ q - 1 # MaxReads /\ (q - 1) + 1 = q /\ ~(q - 1 < r)
        BY <2>1
      <4>2. lists'[q - 1] = lists[q]
        BY <4>1, <1>3
      <4> QED BY <4>1, <4>2, <2>4
    <3>2. Tells(lists[r].is)
      BY <3>1, <2>1, <2>2, <1>1, <1>i DEF ListsFit
    <3> QED BY <3>2, <2>3, <1>1 DEF Tells
  <2>5. ASSUME NEW q \in 1 .. MaxReads, lists'[q] # Nil, \A p \in 1 .. MaxReads : q < p => lists'[p] = Nil
        PROVE  Tells(lists[q].is)'
    <3>1. q # MaxReads /\ lists'[q] = lists[q + 1] /\ q + 1 \in 1 .. MaxReads
      BY <2>1, <2>5, <1>3, <1>4
    <3>2. \A p \in 1 .. MaxReads : q + 1 < p => lists[p] = Nil
      <4> SUFFICES ASSUME NEW p \in 1 .. MaxReads, q + 1 < p PROVE lists[p] = Nil
        OBVIOUS
      <4>1. p - 1 \in 1 .. MaxReads /\ p - 1 # MaxReads /\ (p - 1) + 1 = p /\ ~(p - 1 < r) /\ q < p - 1
        BY <2>1
      <4>2. lists'[p - 1] = lists[p]
        BY <4>1, <1>3
      <4> QED BY <4>1, <4>2, <2>5
    <3>3. Tells(lists[q + 1].is)
      BY <3>1, <3>2, <2>1, <2>2, <2>5, <1>i DEF ListsFit
    <3> QED BY <3>1, <3>3, <2>3 DEF Tells
  <2> QED BY <2>4, <2>5
<1>10. Uploads!DestTypeOK'
  BY <1>1, <1>2, <1>5, <1>7, DestTypes, DestTypesHold
<1> QED
  BY <1>1, <1>7, <1>8, <1>9, <1>10, StoredStays DEF DestInv

\* A bucket that is opened with its secret.
LEMMA OpenGoesOn ==
  ASSUME DestInv,
         Uploads!OpenDestination \/ Uploads!CloseClient \/ \E name \in GraphBuckets : Uploads!Lookup(name)
  PROVE  DestInv'
<1> USE DestSets
<1>t. /\ listed \in [DestIds -> Uploads!Row \cup {Nil}] /\ secrets \in [DestIds -> {0} \cup DestAccounts]
      /\ opening \in Openings
  BY DestTypes
<1>i. OpeningFits /\ SecretsFit /\ FormFits /\ ReadingsFit /\ ListsFit
  BY DEF DestInv
<1>1. UNCHANGED <<listed, secrets, accounts, born, list, listing, lists, form, torn, savesCrossed, listOvertaken,
                  elsewhere>>
  BY DEF Uploads!OpenDestination, Uploads!CloseClient, Uploads!Lookup
<1>2. opening' \in Openings /\ OpeningFits' /\ Uploads!SignsWithItsOwn'
  <2>0. opening' = Uploads!NoClient => opening' \in Openings /\ OpeningFits' /\ Uploads!SignsWithItsOwn'
    BY DEF OpeningFits, Uploads!SignsWithItsOwn
  <2>1. CASE Uploads!OpenDestination
    <3>1. opening.id \in DestIds /\ opening.at = "found"
      BY <2>1, <1>i DEF Uploads!OpenDestination, OpeningFits
    <3>2. CASE secrets[opening.id] = 0
      BY <2>0, <2>1, <3>2 DEF Uploads!OpenDestination
    <3>3. CASE secrets[opening.id] # 0
      <4>1. opening' = [opening EXCEPT !.at = "open", !.secret = secrets[opening.id]]
        BY <2>1, <3>3 DEF Uploads!OpenDestination
      <4>2. /\ opening' \in Openings /\ opening'.at = "open" /\ opening'.secret = secrets[opening.id]
            /\ opening'.id = opening.id /\ opening'.account = opening.account
        BY <4>1, <3>1, <1>t DEF Openings
      <4> QED BY <4>2, <3>1, <3>3, <1>1, <1>i DEF OpeningFits, Crossed, Uploads!SignsWithItsOwn
    <3> QED BY <3>2, <3>3
  <2>2. CASE Uploads!CloseClient
    BY <2>0, <2>2 DEF Uploads!CloseClient
  <2>3. ASSUME NEW name \in GraphBuckets, Uploads!Lookup(name)
        PROVE  opening' \in Openings /\ OpeningFits' /\ Uploads!SignsWithItsOwn'
    <3>1. PICK d \in DestIds : /\ listed[d] # Nil
                               /\ opening' = [Uploads!NoClient EXCEPT !.at = "found", !.id = d, !.account = listed[d].account]
      BY <2>3 DEF Uploads!Lookup, DestIds, Uploads!Ids
    <3>2. listed[d] \in Uploads!Row /\ listed[d].account \in DestAccounts
      BY <3>1, <1>t
    <3>3. opening' \in Openings /\ opening'.at = "found" /\ opening'.id = d /\ opening'.account = listed[d].account
      BY <3>1, <3>2 DEF Uploads!NoClient, Openings
    <3> QED BY <3>1, <3>3, <1>1, <1>i DEF OpeningFits, SecretsFit, Crossed, Uploads!SignsWithItsOwn
  <2> QED BY <2>1, <2>2, <2>3
<1>3. FormFits' /\ ReadingsFit' /\ ListsFit'
  BY <1>1, <1>i, ListsStay, StoredStays DEF FormFits, ReadingsFit
<1>4. Uploads!DestTypeOK'
  BY <1>1, <1>2, DestTypes, DestTypesHold
<1> QED
  BY <1>1, <1>2, <1>3, <1>4, StoredStays DEF DestInv

\* Every step of the destinations keeps it so.
LEMMA DestGoesOn == DestInv /\ [Uploads!DestNext]_placesVars => DestInv'
<1> SUFFICES ASSUME DestInv, [Uploads!DestNext]_placesVars PROVE DestInv'
  OBVIOUS
<1> USE DestSets
<1>t. form \in Forms /\ list \in [DestIds -> Uploads!Shown \cup {Nil}] /\ elsewhere \subseteq DestIds
  BY DestTypes
<1>i. FormFits /\ ReadingsFit
  BY DEF DestInv
<1>1. CASE Uploads!DeleteDestination
  <2>1. PICK through \in BOOLEAN : Uploads!Delete(form.id, through) /\ Uploads!Ended(IF through THEN "done" ELSE Nil)
    BY <1>1 DEF Uploads!DeleteDestination
  <2>2. form.call = "remove" /\ form.id \in DestIds
        /\ UNCHANGED <<accounts, born, list, listing, lists, opening, savesCrossed, listOvertaken, elsewhere>>
    BY <1>1, <1>i DEF Uploads!DeleteDestination, FormFits
  <2>3. form' \in Forms /\ form'.id = form.id /\ form'.account = form.account /\ form'.call = (IF through THEN "done" ELSE Nil)
    BY <2>1, <1>t DEF Uploads!Ended, Forms
  <2>4. FormFits' /\ ReadingsFit'
    BY <2>2, <2>3, <1>i DEF FormFits, ReadingsFit
  <2> QED BY <2>1, <2>2, <2>3, <2>4, <1>t, DeleteGoesOn
<1>2. ASSUME NEW d \in DestIds, Uploads!PhoneDeletes(d) PROVE DestInv'
  <2>1. /\ Uploads!Delete(d, TRUE) /\ elsewhere' = elsewhere \cup {d}
        /\ UNCHANGED <<accounts, born, list, listing, lists, form, opening, savesCrossed, listOvertaken>>
    BY <1>2 DEF Uploads!PhoneDeletes
  <2>2. FormFits' /\ ReadingsFit'
    BY <2>1, <1>i DEF FormFits, ReadingsFit
  <2> QED BY <2>1, <2>2, <1>t, DeleteGoesOn
<1>3. CASE \/ Uploads!SaveRefused \/ Uploads!AddForm \/ Uploads!CloseForm \/ Uploads!Submit
           \/ \E d \in DestIds : Uploads!EditForm(d)
  <2>1. UNCHANGED <<listed, secrets, accounts, born, list, listing, lists, opening, torn, savesCrossed,
                    listOvertaken, elsewhere>>
    BY <1>3 DEF Uploads!SaveRefused, Uploads!AddForm, Uploads!CloseForm, Uploads!Submit, Uploads!EditForm, Uploads!OpenForm
  <2>2. form' \in Forms /\ FormFits' /\ form'.call # "done" /\ form.call \in {"save", Nil}
    <3>1. CASE Uploads!SaveRefused
      BY <3>1, <1>t, <1>i DEF Uploads!SaveRefused, Uploads!Ended, Forms, FormFits
    <3>2. CASE Uploads!AddForm
      BY <3>2 DEF Uploads!AddForm, Uploads!OpenForm, Uploads!NoForm, Uploads!New, Forms, FormFits
    <3>3. CASE Uploads!CloseForm
      BY <3>3 DEF Uploads!CloseForm, Uploads!OpenForm, FormFits
    <3>4. CASE Uploads!Submit
      <4>1. form.call = Nil /\ form.id \in DestIds \cup {0}
        BY <3>4 DEF Uploads!Submit, Uploads!Drawn, DestIds, Uploads!Ids, Uploads!New
      <4>2. \/ form' = [form EXCEPT !.call = "save"]
            \/ form' = [form EXCEPT !.call = "remove"] /\ form.id # 0
        BY <3>4 DEF Uploads!Submit, Uploads!Ended, Uploads!New
      <4> QED BY <4>1, <4>2, <1>t, <1>i DEF Forms, FormFits
    <3>5. ASSUME NEW d \in DestIds, Uploads!EditForm(d)
          PROVE  form' \in Forms /\ FormFits' /\ form'.call # "done" /\ form.call \in {"save", Nil}
      <4>1. form.call = Nil /\ list[d] # Nil /\ form' = [id |-> d, account |-> list[d].row.account, call |-> Nil]
        BY <3>5 DEF Uploads!EditForm, Uploads!OpenForm
      <4>2. list[d] \in Uploads!Shown /\ list[d].row.account \in DestAccounts
        BY <4>1, <1>t
      <4> QED BY <4>1, <4>2 DEF Forms, FormFits
    <3> QED BY <3>1, <3>2, <3>3, <3>4, <3>5, <1>3
  <2>3. ReadingsFit'
    BY <2>1, <2>2, <1>i DEF ReadingsFit
  <2> QED BY <2>1, <2>2, <2>3, FormGoesOn
<1>4. CASE UNCHANGED placesVars
  <2>1. UNCHANGED <<listed, secrets, accounts, born, list, listing, lists, form, opening, torn, savesCrossed,
                    listOvertaken, elsewhere>>
    BY <1>4 DEF placesVars
  <2>2. FormFits' /\ ReadingsFit' /\ Uploads!DestTypeOK'
    BY <2>1, <1>i, DestTypes, DestTypesHold DEF FormFits, ReadingsFit
  <2>3. ListsFit'
    BY <2>1, ListsStay, StoredStays
  <2> QED BY <2>1, <2>2, <2>3, StoredStays DEF DestInv
<1> QED
  BY <1>1, <1>2, <1>3, <1>4, SaveGoesOn, RefreshGoesOn, AnswerGoesOn, OpenGoesOn
  DEF Uploads!DestNext, DestIds, Uploads!Ids

-----------------------------------------------------------------------------
(***************************************************************************)
(* The connectors' clients, sign-ins, grants and tokens.                   *)
(***************************************************************************)
SignIns == 1 .. MaxSignIns
Tokens == 1 .. MaxTokens
Moments == 0 .. MaxGrantTime
Clients == ClientIds \cup {0}
URIs == {"claude", "loop1", "loop2", "elsewhere"}
Scopes == {"read", "operate"}
ResourceSet == {"tunnel", "loopback"}
ClientRows == [lists : URIs, created : Moments, used : Moments]
SignInRows == [at : {"page", "code", "spent"}, client : Clients, redirect : URIs, lists : URIs,
               asked : SUBSET Scopes, granted : SUBSET Scopes, resource : ResourceSet]
GrantRows == [client : Clients, redirect : URIs, scopes : SUBSET Scopes, resource : ResourceSet,
              token : Tokens, prev : {0} \cup Tokens, expires : Nat, created : Moments, used : Moments]
HandRows == [of : SignIns, client : Clients, verifier : SignIns, at : Moments]

\* Clients as a list of them is kept, in memory and on disk: t is when each was told
\* of its id, n the time.
ClientsFit(cl, t, n) ==
  /\ cl \in [ClientIds -> ClientRows \cup {Nil}]
  /\ \A i \in ClientIds : cl[i] # Nil => t[i] # Nil /\ cl[i].created = t[i]
  /\ \A i \in ClientIds : t[i] # Nil /\ n < t[i] + UNUSED => cl[i] # Nil
  /\ Cardinality({i \in ClientIds : cl[i] # Nil}) <= MAX_CLIENTS

\* A request that was made: its page, its code or what they came to.
Normalised(scopes) == "operate" \in scopes => "read" \in scopes
SignInFits(r) ==
  r # Nil =>
    /\ r \in SignInRows /\ Connectors!ValidRedirect(r.redirect) /\ Connectors!Registered(r.lists, r.redirect)
    /\ Normalised(r.asked) /\ Normalised(r.granted) /\ r.granted \subseteq r.asked

\* The tokens of a sign-in, and whether they are past their time.
Hands(h, x, s) == h[x] # Nil /\ h[x].of = s
Dead(s, h, n) ==
  \/ \E x \in Tokens : Hands(h, x, s) /\ h[x].at + LIFETIME <= n
  \/ \A x \in Tokens : Hands(h, x, s) => h[x].at + ACCESS <= n
HandFits(x, h, si, m, n) ==
  h[x] # Nil =>
    /\ h[x] \in HandRows /\ x <= m /\ h[x].at <= n
    /\ si[h[x].of] # Nil /\ si[h[x].of].at = "spent"
    /\ h[x].client = si[h[x].of].client /\ h[x].verifier = h[x].of

\* The grant g of the sign-in s, in memory or on disk: what was consented to, and,
\* unless its last change was not written, the last token that was handed out.
GrantFits(s, g, h, si, m, n, e, d) ==
  /\ g # Nil =>
       /\ g \in GrantRows /\ g.token <= m /\ g.created <= n /\ g.used <= n
       /\ si[s] # Nil /\ si[s].at = "spent"
       /\ g.client = si[s].client /\ g.redirect = si[s].redirect
       /\ g.resource = si[s].resource /\ g.scopes = si[s].granted
       /\ h[g.token] # Nil => h[g.token].of = s
       /\ s \notin d =>
            /\ s \notin e /\ h[g.token] # Nil /\ g.expires = h[g.token].at + ACCESS
            /\ \A x \in Tokens : Hands(h, x, s) => x <= g.token /\ h[x].at <= Connectors!Later(g.used, g.created)
            /\ \E x \in Tokens : Hands(h, x, s) /\ h[x].at = g.created
  /\ g = Nil /\ s \notin e /\ s \notin d /\ (\E x \in Tokens : Hands(h, x, s)) => Dead(s, h, n)

ClientsHold == ClientsFit(clients, clientsTold, grantTime) /\ ClientsFit(remoteFile.clients, clientsTold, grantTime)
SignInsHold == \A s \in SignIns : SignInFits(signIns[s])
HandsHold == \A x \in Tokens : HandFits(x, handed, signIns, minted, grantTime)
EndsHold == \A s \in grantsEnded \cup doubt : signIns[s] # Nil /\ signIns[s].at = "spent"
GrantsHold ==
  \A s \in SignIns : GrantFits(s, grants[s], handed, signIns, minted, grantTime, grantsEnded, doubt)
SavedHold ==
  \A s \in SignIns : GrantFits(s, remoteFile.grants[s], handed, signIns, minted, grantTime, grantsEnded, doubt)
GrantsAreFew ==
  /\ Cardinality({s \in SignIns : grants[s] # Nil}) <= MAX_GRANTS
  /\ Cardinality({s \in SignIns : remoteFile.grants[s] # Nil}) <= MAX_GRANTS

GrantShape ==
  /\ grants \in [SignIns -> GrantRows \cup {Nil}] /\ remoteFile.grants \in [SignIns -> GrantRows \cup {Nil}]
  /\ signIns \in [SignIns -> SignInRows \cup {Nil}] /\ handed \in [Tokens -> HandRows \cup {Nil}]
  /\ clientsTold \in [ClientIds -> {Nil} \cup Moments]
  /\ document \in URIs /\ cached \in URIs \cup {Nil} /\ grantTime \in Moments /\ minted \in 0 .. MaxTokens
  /\ grantsEnded \subseteq SignIns /\ doubt \subseteq SignIns

OAuthInv ==
  /\ GrantShape /\ ClientsHold /\ SignInsHold /\ HandsHold /\ EndsHold /\ GrantsHold /\ SavedHold /\ GrantsAreFew

\* The instance counts as this module does.
LEMMA SameCount ==
  ASSUME NEW S
  PROVE  Connectors!Cardinality(S) = Cardinality(S)
BY DEF Connectors!Cardinality, Cardinality

\* What the sets hold, and that Nil is in none.
LEMMA GrantSets ==
  /\ Connectors!SignIns = SignIns /\ Connectors!Tokens = Tokens /\ Connectors!Clients = Clients
  /\ Connectors!URIs = URIs /\ Connectors!Resources = ResourceSet /\ Connectors!Url = 0
  /\ SignIns \subseteq Nat /\ Tokens \subseteq Nat \ {0} /\ Moments \subseteq Nat /\ Clients \subseteq Nat
  /\ IsFiniteSet(SignIns) /\ IsFiniteSet(ClientIds) /\ ClientIds \subseteq Clients
  /\ Nil \notin Nat /\ Nil \notin ClientRows /\ Nil \notin SignInRows /\ Nil \notin GrantRows /\ Nil \notin HandRows
  /\ MAX_CLIENTS \in Nat /\ MAX_GRANTS \in Nat /\ LIFETIME \in Nat /\ ACCESS \in Nat /\ UNUSED \in Nat
  /\ ACCESS <= UNUSED /\ MaxSignIns \in Nat /\ MaxTokens \in Nat /\ MaxGrantTime \in Nat
<1>1. /\ Connectors!SignIns = SignIns /\ Connectors!Tokens = Tokens /\ Connectors!Clients = Clients
      /\ Connectors!URIs = URIs /\ Connectors!Resources = ResourceSet /\ Connectors!Url = 0
  BY DEF Connectors!SignIns, SignIns, Connectors!Tokens, Tokens, Connectors!Clients, Clients, Connectors!URIs, URIs,
     Connectors!Resources, ResourceSet, Connectors!Url
<1>2. /\ SignIns \subseteq Nat /\ Tokens \subseteq Nat \ {0} /\ Moments \subseteq Nat /\ Clients \subseteq Nat
      /\ ClientIds \subseteq Clients
  BY GrantsAssumption DEF SignIns, Tokens, Moments, Clients
<1>3. IsFiniteSet(SignIns) /\ IsFiniteSet(ClientIds)
  BY GrantsAssumption, FS_Interval DEF SignIns
<1>4. Nil \notin ClientRows
  BY <1>1, <1>2, GrantsAssumption DEF ClientRows
<1>5. Nil \notin SignInRows
  <2>1. SignInRows \subseteq [at : {"page", "code", "spent"}, client : Nat, redirect : URIs, lists : URIs,
                              asked : SUBSET Scopes, granted : SUBSET Scopes, resource : ResourceSet]
    BY <1>2 DEF SignInRows
  <2> QED BY <2>1, <1>1, GrantsAssumption DEF Scopes
<1>6. Nil \notin GrantRows
  <2>0. {0} \cup Tokens \subseteq Nat
    BY <1>2
  <2>1. GrantRows \subseteq [client : Nat, redirect : URIs, scopes : SUBSET Scopes, resource : ResourceSet,
                             token : Nat, prev : Nat, expires : Nat, created : Nat, used : Nat]
    BY <1>2, <2>0 DEF GrantRows
  <2> QED BY <2>1, <1>1, GrantsAssumption DEF Scopes
<1>7. Nil \notin HandRows
  <2>1. HandRows \subseteq [of : Nat, client : Nat, verifier : Nat, at : Nat]
    BY <1>2 DEF HandRows
  <2> QED BY <2>1, GrantsAssumption
<1> QED
  BY <1>1, <1>2, <1>3, <1>4, <1>5, <1>6, <1>7, GrantsAssumption

\* The later of two is not before either.
LEMMA LaterIsLater ==
  ASSUME NEW a \in Nat, NEW b \in Nat
  PROVE  Connectors!Later(a, b) \in Nat /\ a <= Connectors!Later(a, b) /\ b <= Connectors!Later(a, b)
         /\ (Connectors!Later(a, b) = a \/ Connectors!Later(a, b) = b)
BY DEF Connectors!Later

\* What does not concern a grant leaves it as it is; so does time.
LEMMA GrantStays ==
  ASSUME NEW s \in SignIns, NEW g,
         NEW h \in [Tokens -> HandRows \cup {Nil}], NEW h2 \in [Tokens -> HandRows \cup {Nil}],
         NEW si, NEW si2, NEW m \in Nat, NEW m2 \in Nat, NEW n \in Nat, NEW n2 \in Nat,
         NEW e, NEW e2, NEW d, NEW d2,
         GrantFits(s, g, h, si, m, n, e, d), m <= m2, n <= n2,
         s \in e2 <=> s \in e, s \in d2 <=> s \in d,
         g # Nil => /\ si2[s] # Nil /\ si2[s].at = si[s].at /\ si2[s].client = si[s].client
                    /\ si2[s].redirect = si[s].redirect /\ si2[s].resource = si[s].resource
                    /\ si2[s].granted = si[s].granted,
         \A x \in Tokens : h[x] # Nil => h2[x] = h[x],
         \A x \in Tokens : h2[x] = h[x] \/ (x = m + 1 /\ h2[x] # Nil /\ h2[x].of # s)
  PROVE  GrantFits(s, g, h2, si2, m2, n2, e2, d2)
<1> USE GrantSets
<1>1. \A x \in Tokens : Hands(h2, x, s) <=> Hands(h, x, s)
  BY DEF Hands
<1>2. \A x \in Tokens : Hands(h, x, s) => h2[x] = h[x] /\ h[x] \in HandRows /\ h[x].at \in Nat
  BY DEF Hands, HandRows
<1>3. ASSUME g # Nil
      PROVE  /\ g \in GrantRows /\ g.token <= m2 /\ g.created <= n2 /\ g.used <= n2
             /\ si2[s] # Nil /\ si2[s].at = "spent"
             /\ g.client = si2[s].client /\ g.redirect = si2[s].redirect
             /\ g.resource = si2[s].resource /\ g.scopes = si2[s].granted
             /\ h2[g.token] # Nil => h2[g.token].of = s
             /\ s \notin d2 =>
                  /\ s \notin e2 /\ h2[g.token] # Nil /\ g.expires = h2[g.token].at + ACCESS
                  /\ \A x \in Tokens : Hands(h2, x, s) =>
                       x <= g.token /\ h2[x].at <= Connectors!Later(g.used, g.created)
                  /\ \E x \in Tokens : Hands(h2, x, s) /\ h2[x].at = g.created
  <2>1. g \in GrantRows /\ g.token \in Tokens /\ g.token \in Nat /\ g.created \in Nat /\ g.used \in Nat /\ g.token <= m
        /\ g.created <= n /\ g.used <= n
    BY <1>3 DEF GrantFits, GrantRows
  <2>2. h2[g.token] = h[g.token]
    BY <2>1
  <2>3. /\ g.token <= m2 /\ g.created <= n2 /\ g.used <= n2
    BY <2>1
  <2>4. s \notin d2 => /\ s \notin e2 /\ h2[g.token] # Nil /\ g.expires = h2[g.token].at + ACCESS
                       /\ \A x \in Tokens : Hands(h2, x, s) =>
                            x <= g.token /\ h2[x].at <= Connectors!Later(g.used, g.created)
                       /\ \E x \in Tokens : Hands(h2, x, s) /\ h2[x].at = g.created
    BY <1>1, <1>2, <1>3, <2>2 DEF GrantFits
  <2> QED BY <1>3, <2>1, <2>2, <2>3, <2>4 DEF GrantFits
<1>4. ASSUME g = Nil, s \notin e2, s \notin d2, NEW y \in Tokens, Hands(h2, y, s)
      PROVE  Dead(s, h2, n2)
  <2>1. Dead(s, h, n)
    BY <1>1, <1>4 DEF GrantFits
  <2>2. ASSUME NEW x \in Tokens, Hands(h, x, s)
        PROVE  /\ Hands(h2, x, s)
               /\ h[x].at + LIFETIME <= n => h2[x].at + LIFETIME <= n2
               /\ h[x].at + ACCESS <= n => h2[x].at + ACCESS <= n2
    <3>1. h2[x] = h[x] /\ h[x].at \in Nat /\ Hands(h2, x, s)
      BY <2>2, <1>1, <1>2
    <3>2. \A k, l \in Nat : k + l <= n => k + l <= n2
      OBVIOUS
    <3> QED BY <3>1, <3>2
  <2> QED BY <2>1, <2>2, <1>1 DEF Dead
<1> QED
  BY <1>3, <1>4 DEF GrantFits

\* A grant that has had its time is none: its tokens had theirs.
LEMMA GrantLapses ==
  ASSUME NEW s \in SignIns, NEW g, NEW h \in [Tokens -> HandRows \cup {Nil}], NEW si, NEW m \in Nat, NEW n \in Nat,
         NEW e, NEW d, GrantFits(s, g, h, si, m, n, e, d),
         g # Nil => ~(n < g.created + LIFETIME /\ n < Connectors!Later(g.used, g.created) + UNUSED)
  PROVE  GrantFits(s, Nil, h, si, m, n, e, d)
<1> USE GrantSets
<1> SUFFICES ASSUME s \notin e, s \notin d, \E x \in Tokens : Hands(h, x, s) PROVE Dead(s, h, n)
  BY DEF GrantFits
<1>1. CASE g = Nil
  BY <1>1 DEF GrantFits
<1>2. CASE g # Nil
  <2>1. g.created \in Nat /\ g.used \in Nat
    BY <1>2 DEF GrantFits, GrantRows
  <2>2. \A x \in Tokens : Hands(h, x, s) => h[x].at \in Nat
    BY DEF Hands, HandRows
  <2>3. Connectors!Later(g.used, g.created) \in Nat
    BY <2>1, LaterIsLater
  <2>4. CASE g.created + LIFETIME <= n
    BY <1>2, <2>4 DEF GrantFits, Dead
  <2>5. CASE Connectors!Later(g.used, g.created) + UNUSED <= n
    <3>1. \A x \in Tokens : Hands(h, x, s) => h[x].at <= Connectors!Later(g.used, g.created)
      BY <1>2 DEF GrantFits
    <3>2. ASSUME NEW x \in Tokens, Hands(h, x, s) PROVE h[x].at + ACCESS <= n
      <4>1. h[x].at \in Nat /\ h[x].at <= Connectors!Later(g.used, g.created)
        BY <3>1, <3>2, <2>2
      <4> QED BY <4>1, <2>3, <2>5
    <3> QED BY <3>2 DEF Dead
  <2> QED BY <1>2, <2>1, <2>3, <2>4, <2>5
<1> QED BY <1>1, <1>2

\* A grant that is used is the same grant.
LEMMA GrantIsUsed ==
  ASSUME NEW s \in SignIns, NEW g \in GrantRows, NEW h \in [Tokens -> HandRows \cup {Nil}], NEW si,
         NEW m \in Nat, NEW n \in Moments, NEW e, NEW d, GrantFits(s, g, h, si, m, n, e, d)
  PROVE  [g EXCEPT !.used = n] \in GrantRows /\ GrantFits(s, [g EXCEPT !.used = n], h, si, m, n, e, d)
<1> USE GrantSets
<1> DEFINE f == [g EXCEPT !.used = n]
<1>1. /\ f \in GrantRows /\ f # Nil /\ g # Nil /\ f.used = n /\ f.client = g.client /\ f.redirect = g.redirect
      /\ f.scopes = g.scopes /\ f.resource = g.resource /\ f.token = g.token /\ f.expires = g.expires
      /\ f.created = g.created /\ g.created \in Nat /\ g.used \in Nat /\ n \in Nat
  BY DEF GrantRows
<1> HIDE DEF f
<1>2. g.used <= n /\ Connectors!Later(g.used, g.created) <= Connectors!Later(n, g.created)
  BY <1>1 DEF GrantFits, Connectors!Later
<1>3. \A x \in Tokens : Hands(h, x, s) => h[x].at \in Nat
  BY DEF Hands, HandRows
<1>4. Connectors!Later(g.used, g.created) \in Nat /\ Connectors!Later(n, g.created) \in Nat
  BY <1>1, LaterIsLater
<1>5. ASSUME s \notin d, NEW x \in Tokens, Hands(h, x, s)
      PROVE  x <= g.token /\ h[x].at <= Connectors!Later(n, g.created)
  <2>1. x <= g.token /\ h[x].at <= Connectors!Later(g.used, g.created)
    BY <1>1, <1>5 DEF GrantFits
  <2> QED BY <2>1, <1>2, <1>3, <1>4, <1>5
<1>6. GrantFits(s, f, h, si, m, n, e, d)
  BY <1>1, <1>5 DEF GrantFits
<1> QED
  BY <1>1, <1>6 DEF f

\* The grant that a code or the last refresh token is traded for, with the token that
\* is handed out with it.
LEMMA GrantIsHanded ==
  ASSUME NEW s \in SignIns, NEW g \in GrantRows, NEW h \in [Tokens -> HandRows \cup {Nil}],
         NEW h2 \in [Tokens -> HandRows \cup {Nil}], NEW si, NEW m \in Nat, NEW n \in Moments, NEW e, NEW d,
         g.token = m + 1, g.expires = n + ACCESS, g.created <= n, g.used <= n,
         Connectors!Later(g.used, g.created) = n,
         si[s] # Nil, si[s].at = "spent", g.client = si[s].client, g.redirect = si[s].redirect,
         g.resource = si[s].resource, g.scopes = si[s].granted, s \notin d => s \notin e,
         \A x \in Tokens : h[x] # Nil => x <= m /\ h[x].at <= n,
         \A x \in Tokens : x # m + 1 => h2[x] = h[x],
         h2[m + 1] # Nil, h2[m + 1].of = s, h2[m + 1].at = n,
         s \notin d => g.created = n \/ \E x \in Tokens : Hands(h, x, s) /\ h[x].at = g.created
  PROVE  GrantFits(s, g, h2, si, m + 1, n, e, d)
<1> USE GrantSets
<1>1. g # Nil /\ g.token \in Tokens /\ m + 1 \in Tokens /\ n \in Nat
  BY DEF GrantRows
<1>2. \A x \in Tokens : Hands(h2, x, s) => x = m + 1 \/ (Hands(h, x, s) /\ h2[x] = h[x])
  BY DEF Hands
<1>3. \A x \in Tokens : Hands(h2, x, s) => x <= m + 1 /\ h2[x].at <= n
  <2> SUFFICES ASSUME NEW x \in Tokens, Hands(h2, x, s) PROVE x <= m + 1 /\ h2[x].at <= n
    OBVIOUS
  <2>1. CASE x = m + 1
    BY <2>1, <1>1
  <2>2. CASE x # m + 1
    <3>1. x <= m /\ h[x].at <= n /\ h2[x] = h[x]
      BY <2>2, <1>2 DEF Hands
    <3> QED BY <3>1
  <2> QED BY <2>1, <2>2
<1>4. s \notin d => \E x \in Tokens : Hands(h2, x, s) /\ h2[x].at = g.created
  <2>1. CASE g.created = n
    <3>1. Hands(h2, m + 1, s) /\ h2[m + 1].at = g.created
      BY <2>1 DEF Hands
    <3> QED BY <3>1, <1>1
  <2>2. ASSUME NEW x \in Tokens, Hands(h, x, s), h[x].at = g.created
        PROVE  \E y \in Tokens : Hands(h2, y, s) /\ h2[y].at = g.created
    <3>1. x # m + 1
      BY <2>2 DEF Hands
    <3> QED BY <2>2, <3>1 DEF Hands
  <2> QED BY <2>1, <2>2
<1> QED
  BY <1>1, <1>3, <1>4 DEF GrantFits

\* The grant of a refresh whose write failed.
LEMMA GrantIsDoubted ==
  ASSUME NEW s \in SignIns, NEW g \in GrantRows, NEW h \in [Tokens -> HandRows \cup {Nil}], NEW si,
         NEW m \in Nat, NEW n \in Nat, NEW e, NEW d, s \in d,
         g.token = m + 1, g.created <= n, g.used <= n,
         si[s] # Nil, si[s].at = "spent", g.client = si[s].client, g.redirect = si[s].redirect,
         g.resource = si[s].resource, g.scopes = si[s].granted, \A x \in Tokens : h[x] # Nil => x <= m
  PROVE  GrantFits(s, g, h, si, m + 1, n, e, d)
<1> USE GrantSets
<1>1. g # Nil /\ g.token \in Tokens /\ h[m + 1] = Nil
  BY DEF GrantRows
<1> QED
  BY <1>1 DEF GrantFits

\* A grant that stays on disk when its change is not written.
LEMMA GrantIsLeft ==
  ASSUME NEW s \in SignIns, NEW g, NEW h, NEW si, NEW m \in Nat, NEW m2 \in Nat, NEW n \in Nat,
         NEW e, NEW e2, NEW d, NEW d2, GrantFits(s, g, h, si, m, n, e, d), m <= m2, s \in d2
  PROVE  GrantFits(s, g, h, si, m2, n, e2, d2)
<1> USE GrantSets
<1>1. g # Nil => g \in GrantRows /\ g.token \in Nat /\ g.token <= m
  BY DEF GrantFits, GrantRows
<1>2. g # Nil => g.token <= m2
  BY <1>1
<1> QED
  BY <1>1, <1>2 DEF GrantFits

\* What of the clients is left when the unused are forgotten, and when time passes.
LEMMA ClientsLapse ==
  ASSUME NEW cl, NEW t \in [ClientIds -> {Nil} \cup Moments], NEW n \in Nat, NEW n2 \in Nat, n <= n2,
         ClientsFit(cl, t, n), NEW kept \in [ClientIds -> ClientRows \cup {Nil}],
         \A i \in ClientIds :
           kept[i] = cl[i] \/ (kept[i] = Nil /\ ~(n2 < Connectors!Later(cl[i].used, cl[i].created) + UNUSED))
  PROVE  ClientsFit(kept, t, n2)
<1> USE GrantSets
<1>1. \A i \in ClientIds : kept[i] # Nil => cl[i] # Nil /\ kept[i] = cl[i]
  OBVIOUS
<1>2. Cardinality({i \in ClientIds : kept[i] # Nil}) <= MAX_CLIENTS
  <2>1. {i \in ClientIds : kept[i] # Nil} \subseteq {i \in ClientIds : cl[i] # Nil}
    BY <1>1
  <2>2. IsFiniteSet({i \in ClientIds : cl[i] # Nil})
    BY FS_Subset
  <2>3. /\ Cardinality({i \in ClientIds : kept[i] # Nil}) <= Cardinality({i \in ClientIds : cl[i] # Nil})
        /\ Cardinality({i \in ClientIds : kept[i] # Nil}) \in Nat /\ Cardinality({i \in ClientIds : cl[i] # Nil}) \in Nat
    <3>1. IsFiniteSet({i \in ClientIds : kept[i] # Nil})
      BY FS_Subset
    <3> QED BY <2>1, <2>2, <3>1, FS_Subset, FS_CardinalityType
  <2> QED BY <2>3 DEF ClientsFit
<1>3. ASSUME NEW i \in ClientIds, t[i] # Nil, n2 < t[i] + UNUSED PROVE kept[i] # Nil
  <2>1. t[i] \in Nat /\ n < t[i] + UNUSED
    <3>1. t[i] \in Nat
      BY <1>3
    <3>2. \A k, l \in Nat : n2 < k + l => n < k + l
      OBVIOUS
    <3> QED BY <3>1, <3>2, <1>3
  <2>2. cl[i] # Nil /\ cl[i] \in ClientRows /\ cl[i].created = t[i] /\ cl[i].used \in Nat
    BY <2>1, <1>3 DEF ClientsFit, ClientRows
  <2>3. /\ t[i] <= Connectors!Later(cl[i].used, cl[i].created) /\ Connectors!Later(cl[i].used, cl[i].created) \in Nat
    BY <2>1, <2>2, LaterIsLater
  <2> QED BY <2>1, <2>2, <2>3, <1>3
<1> QED
  BY <1>1, <1>2, <1>3 DEF ClientsFit

\* The clients and the grants that are kept when a list is looked at.
LEMMA KeptFit ==
  ASSUME OAuthInv
  PROVE  /\ ClientsFit(Connectors!KeptClients, clientsTold, grantTime)
         /\ Connectors!KeptGrants \in [SignIns -> GrantRows \cup {Nil}]
         /\ \A s \in SignIns :
              /\ Connectors!KeptGrants[s] # Nil => Connectors!KeptGrants[s] = grants[s]
              /\ GrantFits(s, Connectors!KeptGrants[s], handed, signIns, minted, grantTime, grantsEnded, doubt)
         /\ Cardinality({s \in SignIns : Connectors!KeptGrants[s] # Nil}) <= MAX_GRANTS
<1> USE GrantSets
<1>t. /\ grants \in [SignIns -> GrantRows \cup {Nil}] /\ clientsTold \in [ClientIds -> {Nil} \cup Moments]
      /\ handed \in [Tokens -> HandRows \cup {Nil}] /\ minted \in Nat /\ grantTime \in Nat
      /\ clients \in [ClientIds -> ClientRows \cup {Nil}]
  BY DEF OAuthInv, GrantShape, ClientsHold, ClientsFit
<1>1. ClientsFit(Connectors!KeptClients, clientsTold, grantTime)
  <2>1. Connectors!KeptClients = [i \in ClientIds |->
          IF clients[i] # Nil /\ grantTime < Connectors!Later(clients[i].used, clients[i].created) + UNUSED
          THEN clients[i] ELSE Nil]
    BY DEF Connectors!KeptClients
  <2>2. Connectors!KeptClients \in [ClientIds -> ClientRows \cup {Nil}]
    BY <2>1, <1>t
  <2>3. \A i \in ClientIds :
          Connectors!KeptClients[i] = clients[i] \/
            (Connectors!KeptClients[i] = Nil /\
               ~(grantTime < Connectors!Later(clients[i].used, clients[i].created) + UNUSED))
    BY <2>1
  <2>4. ClientsFit(clients, clientsTold, grantTime)
    BY DEF OAuthInv, ClientsHold
  <2> QED BY <2>2, <2>3, <2>4, <1>t, ClientsLapse
<1>2. Connectors!KeptGrants = [s \in SignIns |-> IF Connectors!Alive(grants[s]) THEN grants[s] ELSE Nil]
  BY DEF Connectors!KeptGrants
<1>3. Connectors!KeptGrants \in [SignIns -> GrantRows \cup {Nil}]
  BY <1>2, <1>t
<1>4. ASSUME NEW s \in SignIns
      PROVE  /\ Connectors!KeptGrants[s] # Nil => Connectors!KeptGrants[s] = grants[s]
             /\ GrantFits(s, Connectors!KeptGrants[s], handed, signIns, minted, grantTime, grantsEnded, doubt)
  <2>1. GrantFits(s, grants[s], handed, signIns, minted, grantTime, grantsEnded, doubt)
    BY DEF OAuthInv, GrantsHold
  <2>2. CASE Connectors!Alive(grants[s])
    BY <2>1, <2>2, <1>2
  <2>3. CASE ~Connectors!Alive(grants[s])
    <3>1. GrantFits(s, Nil, handed, signIns, minted, grantTime, grantsEnded, doubt)
      BY <2>1, <2>3, <1>t, GrantLapses DEF Connectors!Alive
    <3> QED BY <3>1, <2>3, <1>2
  <2> QED BY <2>2, <2>3
<1>5. Cardinality({s \in SignIns : Connectors!KeptGrants[s] # Nil}) <= MAX_GRANTS
  <2>1. {s \in SignIns : Connectors!KeptGrants[s] # Nil} \subseteq {s \in SignIns : grants[s] # Nil}
    BY <1>4
  <2>2. IsFiniteSet({s \in SignIns : grants[s] # Nil}) /\ IsFiniteSet({s \in SignIns : Connectors!KeptGrants[s] # Nil})
    BY FS_Subset
  <2>3. /\ Cardinality({s \in SignIns : Connectors!KeptGrants[s] # Nil}) <= Cardinality({s \in SignIns : grants[s] # Nil})
        /\ Cardinality({s \in SignIns : Connectors!KeptGrants[s] # Nil}) \in Nat
        /\ Cardinality({s \in SignIns : grants[s] # Nil}) \in Nat
    BY <2>1, <2>2, FS_Subset, FS_CardinalityType
  <2>4. Cardinality({s \in SignIns : grants[s] # Nil}) <= MAX_GRANTS
    BY DEF OAuthInv, GrantsAreFew
  <2> QED BY <2>3, <2>4
<1> QED
  BY <1>1, <1>3, <1>4, <1>5

\* A step that hands out nothing: each grant is one that fitted.
LEMMA GrantsStand ==
  ASSUME OAuthInv, UNCHANGED <<minted, handed, grantsEnded, doubt>>, grantTime' \in Moments, grantTime <= grantTime',
         \A s \in SignIns : signIns[s] # Nil /\ signIns[s].at = "spent" =>
           /\ signIns'[s] # Nil /\ signIns'[s].at = "spent" /\ signIns'[s].client = signIns[s].client
           /\ signIns'[s].redirect = signIns[s].redirect /\ signIns'[s].resource = signIns[s].resource
           /\ signIns'[s].granted = signIns[s].granted,
         \A s \in SignIns :
           /\ GrantFits(s, grants'[s], handed, signIns, minted, grantTime, grantsEnded, doubt)
           /\ GrantFits(s, remoteFile'.grants[s], handed, signIns, minted, grantTime, grantsEnded, doubt)
  PROVE  HandsHold' /\ EndsHold' /\ GrantsHold' /\ SavedHold'
<1> USE GrantSets
<1>t. /\ handed \in [Tokens -> HandRows \cup {Nil}] /\ minted \in Nat /\ grantTime \in Nat /\ grantTime' \in Nat
      /\ grantsEnded \cup doubt \subseteq SignIns
  BY DEF OAuthInv, GrantShape
<1>1. HandsHold'
  <2> SUFFICES ASSUME NEW x \in Tokens PROVE HandFits(x, handed', signIns', minted', grantTime')
    BY DEF HandsHold
  <2> SUFFICES ASSUME handed[x] # Nil
               PROVE  /\ handed[x] \in HandRows /\ x <= minted /\ handed[x].at <= grantTime'
                      /\ signIns'[handed[x].of] # Nil /\ signIns'[handed[x].of].at = "spent"
                      /\ handed[x].client = signIns'[handed[x].of].client /\ handed[x].verifier = handed[x].of
    BY DEF HandFits
  <2>1. HandFits(x, handed, signIns, minted, grantTime)
    BY DEF OAuthInv, HandsHold
  <2>2. handed[x] \in HandRows /\ handed[x].at <= grantTime /\ x <= minted
    BY <2>1 DEF HandFits
  <2>3. handed[x].of \in SignIns /\ handed[x].at \in Nat
    BY <2>2 DEF HandRows
  <2>4. handed[x].at <= grantTime'
    BY <2>2, <2>3, <1>t
  <2>5. /\ signIns[handed[x].of] # Nil /\ signIns[handed[x].of].at = "spent"
        /\ handed[x].client = signIns[handed[x].of].client /\ handed[x].verifier = handed[x].of
    BY <2>1 DEF HandFits
  <2> QED BY <2>2, <2>3, <2>4, <2>5
<1>2. EndsHold'
  BY <1>t DEF OAuthInv, EndsHold
<1>3. GrantsHold'
  <2> SUFFICES ASSUME NEW s \in SignIns
               PROVE  GrantFits(s, grants'[s], handed', signIns', minted', grantTime', grantsEnded', doubt')
    BY DEF GrantsHold
  <2>1. grants'[s] # Nil => signIns[s] # Nil /\ signIns[s].at = "spent"
    BY DEF GrantFits
  <2> QED BY <2>1, <1>t, GrantStays
<1>4. SavedHold'
  <2> SUFFICES ASSUME NEW s \in SignIns
               PROVE  GrantFits(s, remoteFile'.grants[s], handed', signIns', minted', grantTime', grantsEnded', doubt')
    BY DEF SavedHold
  <2>1. remoteFile'.grants[s] # Nil => signIns[s] # Nil /\ signIns[s].at = "spent"
    BY DEF GrantFits
  <2> QED BY <2>1, <1>t, GrantStays
<1> QED
  BY <1>1, <1>2, <1>3, <1>4

\* In which what was there fits as it did.
LEMMA GrantsWere ==
  ASSUME OAuthInv
  PROVE  \A s \in SignIns :
           /\ GrantFits(s, grants[s], handed, signIns, minted, grantTime, grantsEnded, doubt)
           /\ GrantFits(s, remoteFile.grants[s], handed, signIns, minted, grantTime, grantsEnded, doubt)
BY DEF OAuthInv, GrantsHold, SavedHold

\* The clients' part of a step that is not about grants.
LEMMA ClientStep ==
  ASSUME OAuthInv, UNCHANGED <<grants, minted, handed, grantsEnded, doubt, grantTime, document>>,
         ClientsFit(clients', clientsTold', grantTime), ClientsFit(remoteFile'.clients, clientsTold', grantTime),
         remoteFile'.grants \in {grants, remoteFile.grants},
         clientsTold' \in [ClientIds -> {Nil} \cup Moments],
         signIns' \in [SignIns -> SignInRows \cup {Nil}], cached' \in URIs \cup {Nil}, SignInsHold',
         \A s \in SignIns : signIns[s] # Nil /\ signIns[s].at = "spent" =>
           /\ signIns'[s] # Nil /\ signIns'[s].at = "spent" /\ signIns'[s].client = signIns[s].client
           /\ signIns'[s].redirect = signIns[s].redirect /\ signIns'[s].resource = signIns[s].resource
           /\ signIns'[s].granted = signIns[s].granted
  PROVE  OAuthInv'
<1> USE GrantSets
<1>1. GrantShape'
  BY DEF OAuthInv, GrantShape
<1>2. ClientsHold'
  BY DEF ClientsHold
<1>3. grantTime \in Moments /\ grantTime \in Nat
  BY DEF OAuthInv, GrantShape
<1>4. HandsHold' /\ EndsHold' /\ GrantsHold' /\ SavedHold'
  <2>1. \A s \in SignIns :
           /\ GrantFits(s, grants'[s], handed, signIns, minted, grantTime, grantsEnded, doubt)
           /\ GrantFits(s, remoteFile'.grants[s], handed, signIns, minted, grantTime, grantsEnded, doubt)
    BY GrantsWere
  <2> QED BY <2>1, <1>3, GrantsStand
<1>5. GrantsAreFew'
  BY DEF OAuthInv, GrantsAreFew
<1> QED
  BY <1>1, <1>2, <1>4, <1>5 DEF OAuthInv

\* What the clients' list and its file are after the unused are forgotten.
LEMMA PruneFits ==
  ASSUME OAuthInv, NEW d \in Connectors!PruneSaved
  PROVE  ClientsFit(d.clients, clientsTold, grantTime) /\ d.grants \in {grants, remoteFile.grants}
<1>1. d = remoteFile \/ d = [clients |-> Connectors!KeptClients, grants |-> grants]
  BY DEF Connectors!PruneSaved, Connectors!Of
<1>2. CASE d = remoteFile
  BY <1>2 DEF OAuthInv, ClientsHold
<1>3. CASE d = [clients |-> Connectors!KeptClients, grants |-> grants]
  BY <1>3, KeptFit
<1> QED BY <1>1, <1>2, <1>3

\* One more client.
LEMMA ClientIsAdded ==
  ASSUME NEW cl, NEW t \in [ClientIds -> {Nil} \cup Moments], NEW n \in Moments, ClientsFit(cl, t, n),
         NEW i \in ClientIds, t[i] = Nil, NEW rec \in ClientRows, rec.created = n,
         Cardinality({j \in ClientIds : cl[j] # Nil}) < MAX_CLIENTS
  PROVE  ClientsFit([cl EXCEPT ![i] = rec], [t EXCEPT ![i] = n], n)
<1> USE GrantSets
<1> DEFINE all == [cl EXCEPT ![i] = rec]
           told2 == [t EXCEPT ![i] = n]
<1>1. cl \in [ClientIds -> ClientRows \cup {Nil}] /\ cl[i] = Nil
  BY DEF ClientsFit
<1>2. /\ all \in [ClientIds -> ClientRows \cup {Nil}] /\ all[i] = rec /\ told2[i] = n
      /\ \A j \in ClientIds : j # i => all[j] = cl[j] /\ told2[j] = t[j]
  BY <1>1
<1>3. n # Nil /\ rec # Nil
  OBVIOUS
<1> HIDE DEF all, told2
<1>4. Cardinality({j \in ClientIds : all[j] # Nil}) <= MAX_CLIENTS
  <2>1. {j \in ClientIds : all[j] # Nil} = {j \in ClientIds : cl[j] # Nil} \cup {i}
    BY <1>2, <1>3
  <2>2. IsFiniteSet({j \in ClientIds : cl[j] # Nil})
    BY FS_Subset
  <2>3. i \notin {j \in ClientIds : cl[j] # Nil}
    BY <1>1
  <2>4. Cardinality({j \in ClientIds : all[j] # Nil}) = Cardinality({j \in ClientIds : cl[j] # Nil}) + 1
    BY <2>1, <2>2, <2>3, FS_AddElement
  <2>5. Cardinality({j \in ClientIds : cl[j] # Nil}) \in Nat
    BY <2>2, FS_CardinalityType
  <2> QED BY <2>4, <2>5
<1>5. \A j \in ClientIds : all[j] # Nil => told2[j] # Nil /\ all[j].created = told2[j]
  BY <1>2, <1>3 DEF ClientsFit
<1>6. \A j \in ClientIds : told2[j] # Nil /\ n < told2[j] + UNUSED => all[j] # Nil
  BY <1>2, <1>3 DEF ClientsFit
<1>7. ClientsFit(all, told2, n)
  BY <1>2, <1>4, <1>5, <1>6 DEF ClientsFit
<1> QED BY <1>7 DEF all, told2

\* A client that is used is the same client.
LEMMA ClientIsUsed ==
  ASSUME NEW cl, NEW t, NEW n \in Moments, ClientsFit(cl, t, n), NEW c \in ClientIds, cl[c] # Nil
  PROVE  ClientsFit([cl EXCEPT ![c].used = n], t, n)
<1> USE GrantSets
<1> DEFINE rec == [cl[c] EXCEPT !.used = n]
           all == [cl EXCEPT ![c] = rec]
<1>1. cl \in [ClientIds -> ClientRows \cup {Nil}] /\ cl[c] \in ClientRows
  BY DEF ClientsFit
<1>2. rec \in ClientRows /\ rec # Nil /\ rec.created = cl[c].created
  BY <1>1 DEF ClientRows
<1> HIDE DEF rec
<1>3. /\ all \in [ClientIds -> ClientRows \cup {Nil}] /\ all[c] = rec
      /\ \A j \in ClientIds : j # c => all[j] = cl[j]
  BY <1>1, <1>2
<1>4. [cl EXCEPT ![c].used = n] = all
  BY <1>1 DEF rec
<1> HIDE DEF all
<1>5. {j \in ClientIds : all[j] # Nil} = {j \in ClientIds : cl[j] # Nil}
  BY <1>2, <1>3
<1>6. \A j \in ClientIds : (all[j] # Nil <=> cl[j] # Nil) /\ (cl[j] # Nil => all[j].created = cl[j].created)
  BY <1>2, <1>3
<1>7. ClientsFit(all, t, n)
  BY <1>3, <1>5, <1>6 DEF ClientsFit
<1> QED BY <1>4, <1>7

\* A registration.
LEMMA RegisterGoesOn ==
  ASSUME OAuthInv, NEW i \in ClientIds, NEW u \in URIs, NEW saved \in BOOLEAN, Connectors!Register(i, u, saved)
  PROVE  OAuthInv'
<1> USE GrantSets
<1>1. /\ UNCHANGED <<grants, minted, handed, grantsEnded, doubt, grantTime, document, cached, signIns>>
      /\ clientsTold[i] = Nil
  BY DEF Connectors!Register, Connectors!asked, Connectors!issued
<1>2. /\ clientsTold \in [ClientIds -> {Nil} \cup Moments] /\ grantTime \in Moments
      /\ signIns' \in [SignIns -> SignInRows \cup {Nil}] /\ cached' \in URIs \cup {Nil}
  BY <1>1 DEF OAuthInv, GrantShape
<1>3. SignInsHold'
  BY <1>1 DEF OAuthInv, SignInsHold
<1>4. ClientsFit(Connectors!KeptClients, clientsTold, grantTime)
  BY KeptFit
<1> DEFINE rec == [lists |-> u, created |-> grantTime, used |-> 0]
           all == [Connectors!KeptClients EXCEPT ![i] = rec]
<1>5. \/ /\ Cardinality({j \in ClientIds : Connectors!KeptClients[j] # Nil}) < MAX_CLIENTS
         /\ clients' = all /\ remoteFile' = [clients |-> all, grants |-> grants]
         /\ clientsTold' = [clientsTold EXCEPT ![i] = grantTime]
      \/ /\ clients' = Connectors!KeptClients /\ remoteFile' \in Connectors!PruneSaved
         /\ UNCHANGED clientsTold
  <2>1. Connectors!Cardinality({j \in ClientIds : Connectors!KeptClients[j] # Nil})
          = Cardinality({j \in ClientIds : Connectors!KeptClients[j] # Nil})
    BY SameCount
  <2> QED BY <2>1 DEF Connectors!Register, Connectors!Of
<1>6. rec \in ClientRows /\ rec.created = grantTime
  BY <1>2 DEF ClientRows, Moments
<1> HIDE DEF rec
<1>7. CASE /\ Cardinality({j \in ClientIds : Connectors!KeptClients[j] # Nil}) < MAX_CLIENTS
           /\ clients' = all /\ remoteFile' = [clients |-> all, grants |-> grants]
           /\ clientsTold' = [clientsTold EXCEPT ![i] = grantTime]
  <2>1. ClientsFit(all, clientsTold', grantTime)
    BY <1>1, <1>2, <1>4, <1>6, <1>7, ClientIsAdded
  <2>2. clientsTold' \in [ClientIds -> {Nil} \cup Moments]
    BY <1>2, <1>7
  <2>3. remoteFile'.clients = all /\ remoteFile'.grants = grants
    BY <1>7
  <2> HIDE DEF all
  <2> QED BY <2>1, <2>2, <2>3, <1>7, <1>1, <1>2, <1>3, ClientStep
<1>8. CASE /\ clients' = Connectors!KeptClients /\ remoteFile' \in Connectors!PruneSaved
           /\ UNCHANGED clientsTold
  <2>1. ClientsFit(remoteFile'.clients, clientsTold, grantTime) /\ remoteFile'.grants \in {grants, remoteFile.grants}
    BY <1>8, PruneFits
  <2> QED BY <2>1, <1>8, <1>1, <1>2, <1>3, <1>4, ClientStep
<1> QED BY <1>5, <1>7, <1>8

\* A sign-in that is asked for.
LEMMA AuthorizeGoesOn ==
  ASSUME OAuthInv, NEW s \in SignIns, NEW q \in OAuthRequests,
         Connectors!Authorize(s, q.client, q.redirect, q.scopes, q.resource)
  PROVE  OAuthInv'
<1> USE GrantSets
<1>q. /\ q.client \in Clients /\ q.redirect \in URIs /\ q.scopes \subseteq Scopes /\ q.resource \in ResourceSet
  BY GrantsAssumption DEF Scopes
<1>1. /\ UNCHANGED <<grants, minted, handed, grantsEnded, doubt, grantTime, document, clientsTold>>
      /\ signIns[s] = Nil
  BY DEF Connectors!Authorize, Connectors!issued
<1>2. /\ clientsTold \in [ClientIds -> {Nil} \cup Moments] /\ grantTime \in Moments
      /\ signIns \in [SignIns -> SignInRows \cup {Nil}] /\ cached \in URIs \cup {Nil} /\ document \in URIs
  BY DEF OAuthInv, GrantShape
<1>3. PICK named \in URIs \cup {Nil} :
        /\ Connectors!Resolve(q.client, named)
        /\ IF named # Nil /\ Connectors!ValidRedirect(q.redirect) /\ Connectors!Registered(named, q.redirect)
           THEN signIns' = [signIns EXCEPT ![s] = [at |-> "page", client |-> q.client, redirect |-> q.redirect,
                             lists |-> named, asked |-> Connectors!Normal(q.scopes), granted |-> {},
                             resource |-> q.resource]]
           ELSE UNCHANGED signIns
  BY DEF Connectors!Authorize
<1>4. /\ ClientsFit(clients', clientsTold, grantTime) /\ ClientsFit(remoteFile'.clients, clientsTold, grantTime)
      /\ remoteFile'.grants \in {grants, remoteFile.grants} /\ cached' \in URIs \cup {Nil}
  <2>1. CASE q.client = 0
    <3>1. Connectors!Fetch(named) /\ UNCHANGED <<clients, remoteFile>>
      BY <1>3, <2>1 DEF Connectors!Resolve
    <3>2. cached' \in URIs \cup {Nil}
      BY <3>1, <1>2, <1>3 DEF Connectors!Fetch
    <3> QED BY <3>1, <3>2 DEF OAuthInv, ClientsHold
  <2>2. CASE q.client # 0
    <3>1. /\ remoteFile' \in Connectors!PruneSaved /\ UNCHANGED cached
          /\ \/ clients' = Connectors!KeptClients
             \/ /\ Connectors!KeptClients[q.client] # Nil
                /\ clients' = [Connectors!KeptClients EXCEPT ![q.client].used = grantTime]
      BY <1>3, <2>2 DEF Connectors!Resolve
    <3>2. ClientsFit(remoteFile'.clients, clientsTold, grantTime) /\ remoteFile'.grants \in {grants, remoteFile.grants}
      BY <3>1, PruneFits
    <3>3. ClientsFit(Connectors!KeptClients, clientsTold, grantTime)
      BY KeptFit
    <3>4. q.client \in ClientIds
      BY <1>q, <2>2 DEF Clients
    <3>5. ClientsFit(clients', clientsTold, grantTime)
      <4>1. CASE clients' = Connectors!KeptClients
        BY <4>1, <3>3
      <4>2. CASE /\ Connectors!KeptClients[q.client] # Nil
                 /\ clients' = [Connectors!KeptClients EXCEPT ![q.client].used = grantTime]
        BY <4>2, <3>3, <3>4, <1>2, ClientIsUsed
      <4> QED BY <3>1, <4>1, <4>2
    <3> QED BY <3>1, <3>2, <3>5, <1>2
  <2> QED BY <2>1, <2>2
<1>5. /\ signIns' \in [SignIns -> SignInRows \cup {Nil}] /\ SignInsHold'
      /\ \A r \in SignIns : r # s => signIns'[r] = signIns[r]
  <2> DEFINE row == [at |-> "page", client |-> q.client, redirect |-> q.redirect,
                     lists |-> named, asked |-> Connectors!Normal(q.scopes), granted |-> {},
                     resource |-> q.resource]
  <2>1. CASE UNCHANGED signIns
    BY <2>1, <1>2 DEF OAuthInv, SignInsHold
  <2>2. CASE /\ named # Nil /\ Connectors!ValidRedirect(q.redirect) /\ Connectors!Registered(named, q.redirect)
             /\ signIns' = [signIns EXCEPT ![s] = row]
    <3>1. Connectors!Normal(q.scopes) \subseteq Scopes /\ Normalised(Connectors!Normal(q.scopes))
      BY <1>q DEF Connectors!Normal, Normalised, Scopes
    <3>2. Normalised({}) /\ {} \subseteq Scopes
      BY DEF Normalised
    <3>3. named \in URIs
      BY <2>2
    <3>4. row \in SignInRows
      BY <3>1, <3>2, <3>3, <1>q DEF SignInRows
    <3>5. /\ row.redirect = q.redirect /\ row.lists = named /\ row.asked = Connectors!Normal(q.scopes)
          /\ row.granted = {}
      OBVIOUS
    <3> HIDE DEF row
    <3>6. SignInFits(row)
      BY <2>2, <3>1, <3>2, <3>4, <3>5 DEF SignInFits
    <3>7. /\ signIns' \in [SignIns -> SignInRows \cup {Nil}] /\ signIns'[s] = row
          /\ \A r \in SignIns : r # s => signIns'[r] = signIns[r]
      BY <2>2, <3>4, <1>2
    <3>8. \A r \in SignIns : SignInFits(signIns'[r])
      BY <3>6, <3>7 DEF OAuthInv, SignInsHold
    <3> QED BY <3>7, <3>8 DEF SignInsHold
  <2> QED BY <1>3, <2>1, <2>2
<1>6. \A r \in SignIns : signIns[r] # Nil /\ signIns[r].at = "spent" =>
           /\ signIns'[r] # Nil /\ signIns'[r].at = "spent" /\ signIns'[r].client = signIns[r].client
           /\ signIns'[r].redirect = signIns[r].redirect /\ signIns'[r].resource = signIns[r].resource
           /\ signIns'[r].granted = signIns[r].granted
  BY <1>1, <1>5
<1>7. clientsTold' = clientsTold
  BY <1>1
<1> QED
  BY <1>1, <1>2, <1>4, <1>5, <1>6, <1>7, ClientStep

\* A sign-in that becomes a code or lapses.
LEMMA SignInMoves ==
  ASSUME OAuthInv, UNCHANGED <<clients, remoteFile, document, cached, grants, minted, handed, grantsEnded, doubt,
                               clientsTold, grantTime>>,
         NEW s \in SignIns, signIns[s] # Nil, signIns[s].at # "spent",
         NEW row \in SignInRows, SignInFits(row), signIns' = [signIns EXCEPT ![s] = row]
  PROVE  OAuthInv'
<1> USE GrantSets
<1>1. /\ clientsTold \in [ClientIds -> {Nil} \cup Moments] /\ signIns \in [SignIns -> SignInRows \cup {Nil}]
      /\ cached \in URIs \cup {Nil}
  BY DEF OAuthInv, GrantShape
<1>2. /\ signIns' \in [SignIns -> SignInRows \cup {Nil}] /\ signIns'[s] = row
      /\ \A r \in SignIns : r # s => signIns'[r] = signIns[r]
  BY <1>1
<1>3. SignInsHold'
  <2>1. \A r \in SignIns : SignInFits(signIns'[r])
    BY <1>2 DEF OAuthInv, SignInsHold
  <2> QED BY <2>1 DEF SignInsHold
<1>4. ClientsFit(clients', clientsTold', grantTime) /\ ClientsFit(remoteFile'.clients, clientsTold', grantTime)
  BY DEF OAuthInv, ClientsHold
<1>5. \A r \in SignIns : signIns[r] # Nil /\ signIns[r].at = "spent" =>
           /\ signIns'[r] # Nil /\ signIns'[r].at = "spent" /\ signIns'[r].client = signIns[r].client
           /\ signIns'[r].redirect = signIns[r].redirect /\ signIns'[r].resource = signIns[r].resource
           /\ signIns'[r].granted = signIns[r].granted
  BY <1>2
<1>6. remoteFile'.grants \in {grants, remoteFile.grants} /\ clientsTold' = clientsTold /\ cached' = cached
  OBVIOUS
<1> QED
  BY <1>1, <1>2, <1>3, <1>4, <1>5, <1>6, ClientStep

\* A consent.
LEMMA AllowGoesOn ==
  ASSUME OAuthInv, NEW s \in SignIns, NEW chosen \in SUBSET Scopes, Connectors!Allow(s, chosen)
  PROVE  OAuthInv'
<1> USE GrantSets
<1>1. /\ UNCHANGED <<clients, remoteFile, document, cached, grants, minted, handed, grantsEnded, doubt,
                      clientsTold, grantTime>>
      /\ signIns[s] # Nil /\ signIns[s].at = "page" /\ chosen \subseteq signIns[s].asked
      /\ signIns' = [signIns EXCEPT ![s].at = "code", ![s].granted = Connectors!Normal(chosen)]
  BY DEF Connectors!Allow, Connectors!issued
<1>2. signIns \in [SignIns -> SignInRows \cup {Nil}] /\ signIns[s] \in SignInRows /\ SignInFits(signIns[s])
  BY <1>1 DEF OAuthInv, GrantShape, SignInsHold
<1> DEFINE row == [signIns[s] EXCEPT !.at = "code", !.granted = Connectors!Normal(chosen)]
<1>3. /\ Connectors!Normal(chosen) \subseteq Scopes /\ Normalised(Connectors!Normal(chosen))
      /\ Connectors!Normal(chosen) \subseteq signIns[s].asked
  BY <1>1, <1>2 DEF Connectors!Normal, Normalised, Scopes, SignInFits
<1>4. /\ row \in SignInRows /\ row.redirect = signIns[s].redirect /\ row.lists = signIns[s].lists
      /\ row.asked = signIns[s].asked /\ row.granted = Connectors!Normal(chosen)
  BY <1>2, <1>3 DEF SignInRows
<1>5. signIns' = [signIns EXCEPT ![s] = row]
  BY <1>1, <1>2
<1>6. SignInFits(row)
  <2> HIDE DEF row
  <2> QED BY <1>1, <1>2, <1>3, <1>4 DEF SignInFits
<1>7. signIns[s].at # "spent"
  BY <1>1
<1> HIDE DEF row
<1> QED BY <1>1, <1>4, <1>5, <1>6, <1>7, SignInMoves

\* A request that is over, fits as before.
LEMMA SpentFits ==
  ASSUME NEW r \in SignInRows, SignInFits(r)
  PROVE  [r EXCEPT !.at = "spent"] \in SignInRows /\ SignInFits([r EXCEPT !.at = "spent"])
<1> USE GrantSets
<1> DEFINE row == [r EXCEPT !.at = "spent"]
<1>1. /\ row \in SignInRows /\ row.redirect = r.redirect /\ row.lists = r.lists /\ row.asked = r.asked
      /\ row.granted = r.granted
  BY DEF SignInRows
<1>2. SignInFits(row)
  <2> HIDE DEF row
  <2> QED BY <1>1 DEF SignInFits
<1> QED BY <1>1, <1>2

\* A page, a code or the cache runs out.
LEMMA LapseGoesOn ==
  ASSUME OAuthInv, Connectors!Lapse
  PROVE  OAuthInv'
<1> USE GrantSets
<1>1. UNCHANGED <<clients, remoteFile, document, grants, minted, handed, grantsEnded, doubt, clientsTold, grantTime>>
  BY DEF Connectors!Lapse, Connectors!issued
<1>2. ASSUME NEW s \in SignIns, signIns[s] # Nil, signIns[s].at \in {"page", "code"},
             signIns' = [signIns EXCEPT ![s].at = "spent"], UNCHANGED cached
      PROVE  OAuthInv'
  <2>1. signIns \in [SignIns -> SignInRows \cup {Nil}] /\ signIns[s] \in SignInRows /\ SignInFits(signIns[s])
    BY <1>2 DEF OAuthInv, GrantShape, SignInsHold
  <2>2. signIns' = [signIns EXCEPT ![s] = [signIns[s] EXCEPT !.at = "spent"]]
    BY <1>2, <2>1
  <2>3. signIns[s].at # "spent"
    BY <1>2
  <2> QED BY <1>1, <1>2, <2>1, <2>2, <2>3, SpentFits, SignInMoves
<1>3. ASSUME cached' = Nil, UNCHANGED signIns
      PROVE  OAuthInv'
  <2>1. /\ clientsTold \in [ClientIds -> {Nil} \cup Moments] /\ signIns \in [SignIns -> SignInRows \cup {Nil}]
    BY DEF OAuthInv, GrantShape
  <2>2. SignInsHold'
    BY <1>3 DEF OAuthInv, SignInsHold
  <2>3. ClientsFit(clients', clientsTold', grantTime) /\ ClientsFit(remoteFile'.clients, clientsTold', grantTime)
    BY <1>1 DEF OAuthInv, ClientsHold
  <2> QED BY <1>1, <1>3, <2>1, <2>2, <2>3, ClientStep
<1> QED BY <1>2, <1>3 DEF Connectors!Lapse

\* A step of the grants: the clients are as they were.
LEMMA GrantStep ==
  ASSUME OAuthInv, UNCHANGED <<clients, clientsTold, document, cached, grantTime>>,
         remoteFile'.clients \in {clients, remoteFile.clients},
         grants' \in [SignIns -> GrantRows \cup {Nil}], remoteFile'.grants \in [SignIns -> GrantRows \cup {Nil}],
         signIns' \in [SignIns -> SignInRows \cup {Nil}], handed' \in [Tokens -> HandRows \cup {Nil}],
         minted' \in 0 .. MaxTokens, grantsEnded' \subseteq SignIns, doubt' \subseteq SignIns,
         SignInsHold', HandsHold', EndsHold', GrantsHold', SavedHold', GrantsAreFew'
  PROVE  OAuthInv'
<1>1. GrantShape'
  BY DEF OAuthInv, GrantShape
<1>2. ClientsHold'
  BY DEF OAuthInv, ClientsHold
<1> QED BY <1>1, <1>2 DEF OAuthInv

\* One that hands out nothing and ends nothing.
LEMMA QuietStep ==
  ASSUME OAuthInv, UNCHANGED <<clients, clientsTold, document, cached, grantTime, minted, handed, grantsEnded, doubt>>,
         remoteFile'.clients \in {clients, remoteFile.clients},
         grants' \in [SignIns -> GrantRows \cup {Nil}], remoteFile'.grants \in [SignIns -> GrantRows \cup {Nil}],
         signIns' \in [SignIns -> SignInRows \cup {Nil}], SignInsHold', GrantsAreFew',
         \A s \in SignIns : signIns[s] # Nil /\ signIns[s].at = "spent" =>
           /\ signIns'[s] # Nil /\ signIns'[s].at = "spent" /\ signIns'[s].client = signIns[s].client
           /\ signIns'[s].redirect = signIns[s].redirect /\ signIns'[s].resource = signIns[s].resource
           /\ signIns'[s].granted = signIns[s].granted,
         \A s \in SignIns :
           /\ GrantFits(s, grants'[s], handed, signIns, minted, grantTime, grantsEnded, doubt)
           /\ GrantFits(s, remoteFile'.grants[s], handed, signIns, minted, grantTime, grantsEnded, doubt)
  PROVE  OAuthInv'
<1> USE GrantSets
<1>1. /\ grantTime' \in Moments /\ grantTime <= grantTime'
      /\ handed' \in [Tokens -> HandRows \cup {Nil}] /\ minted' \in 0 .. MaxTokens /\ grantsEnded' \subseteq SignIns
      /\ doubt' \subseteq SignIns
  BY DEF OAuthInv, GrantShape
<1>2. HandsHold' /\ EndsHold' /\ GrantsHold' /\ SavedHold'
  BY <1>1, GrantsStand
<1> QED BY <1>1, <1>2, GrantStep

\* A sign-in whose code was presented: the others are as they were.
LEMMA CodeIsSpent ==
  ASSUME OAuthInv, NEW s \in SignIns, signIns[s] # Nil, signIns[s].at = "code",
         signIns' = [signIns EXCEPT ![s].at = "spent"]
  PROVE  /\ signIns' \in [SignIns -> SignInRows \cup {Nil}] /\ SignInsHold' /\ signIns[s] \in SignInRows
         /\ signIns'[s] # Nil /\ signIns'[s].at = "spent" /\ signIns'[s].client = signIns[s].client
         /\ signIns'[s].redirect = signIns[s].redirect /\ signIns'[s].resource = signIns[s].resource
         /\ signIns'[s].granted = signIns[s].granted
         /\ \A r \in SignIns : r # s => signIns'[r] = signIns[r]
<1> USE GrantSets
<1>1. signIns \in [SignIns -> SignInRows \cup {Nil}] /\ signIns[s] \in SignInRows /\ SignInFits(signIns[s])
  BY DEF OAuthInv, GrantShape, SignInsHold
<1> DEFINE row == [signIns[s] EXCEPT !.at = "spent"]
<1>2. /\ row \in SignInRows /\ SignInFits(row)
  BY <1>1, SpentFits
<1>3. /\ row # Nil /\ row.at = "spent" /\ row.client = signIns[s].client /\ row.redirect = signIns[s].redirect
      /\ row.resource = signIns[s].resource /\ row.granted = signIns[s].granted
  BY <1>1, <1>2 DEF SignInRows
<1>4. signIns' = [signIns EXCEPT ![s] = row]
  BY <1>1
<1> HIDE DEF row
<1>5. /\ signIns' \in [SignIns -> SignInRows \cup {Nil}] /\ signIns'[s] = row
      /\ \A r \in SignIns : r # s => signIns'[r] = signIns[r]
  BY <1>1, <1>2, <1>4
<1>6. SignInsHold'
  <2>1. \A r \in SignIns : SignInFits(signIns'[r])
    BY <1>2, <1>5 DEF OAuthInv, SignInsHold
  <2> QED BY <2>1 DEF SignInsHold
<1> QED BY <1>1, <1>3, <1>5, <1>6

\* A document is published anew.
LEMMA PublishGoesOn ==
  ASSUME OAuthInv, Connectors!Publish
  PROVE  OAuthInv'
<1> USE GrantSets
<1>1. /\ UNCHANGED <<clients, remoteFile, grants, cached, signIns, grantTime, minted, handed, clientsTold,
                      grantsEnded, doubt>>
      /\ document' \in URIs
  BY GrantsAssumption DEF Connectors!Publish
<1>2. GrantShape'
  BY <1>1 DEF OAuthInv, GrantShape
<1>3. ClientsHold' /\ SignInsHold' /\ HandsHold' /\ EndsHold' /\ GrantsHold' /\ SavedHold' /\ GrantsAreFew'
  BY <1>1 DEF OAuthInv, ClientsHold, SignInsHold, HandsHold, EndsHold, GrantsHold, SavedHold, GrantsAreFew
<1> QED BY <1>2, <1>3 DEF OAuthInv

\* A day passes.
LEMMA PassGoesOn ==
  ASSUME OAuthInv, Connectors!Pass
  PROVE  OAuthInv'
<1> USE GrantSets
<1>1. /\ UNCHANGED <<clients, remoteFile, grants, document, cached, signIns, minted, handed, clientsTold,
                      grantsEnded, doubt>>
      /\ grantTime < MaxGrantTime /\ grantTime' = grantTime + 1
  BY DEF Connectors!Pass, Connectors!asked
<1>2. /\ grantTime \in Moments /\ grantTime \in Nat /\ grantTime' \in Moments /\ grantTime' \in Nat
      /\ grantTime <= grantTime'
      /\ clientsTold \in [ClientIds -> {Nil} \cup Moments]
  BY <1>1 DEF OAuthInv, GrantShape, Moments
<1>3. GrantShape'
  BY <1>1, <1>2 DEF OAuthInv, GrantShape
<1>4. ClientsHold'
  <2>1. ASSUME NEW cl, ClientsFit(cl, clientsTold, grantTime)
        PROVE  ClientsFit(cl, clientsTold, grantTime')
    <3>1. cl \in [ClientIds -> ClientRows \cup {Nil}]
      BY <2>1 DEF ClientsFit
    <3> QED BY <2>1, <3>1, <1>2, ClientsLapse
  <2> QED BY <2>1, <1>1 DEF OAuthInv, ClientsHold
<1>5. SignInsHold' /\ GrantsAreFew'
  BY <1>1 DEF OAuthInv, SignInsHold, GrantsAreFew
<1>6. HandsHold' /\ EndsHold' /\ GrantsHold' /\ SavedHold'
  <2>1. \A s \in SignIns :
           /\ GrantFits(s, grants'[s], handed, signIns, minted, grantTime, grantsEnded, doubt)
           /\ GrantFits(s, remoteFile'.grants[s], handed, signIns, minted, grantTime, grantsEnded, doubt)
    BY <1>1, GrantsWere
  <2> QED BY <2>1, <1>1, <1>2, GrantsStand
<1> QED BY <1>3, <1>4, <1>5, <1>6 DEF OAuthInv

\* Konnekt is restarted.
LEMMA RestartGoesOn ==
  ASSUME OAuthInv, Connectors!Restart
  PROVE  OAuthInv'
<1> USE GrantSets
<1>1. /\ clients' = remoteFile.clients /\ grants' = remoteFile.grants /\ cached' = Nil
      /\ signIns' = [s \in SignIns |-> IF signIns[s] = Nil THEN Nil ELSE [signIns[s] EXCEPT !.at = "spent"]]
      /\ UNCHANGED <<remoteFile, document, grantTime, minted, handed, clientsTold, grantsEnded, doubt>>
  BY DEF Connectors!Restart
<1>2. signIns \in [SignIns -> SignInRows \cup {Nil}]
  BY DEF OAuthInv, GrantShape
<1>3. ASSUME NEW s \in SignIns
      PROVE  /\ signIns'[s] \in SignInRows \cup {Nil} /\ SignInFits(signIns'[s])
             /\ signIns[s] # Nil =>
                  /\ signIns'[s] # Nil /\ signIns'[s].at = "spent" /\ signIns'[s].client = signIns[s].client
                  /\ signIns'[s].redirect = signIns[s].redirect /\ signIns'[s].resource = signIns[s].resource
                  /\ signIns'[s].granted = signIns[s].granted
  <2>1. CASE signIns[s] = Nil
    BY <2>1, <1>1 DEF SignInFits
  <2>2. CASE signIns[s] # Nil
    <3>1. signIns[s] \in SignInRows /\ SignInFits(signIns[s])
      BY <2>2, <1>2 DEF OAuthInv, SignInsHold
    <3>2. signIns'[s] = [signIns[s] EXCEPT !.at = "spent"]
      BY <2>2, <1>1
    <3>3. signIns'[s] \in SignInRows /\ SignInFits(signIns'[s])
      BY <3>1, <3>2, SpentFits
    <3>4. /\ signIns'[s].at = "spent" /\ signIns'[s].client = signIns[s].client
          /\ signIns'[s].redirect = signIns[s].redirect /\ signIns'[s].resource = signIns[s].resource
          /\ signIns'[s].granted = signIns[s].granted
      BY <3>1, <3>2 DEF SignInRows
    <3> QED BY <3>3, <3>4
  <2> QED BY <2>1, <2>2
<1>4. /\ signIns' \in [SignIns -> SignInRows \cup {Nil}] /\ SignInsHold'
  <2>1. DOMAIN signIns' = SignIns /\ signIns' = [s \in SignIns |-> signIns'[s]]
    BY <1>1
  <2>2. \A s \in SignIns : signIns'[s] \in SignInRows \cup {Nil}
    BY <1>3
  <2>3. signIns' \in [SignIns -> SignInRows \cup {Nil}]
    BY <2>1, <2>2
  <2> QED BY <1>3, <2>3 DEF SignInsHold
<1>5. GrantShape'
  BY <1>1, <1>4 DEF OAuthInv, GrantShape
<1>6. ClientsHold' /\ GrantsAreFew'
  BY <1>1 DEF OAuthInv, ClientsHold, GrantsAreFew
<1>7. HandsHold' /\ EndsHold' /\ GrantsHold' /\ SavedHold'
  <2>1. \A s \in SignIns :
           /\ GrantFits(s, grants'[s], handed, signIns, minted, grantTime, grantsEnded, doubt)
           /\ GrantFits(s, remoteFile'.grants[s], handed, signIns, minted, grantTime, grantsEnded, doubt)
    BY <1>1, GrantsWere
  <2>2. grantTime' \in Moments /\ grantTime <= grantTime'
    BY <1>1 DEF OAuthInv, GrantShape
  <2> QED BY <2>1, <2>2, <1>1, <1>3, GrantsStand
<1> QED BY <1>4, <1>5, <1>6, <1>7 DEF OAuthInv

\* A token is used.
LEMMA BearerGoesOn ==
  ASSUME OAuthInv, NEW t \in Tokens, NEW r \in ResourceSet, Connectors!Bearer(t, r)
  PROVE  OAuthInv'
<1> USE GrantSets
<1>1. /\ UNCHANGED <<document, cached, signIns, clients, remoteFile, minted, handed, grantsEnded, doubt, clientsTold,
                      grantTime>>
  BY DEF Connectors!Bearer, Connectors!asked
<1>2. PICK s \in SignIns : grants[s] # Nil /\ grants' = [grants EXCEPT ![s].used = grantTime]
  BY DEF Connectors!Bearer, Connectors!Answer
<1>3. /\ grants \in [SignIns -> GrantRows \cup {Nil}] /\ remoteFile.grants \in [SignIns -> GrantRows \cup {Nil}]
      /\ signIns \in [SignIns -> SignInRows \cup {Nil}] /\ handed \in [Tokens -> HandRows \cup {Nil}]
      /\ minted \in Nat /\ grantTime \in Moments /\ SignInsHold
  BY DEF OAuthInv, GrantShape
<1> DEFINE g == [grants[s] EXCEPT !.used = grantTime]
<1>4. /\ g \in GrantRows /\ GrantFits(s, g, handed, signIns, minted, grantTime, grantsEnded, doubt)
  BY <1>2, <1>3, GrantsWere, GrantIsUsed
<1>5. grants' = [grants EXCEPT ![s] = g]
  BY <1>2, <1>3
<1> HIDE DEF g
<1>6. /\ grants' \in [SignIns -> GrantRows \cup {Nil}] /\ grants'[s] = g
      /\ \A x \in SignIns : x # s => grants'[x] = grants[x]
  BY <1>3, <1>4, <1>5
<1>7. GrantsAreFew'
  <2>1. {x \in SignIns : grants'[x] # Nil} = {x \in SignIns : grants[x] # Nil}
    BY <1>2, <1>4, <1>6
  <2> QED BY <2>1, <1>1 DEF OAuthInv, GrantsAreFew
<1>8. \A x \in SignIns :
        /\ GrantFits(x, grants'[x], handed, signIns, minted, grantTime, grantsEnded, doubt)
        /\ GrantFits(x, remoteFile'.grants[x], handed, signIns, minted, grantTime, grantsEnded, doubt)
  BY <1>1, <1>4, <1>6, GrantsWere
<1>9. SignInsHold'
  BY <1>1, <1>3 DEF SignInsHold
<1> QED BY <1>1, <1>3, <1>6, <1>7, <1>8, <1>9, QuietStep

\* The grants are listed.
LEMMA ListGoesOn ==
  ASSUME OAuthInv, Connectors!ListGrants
  PROVE  OAuthInv'
<1>1. /\ UNCHANGED <<document, cached, signIns, clients, remoteFile, minted, handed, grantsEnded, doubt, clientsTold,
                      grantTime>>
      /\ grants' = Connectors!KeptGrants
  BY DEF Connectors!ListGrants, Connectors!asked
<1>2. /\ remoteFile.grants \in [SignIns -> GrantRows \cup {Nil}] /\ signIns \in [SignIns -> SignInRows \cup {Nil}]
  BY DEF OAuthInv, GrantShape
<1>3. SignInsHold' /\ GrantsAreFew'
  BY <1>1, KeptFit DEF OAuthInv, SignInsHold, GrantsAreFew
<1>4. \A x \in SignIns :
        /\ GrantFits(x, grants'[x], handed, signIns, minted, grantTime, grantsEnded, doubt)
        /\ GrantFits(x, remoteFile'.grants[x], handed, signIns, minted, grantTime, grantsEnded, doubt)
  BY <1>1, KeptFit, GrantsWere
<1>5. grants' \in [SignIns -> GrantRows \cup {Nil}]
  BY <1>1, KeptFit
<1> QED BY <1>1, <1>2, <1>3, <1>4, <1>5, QuietStep

\* As many grants as before, or fewer.
LEMMA NoMoreGrants ==
  ASSUME NEW f, NEW h, \A x \in SignIns : f[x] # Nil => h[x] # Nil,
         Cardinality({x \in SignIns : h[x] # Nil}) <= MAX_GRANTS
  PROVE  Cardinality({x \in SignIns : f[x] # Nil}) <= MAX_GRANTS
<1> USE GrantSets
<1>1. {x \in SignIns : f[x] # Nil} \subseteq {x \in SignIns : h[x] # Nil}
  OBVIOUS
<1>2. IsFiniteSet({x \in SignIns : h[x] # Nil}) /\ IsFiniteSet({x \in SignIns : f[x] # Nil})
  BY FS_Subset
<1>3. /\ Cardinality({x \in SignIns : f[x] # Nil}) <= Cardinality({x \in SignIns : h[x] # Nil})
      /\ Cardinality({x \in SignIns : f[x] # Nil}) \in Nat /\ Cardinality({x \in SignIns : h[x] # Nil}) \in Nat
  BY <1>1, <1>2, FS_Subset, FS_CardinalityType
<1> QED BY <1>3

\* One more, where there is room.
LEMMA OneMoreGrant ==
  ASSUME NEW f, NEW h, NEW s \in SignIns, \A x \in SignIns : x # s => f[x] = h[x],
         Cardinality({x \in SignIns : h[x] # Nil}) < MAX_GRANTS
  PROVE  Cardinality({x \in SignIns : f[x] # Nil}) <= MAX_GRANTS
<1> USE GrantSets
<1> DEFINE H == {x \in SignIns : h[x] # Nil}
           F == {x \in SignIns : f[x] # Nil}
<1>1. F \subseteq H \cup {s}
  OBVIOUS
<1>2. IsFiniteSet(H) /\ IsFiniteSet(F) /\ Cardinality(H) \in Nat
  BY FS_Subset, FS_CardinalityType
<1>3. IsFiniteSet(H \cup {s}) /\ Cardinality(H \cup {s}) \in Nat /\ Cardinality(H \cup {s}) <= Cardinality(H) + 1
  <2>1. IsFiniteSet(H \cup {s})
    BY <1>2, FS_AddElement
  <2>2. Cardinality(H \cup {s}) = IF s \in H THEN Cardinality(H) ELSE Cardinality(H) + 1
    BY <1>2, FS_AddElement
  <2> HIDE DEF H, F
  <2> QED BY <2>1, <2>2, <1>2
<1>4. Cardinality(F) <= Cardinality(H \cup {s}) /\ Cardinality(F) \in Nat
  BY <1>1, <1>2, <1>3, FS_Subset, FS_CardinalityType
<1>5. Cardinality(H) < MAX_GRANTS
  OBVIOUS
<1> HIDE DEF H, F
<1>6. Cardinality(F) <= MAX_GRANTS
  BY <1>2, <1>3, <1>4, <1>5
<1> QED BY <1>6 DEF F

\* A token that is handed out is new, and the others are as they were.
LEMMA HandIsGiven ==
  ASSUME OAuthInv, UNCHANGED grantTime, NEW s \in SignIns, NEW c \in Clients, minted < MaxTokens, minted' = minted + 1,
         handed' = [handed EXCEPT ![minted + 1] = [of |-> s, client |-> c, verifier |-> s, at |-> grantTime]],
         signIns'[s] # Nil, signIns'[s].at = "spent", signIns'[s].client = c,
         \A r \in SignIns : signIns[r] # Nil /\ signIns[r].at = "spent" =>
           /\ signIns'[r] # Nil /\ signIns'[r].at = "spent" /\ signIns'[r].client = signIns[r].client
  PROVE  /\ minted' \in 0 .. MaxTokens /\ minted + 1 \in Tokens /\ handed' \in [Tokens -> HandRows \cup {Nil}]
         /\ HandsHold' /\ \A x \in Tokens : handed[x] # Nil => x <= minted /\ handed[x].at <= grantTime
         /\ handed'[minted + 1] # Nil /\ handed'[minted + 1].of = s /\ handed'[minted + 1].at = grantTime
         /\ \A x \in Tokens : x # minted + 1 => handed'[x] = handed[x]
         /\ \A x \in Tokens : handed[x] # Nil => handed'[x] = handed[x]
<1> USE GrantSets
<1>1. /\ handed \in [Tokens -> HandRows \cup {Nil}] /\ minted \in Nat /\ grantTime \in Moments /\ grantTime \in Nat
  BY DEF OAuthInv, GrantShape
<1>2. minted' \in 0 .. MaxTokens /\ minted + 1 \in Tokens
  BY <1>1 DEF Tokens
<1> DEFINE new == [of |-> s, client |-> c, verifier |-> s, at |-> grantTime]
<1>3. new \in HandRows /\ new # Nil /\ new.of = s /\ new.client = c /\ new.verifier = s /\ new.at = grantTime
  BY <1>1 DEF HandRows
<1>4. handed' = [handed EXCEPT ![minted + 1] = new]
  OBVIOUS
<1> HIDE DEF new
<1>5. /\ handed' \in [Tokens -> HandRows \cup {Nil}] /\ handed'[minted + 1] = new
      /\ \A x \in Tokens : x # minted + 1 => handed'[x] = handed[x]
  BY <1>1, <1>2, <1>3, <1>4
<1>6. \A x \in Tokens : HandFits(x, handed, signIns, minted, grantTime)
  BY DEF OAuthInv, HandsHold
<1>7. \A x \in Tokens : handed[x] # Nil => x <= minted /\ handed[x].at <= grantTime /\ handed[x].of \in SignIns
  BY <1>6 DEF HandFits, HandRows
<1>8. \A x \in Tokens : handed[x] # Nil => x # minted + 1
  BY <1>1, <1>7
<1>9. ASSUME NEW x \in Tokens
      PROVE  HandFits(x, handed', signIns', minted + 1, grantTime)
  <2>1. CASE x = minted + 1
    BY <2>1, <1>1, <1>3, <1>5 DEF HandFits
  <2>2. CASE x # minted + 1
    <3> SUFFICES ASSUME handed[x] # Nil PROVE HandFits(x, handed', signIns', minted + 1, grantTime)
      BY <2>2, <1>5 DEF HandFits
    <3>1. /\ handed[x] \in HandRows /\ handed[x].of \in SignIns /\ signIns[handed[x].of] # Nil
          /\ signIns[handed[x].of].at = "spent" /\ handed[x].client = signIns[handed[x].of].client
          /\ handed[x].verifier = handed[x].of /\ x <= minted /\ handed[x].at <= grantTime
      BY <1>6, <1>7 DEF HandFits
    <3>2. x <= minted + 1
      BY <3>1, <1>1
    <3>3. handed'[x] = handed[x]
      BY <2>2, <1>5
    <3> QED BY <3>1, <3>2, <3>3 DEF HandFits
  <2> QED BY <2>1, <2>2
<1>10. HandsHold'
  BY <1>9 DEF HandsHold
<1> QED BY <1>2, <1>3, <1>5, <1>7, <1>8, <1>10

\* Grants are revoked.
LEMMA RevokeGoesOn ==
  ASSUME OAuthInv, NEW which \in SUBSET SignIns, Connectors!Revoke(which)
  PROVE  OAuthInv'
<1> USE GrantSets
<1>1. /\ UNCHANGED <<document, cached, signIns, clients, minted, handed, clientsTold, grantTime>>
      /\ \A s \in which : grants[s] # Nil
      /\ grants' = [s \in SignIns |-> IF s \in which THEN Nil ELSE grants[s]]
      /\ remoteFile' = [clients |-> clients, grants |-> grants']
      /\ grantsEnded' = grantsEnded \cup which /\ doubt' = doubt \ which
  BY DEF Connectors!Revoke, Connectors!asked, Connectors!Of
<1>2. /\ grants \in [SignIns -> GrantRows \cup {Nil}] /\ signIns \in [SignIns -> SignInRows \cup {Nil}]
      /\ handed \in [Tokens -> HandRows \cup {Nil}] /\ minted \in 0 .. MaxTokens /\ minted \in Nat
      /\ grantTime \in Nat /\ grantsEnded \subseteq SignIns /\ doubt \subseteq SignIns
      /\ SignInsHold /\ HandsHold
  BY DEF OAuthInv, GrantShape
<1>3. /\ grants' \in [SignIns -> GrantRows \cup {Nil}] /\ remoteFile'.grants = grants' /\ remoteFile'.clients = clients
      /\ \A s \in SignIns : grants'[s] = IF s \in which THEN Nil ELSE grants[s]
  BY <1>1, <1>2
<1>4. SignInsHold' /\ HandsHold'
  BY <1>1, <1>2 DEF SignInsHold, HandsHold
<1>5. EndsHold'
  <2>1. \A s \in which : signIns[s] # Nil /\ signIns[s].at = "spent"
    BY <1>1, GrantsWere DEF GrantFits
  <2>2. \A s \in grantsEnded \cup doubt : signIns[s] # Nil /\ signIns[s].at = "spent"
    BY DEF OAuthInv, EndsHold
  <2>3. \A s \in grantsEnded' \cup doubt' : signIns'[s] # Nil /\ signIns'[s].at = "spent"
    BY <2>1, <2>2, <1>1
  <2> QED BY <2>3 DEF EndsHold
<1>6. ASSUME NEW s \in SignIns
      PROVE  GrantFits(s, grants'[s], handed, signIns, minted, grantTime, grantsEnded', doubt')
  <2>1. CASE s \in which
    BY <2>1, <1>1, <1>3 DEF GrantFits
  <2>2. CASE s \notin which
    <3>1. GrantFits(s, grants[s], handed, signIns, minted, grantTime, grantsEnded, doubt)
      BY GrantsWere
    <3>2. (s \in grantsEnded' <=> s \in grantsEnded) /\ (s \in doubt' <=> s \in doubt)
      BY <2>2, <1>1
    <3>3. grants'[s] = grants[s]
      BY <2>2, <1>3
    <3>4. grants[s] # Nil => signIns[s] # Nil
      BY <3>1 DEF GrantFits
    <3>5. minted <= minted /\ grantTime <= grantTime
      BY <1>2
    <3>6. GrantFits(s, grants[s], handed, signIns, minted, grantTime, grantsEnded', doubt')
      BY <3>1, <3>2, <3>4, <3>5, <1>2, GrantStays, Zenon
    <3> QED BY <3>3, <3>6
  <2> QED BY <2>1, <2>2
<1>7. GrantsHold' /\ SavedHold'
  BY <1>1, <1>3, <1>6 DEF GrantsHold, SavedHold
<1>8. GrantsAreFew'
  <2>1. \A x \in SignIns : grants'[x] # Nil => grants[x] # Nil
    BY <1>3
  <2>2. Cardinality({x \in SignIns : grants'[x] # Nil}) <= MAX_GRANTS
    BY <2>1, NoMoreGrants DEF OAuthInv, GrantsAreFew
  <2> QED BY <2>2, <1>3 DEF GrantsAreFew
<1>9. grantsEnded' \subseteq SignIns /\ doubt' \subseteq SignIns
  BY <1>1, <1>2
<1> QED BY <1>1, <1>2, <1>3, <1>4, <1>5, <1>7, <1>8, <1>9, GrantStep

\* A grant the step is not about, when a token is handed out for another.
LEMMA OtherStays ==
  ASSUME OAuthInv, NEW s \in SignIns, NEW x \in SignIns, x # s, NEW g,
         GrantFits(x, g, handed, signIns, minted, grantTime, grantsEnded, doubt),
         minted' \in {minted, minted + 1}, handed' \in [Tokens -> HandRows \cup {Nil}], UNCHANGED grantTime,
         x \in grantsEnded' <=> x \in grantsEnded, x \in doubt' <=> x \in doubt, signIns'[x] = signIns[x],
         \A y \in Tokens : handed[y] # Nil => handed'[y] = handed[y],
         \A y \in Tokens : handed'[y] = handed[y] \/ (y = minted + 1 /\ handed'[y] # Nil /\ handed'[y].of = s)
  PROVE  GrantFits(x, g, handed', signIns', minted', grantTime', grantsEnded', doubt')
<1>1. /\ handed \in [Tokens -> HandRows \cup {Nil}] /\ minted \in Nat /\ grantTime \in Nat /\ minted' \in Nat
      /\ minted <= minted' /\ grantTime <= grantTime'
  BY GrantSets DEF OAuthInv, GrantShape
<1>2. g # Nil => signIns[x] # Nil
  BY DEF GrantFits
<1>3. \A y \in Tokens : handed'[y] = handed[y] \/ (y = minted + 1 /\ handed'[y] # Nil /\ handed'[y].of # x)
  OBVIOUS
<1>4. g # Nil => /\ signIns'[x] # Nil /\ signIns'[x].at = signIns[x].at /\ signIns'[x].client = signIns[x].client
                 /\ signIns'[x].redirect = signIns[x].redirect /\ signIns'[x].resource = signIns[x].resource
                 /\ signIns'[x].granted = signIns[x].granted
  BY <1>2
<1>5. grantTime' \in Nat
  BY <1>1
<1> QED BY <1>1, <1>3, <1>4, <1>5, GrantStays

\* A code that was presented as it was given.
LEMMA CodeIsTraded ==
  ASSUME OAuthInv, UNCHANGED <<clients, document, cached, grantsEnded, doubt, clientsTold, grantTime>>,
         NEW s \in SignIns, signIns[s] # Nil, signIns[s].at = "code", minted < MaxTokens,
         signIns' = [signIns EXCEPT ![s].at = "spent"],
         NEW g, g = [client |-> signIns[s].client, redirect |-> signIns[s].redirect, scopes |-> signIns[s].granted,
                     resource |-> signIns[s].resource, token |-> minted + 1, prev |-> 0, expires |-> grantTime + ACCESS,
                     created |-> grantTime, used |-> 0],
         Cardinality({x \in SignIns : Connectors!KeptGrants[x] # Nil}) < MAX_GRANTS,
         grants' = [Connectors!KeptGrants EXCEPT ![s] = g],
         remoteFile' = [clients |-> clients, grants |-> grants'], minted' = minted + 1,
         handed' = [handed EXCEPT ![minted + 1] = [of |-> s, client |-> signIns[s].client, verifier |-> s,
                                                   at |-> grantTime]]
  PROVE  OAuthInv'
<1> USE GrantSets
<1>1. /\ signIns' \in [SignIns -> SignInRows \cup {Nil}] /\ SignInsHold' /\ signIns[s] \in SignInRows
      /\ signIns'[s] # Nil /\ signIns'[s].at = "spent" /\ signIns'[s].client = signIns[s].client
      /\ signIns'[s].redirect = signIns[s].redirect /\ signIns'[s].resource = signIns[s].resource
      /\ signIns'[s].granted = signIns[s].granted
      /\ \A r \in SignIns : r # s => signIns'[r] = signIns[r]
  BY CodeIsSpent
<1>2. /\ handed \in [Tokens -> HandRows \cup {Nil}] /\ minted \in 0 .. MaxTokens /\ minted \in Nat
      /\ grantTime \in Moments /\ grantTime \in Nat /\ grantsEnded \subseteq SignIns /\ doubt \subseteq SignIns
  BY DEF OAuthInv, GrantShape
<1>3. signIns[s].client \in Clients
  BY <1>1 DEF SignInRows
<1>4. \A r \in SignIns : signIns[r] # Nil /\ signIns[r].at = "spent" =>
           /\ signIns'[r] # Nil /\ signIns'[r].at = "spent" /\ signIns'[r].client = signIns[r].client
  BY <1>1
<1>5. /\ minted' \in 0 .. MaxTokens /\ minted + 1 \in Tokens /\ handed' \in [Tokens -> HandRows \cup {Nil}]
      /\ HandsHold' /\ \A x \in Tokens : handed[x] # Nil => x <= minted /\ handed[x].at <= grantTime
      /\ handed'[minted + 1] # Nil /\ handed'[minted + 1].of = s /\ handed'[minted + 1].at = grantTime
      /\ \A x \in Tokens : x # minted + 1 => handed'[x] = handed[x]
      /\ \A x \in Tokens : handed[x] # Nil => handed'[x] = handed[x]
  BY <1>1, <1>3, <1>4, HandIsGiven
<1>6. /\ g \in GrantRows /\ g.token = minted + 1 /\ g.expires = grantTime + ACCESS /\ g.created = grantTime /\ g.used = 0
      /\ g.client = signIns[s].client /\ g.redirect = signIns[s].redirect /\ g.resource = signIns[s].resource
      /\ g.scopes = signIns[s].granted
  <2>1. /\ signIns[s].redirect \in URIs /\ signIns[s].granted \in SUBSET Scopes /\ signIns[s].resource \in ResourceSet
    BY <1>1 DEF SignInRows
  <2>2. grantTime + ACCESS \in Nat /\ 0 \in Moments
    BY <1>2 DEF Moments
  <2> QED BY <2>1, <2>2, <1>2, <1>3, <1>5 DEF GrantRows
<1>7. Connectors!Later(g.used, g.created) = grantTime /\ g.created <= grantTime /\ g.used <= grantTime
  BY <1>2, <1>6 DEF Connectors!Later
<1>8. s \notin grantsEnded
  BY DEF OAuthInv, EndsHold
<1>9. GrantFits(s, g, handed', signIns', minted', grantTime', grantsEnded', doubt')
  <2>1. GrantFits(s, g, handed', signIns', minted + 1, grantTime, grantsEnded, doubt)
    BY <1>1, <1>2, <1>5, <1>6, <1>7, <1>8, GrantIsHanded
  <2> QED BY <2>1
<1>10. Connectors!KeptGrants \in [SignIns -> GrantRows \cup {Nil}]
  BY KeptFit
<1>11. /\ grants' \in [SignIns -> GrantRows \cup {Nil}] /\ grants'[s] = g
       /\ \A x \in SignIns : x # s => grants'[x] = Connectors!KeptGrants[x]
  BY <1>6, <1>10
<1>12. ASSUME NEW x \in SignIns
       PROVE  GrantFits(x, grants'[x], handed', signIns', minted', grantTime', grantsEnded', doubt')
  <2>1. CASE x = s
    BY <2>1, <1>9, <1>11
  <2>2. CASE x # s
    <3>1. GrantFits(x, Connectors!KeptGrants[x], handed, signIns, minted, grantTime, grantsEnded, doubt)
      BY KeptFit
    <3>2. \A y \in Tokens : handed'[y] = handed[y] \/ (y = minted + 1 /\ handed'[y] # Nil /\ handed'[y].of = s)
      BY <1>5
    <3>3. signIns'[x] = signIns[x] /\ (x \in grantsEnded' <=> x \in grantsEnded) /\ (x \in doubt' <=> x \in doubt)
          /\ minted' \in {minted, minted + 1}
      BY <2>2, <1>1
    <3>4. GrantFits(x, Connectors!KeptGrants[x], handed', signIns', minted', grantTime', grantsEnded', doubt')
      BY <2>2, <3>1, <3>2, <3>3, <1>5, OtherStays
    <3> QED BY <2>2, <3>4, <1>11
  <2> QED BY <2>1, <2>2
<1>13. remoteFile'.grants = grants' /\ remoteFile'.clients = clients
  OBVIOUS
<1>14. GrantsHold' /\ SavedHold'
  BY <1>12, <1>13 DEF GrantsHold, SavedHold
<1>15. EndsHold'
  BY <1>1, <1>2 DEF OAuthInv, EndsHold
<1>16. GrantsAreFew'
  <2>1. Cardinality({x \in SignIns : grants'[x] # Nil}) <= MAX_GRANTS
    BY <1>11, OneMoreGrant
  <2> QED BY <2>1, <1>13 DEF GrantsAreFew
<1> QED BY <1>1, <1>2, <1>5, <1>11, <1>13, <1>14, <1>15, <1>16, GrantStep

\* A code is presented.
LEMMA ExchangeGoesOn ==
  ASSUME OAuthInv, NEW s \in SignIns, NEW v \in SignIns, NEW c \in Clients, NEW u, NEW r, NEW saved \in BOOLEAN,
         Connectors!Exchange(s, c, u, v, r, saved)
  PROVE  OAuthInv'
<1> USE GrantSets
<1>1. /\ UNCHANGED <<clients, document, cached, grantsEnded, doubt, clientsTold, grantTime>>
      /\ signIns[s] # Nil /\ signIns[s].at = "code" /\ minted < MaxTokens
      /\ signIns' = [signIns EXCEPT ![s].at = "spent"]
  BY DEF Connectors!Exchange
<1>2. /\ signIns' \in [SignIns -> SignInRows \cup {Nil}] /\ SignInsHold'
      /\ \A x \in SignIns : x # s => signIns'[x] = signIns[x]
  BY <1>1, CodeIsSpent
<1>3. \A x \in SignIns : signIns[x] # Nil /\ signIns[x].at = "spent" =>
           /\ signIns'[x] # Nil /\ signIns'[x].at = "spent" /\ signIns'[x].client = signIns[x].client
           /\ signIns'[x].redirect = signIns[x].redirect /\ signIns'[x].resource = signIns[x].resource
           /\ signIns'[x].granted = signIns[x].granted
  BY <1>1, <1>2
<1>4. remoteFile.grants \in [SignIns -> GrantRows \cup {Nil}] /\ grants \in [SignIns -> GrantRows \cup {Nil}]
  BY DEF OAuthInv, GrantShape
<1> DEFINE code == signIns[s]
           given == [client |-> c, redirect |-> code.redirect, scopes |-> Connectors!Normal(code.granted),
                     resource |-> code.resource, token |-> 0, prev |-> 0, expires |-> 0, created |-> grantTime, used |-> 0]
           all == [Connectors!KeptGrants EXCEPT ![s] = Connectors!Minted(given)]
<1>5. \/ UNCHANGED <<grants, remoteFile, minted, handed>>
      \/ grants' = Connectors!KeptGrants /\ UNCHANGED <<remoteFile, minted, handed>>
      \/ /\ code.client = c /\ v = s
         /\ Cardinality({x \in SignIns : Connectors!KeptGrants[x] # Nil}) < MAX_GRANTS
         /\ grants' = all /\ remoteFile' = [clients |-> clients, grants |-> all] /\ minted' = minted + 1
         /\ handed' = [handed EXCEPT ![minted + 1] = [of |-> s, client |-> c, verifier |-> v, at |-> grantTime]]
  <2>1. Connectors!Cardinality({x \in SignIns : Connectors!KeptGrants[x] # Nil})
          = Cardinality({x \in SignIns : Connectors!KeptGrants[x] # Nil})
    BY SameCount
  <2> QED BY <2>1 DEF Connectors!Exchange, Connectors!Of, Connectors!Hand, Connectors!Matches
<1>6. CASE UNCHANGED <<grants, remoteFile, minted, handed>>
  <2>1. \A x \in SignIns :
          /\ GrantFits(x, grants'[x], handed, signIns, minted, grantTime, grantsEnded, doubt)
          /\ GrantFits(x, remoteFile'.grants[x], handed, signIns, minted, grantTime, grantsEnded, doubt)
    BY <1>6, GrantsWere
  <2>2. GrantsAreFew'
    BY <1>6 DEF OAuthInv, GrantsAreFew
  <2> QED BY <1>1, <1>2, <1>3, <1>4, <1>6, <2>1, <2>2, QuietStep
<1>7. CASE grants' = Connectors!KeptGrants /\ UNCHANGED <<remoteFile, minted, handed>>
  <2>1. \A x \in SignIns :
          /\ GrantFits(x, grants'[x], handed, signIns, minted, grantTime, grantsEnded, doubt)
          /\ GrantFits(x, remoteFile'.grants[x], handed, signIns, minted, grantTime, grantsEnded, doubt)
    BY <1>7, KeptFit, GrantsWere
  <2>2. GrantsAreFew' /\ grants' \in [SignIns -> GrantRows \cup {Nil}]
    BY <1>7, KeptFit DEF OAuthInv, GrantsAreFew
  <2> QED BY <1>1, <1>2, <1>3, <1>4, <1>7, <2>1, <2>2, QuietStep
<1>8. CASE /\ code.client = c /\ v = s
           /\ Cardinality({x \in SignIns : Connectors!KeptGrants[x] # Nil}) < MAX_GRANTS
           /\ grants' = all /\ remoteFile' = [clients |-> clients, grants |-> all] /\ minted' = minted + 1
           /\ handed' = [handed EXCEPT ![minted + 1] = [of |-> s, client |-> c, verifier |-> v, at |-> grantTime]]
  <2>1. Connectors!Normal(code.granted) = code.granted
    <3>1. Normalised(code.granted)
      BY <1>1 DEF OAuthInv, SignInsHold, SignInFits
    <3> QED BY <3>1 DEF Normalised, Connectors!Normal
  <2>2. Connectors!Minted(given) =
          [client |-> code.client, redirect |-> code.redirect, scopes |-> code.granted, resource |-> code.resource,
           token |-> minted + 1, prev |-> 0, expires |-> grantTime + ACCESS, created |-> grantTime, used |-> 0]
    <3>1. Connectors!Minted(given) = [given EXCEPT !.token = minted + 1, !.prev = given.token,
                                                   !.expires = grantTime + ACCESS]
      BY DEF Connectors!Minted
    <3>2. given = [client |-> code.client, redirect |-> code.redirect, scopes |-> code.granted,
                   resource |-> code.resource, token |-> 0, prev |-> 0, expires |-> 0, created |-> grantTime, used |-> 0]
      BY <2>1, <1>8
    <3> HIDE DEF given, code
    <3> QED BY <3>1, <3>2
  <2>3. /\ grants' = [Connectors!KeptGrants EXCEPT ![s] =
             [client |-> code.client, redirect |-> code.redirect, scopes |-> code.granted, resource |-> code.resource,
              token |-> minted + 1, prev |-> 0, expires |-> grantTime + ACCESS, created |-> grantTime, used |-> 0]]
        /\ remoteFile' = [clients |-> clients, grants |-> grants']
    BY <2>2, <1>8
  <2> QED BY <2>3, <1>1, <1>8, CodeIsTraded
<1> QED BY <1>5, <1>6, <1>7, <1>8

\* What is kept is not too many.
LEMMA KeptAreFew ==
  ASSUME OAuthInv, \A x \in SignIns : grants'[x] # Nil => Connectors!KeptGrants[x] # Nil
  PROVE  Cardinality({x \in SignIns : grants'[x] # Nil}) <= MAX_GRANTS
<1> DEFINE F == {x \in SignIns : grants'[x] # Nil}
           H == {x \in SignIns : Connectors!KeptGrants[x] # Nil}
<1>1. Cardinality(H) <= MAX_GRANTS
  BY KeptFit
<1>2. F \subseteq H /\ F \subseteq SignIns /\ H \subseteq SignIns
  OBVIOUS
<1> HIDE DEF F, H
<1>3. IsFiniteSet(H) /\ IsFiniteSet(F)
  BY <1>2, GrantSets, FS_Subset
<1>4. Cardinality(F) <= Cardinality(H) /\ Cardinality(F) \in Nat /\ Cardinality(H) \in Nat
  BY <1>2, <1>3, FS_Subset, FS_CardinalityType
<1>5. Cardinality(F) <= MAX_GRANTS
  BY <1>1, <1>4, GrantSets
<1> QED BY <1>5 DEF F

\* A refresh that turns or ends the grant of s: what becomes of it in memory and on
\* disk, the others being what is kept.
LEMMA GrantTurns ==
  ASSUME OAuthInv, UNCHANGED <<document, cached, signIns, clients, clientsTold, grantTime>>,
         NEW s \in SignIns, Connectors!KeptGrants[s] # Nil,
         NEW g \in GrantRows \cup {Nil}, grants' = [Connectors!KeptGrants EXCEPT ![s] = g],
         \/ remoteFile' = [clients |-> clients, grants |-> grants']
         \/ remoteFile' = remoteFile /\ doubt' = doubt \cup {s} /\ handed' = handed,
         doubt' \in {doubt, doubt \cup {s}}, grantsEnded' \in {grantsEnded, grantsEnded \cup {s}},
         minted' \in {minted, minted + 1}, minted' \in 0 .. MaxTokens,
         handed' \in [Tokens -> HandRows \cup {Nil}], HandsHold',
         \A y \in Tokens : handed[y] # Nil => handed'[y] = handed[y],
         \A y \in Tokens : handed'[y] = handed[y] \/ (y = minted + 1 /\ handed'[y] # Nil /\ handed'[y].of = s),
         GrantFits(s, g, handed', signIns, minted', grantTime, grantsEnded', doubt')
  PROVE  OAuthInv'
<1> USE GrantSets
<1>1. /\ handed \in [Tokens -> HandRows \cup {Nil}] /\ minted \in Nat /\ minted' \in Nat /\ minted <= minted'
      /\ grantTime \in Nat /\ grantsEnded \subseteq SignIns /\ doubt \subseteq SignIns
      /\ signIns \in [SignIns -> SignInRows \cup {Nil}] /\ remoteFile.grants \in [SignIns -> GrantRows \cup {Nil}]
      /\ SignInsHold
  BY DEF OAuthInv, GrantShape
<1>2. Connectors!KeptGrants \in [SignIns -> GrantRows \cup {Nil}]
  BY KeptFit
<1>3. /\ grants' \in [SignIns -> GrantRows \cup {Nil}] /\ grants'[s] = g
      /\ \A x \in SignIns : x # s => grants'[x] = Connectors!KeptGrants[x]
  BY <1>2
<1>4. ASSUME NEW x \in SignIns, x # s, NEW f, GrantFits(x, f, handed, signIns, minted, grantTime, grantsEnded, doubt)
      PROVE  GrantFits(x, f, handed', signIns', minted', grantTime', grantsEnded', doubt')
  <2>1. (x \in grantsEnded' <=> x \in grantsEnded) /\ (x \in doubt' <=> x \in doubt) /\ signIns'[x] = signIns[x]
    BY <1>4
  <2> QED BY <2>1, <1>4, OtherStays
<1>5. ASSUME NEW x \in SignIns
      PROVE  GrantFits(x, grants'[x], handed', signIns', minted', grantTime', grantsEnded', doubt')
  <2>1. CASE x = s
    BY <2>1, <1>3
  <2>2. CASE x # s
    <3>1. GrantFits(x, Connectors!KeptGrants[x], handed, signIns, minted, grantTime, grantsEnded, doubt)
      BY KeptFit
    <3> QED BY <2>2, <3>1, <1>3, <1>4
  <2> QED BY <2>1, <2>2
<1>6. ASSUME NEW x \in SignIns
      PROVE  GrantFits(x, remoteFile'.grants[x], handed', signIns', minted', grantTime', grantsEnded', doubt')
  <2>1. CASE remoteFile' = [clients |-> clients, grants |-> grants']
    <3>1. remoteFile'.grants = grants'
      BY <2>1
    <3> QED BY <3>1, <1>5
  <2>2. CASE remoteFile' = remoteFile /\ doubt' = doubt \cup {s} /\ handed' = handed
    <3>1. GrantFits(x, remoteFile.grants[x], handed, signIns, minted, grantTime, grantsEnded, doubt)
      BY GrantsWere
    <3>2. CASE x = s
      <4>1. x \in doubt' /\ handed' = handed
        BY <2>2, <3>2
      <4>2. GrantFits(x, remoteFile.grants[x], handed, signIns, minted', grantTime, grantsEnded', doubt')
        BY <3>1, <4>1, <1>1, GrantIsLeft
      <4> QED BY <2>2, <4>1, <4>2
    <3>3. CASE x # s
      <4>1. GrantFits(x, remoteFile.grants[x], handed', signIns', minted', grantTime', grantsEnded', doubt')
        BY <3>1, <3>3, <1>4
      <4> QED BY <2>2, <4>1
    <3> QED BY <3>2, <3>3
  <2> QED BY <2>1, <2>2
<1>7. GrantsHold' /\ SavedHold'
  BY <1>5, <1>6 DEF GrantsHold, SavedHold
<1>8. EndsHold'
  <2>1. signIns[s] # Nil /\ signIns[s].at = "spent"
    BY KeptFit DEF GrantFits
  <2>2. \A x \in grantsEnded \cup doubt : signIns[x] # Nil /\ signIns[x].at = "spent"
    BY DEF OAuthInv, EndsHold
  <2>3. grantsEnded' \cup doubt' \subseteq grantsEnded \cup doubt \cup {s}
    OBVIOUS
  <2>4. \A x \in grantsEnded' \cup doubt' : signIns'[x] # Nil /\ signIns'[x].at = "spent"
    BY <2>1, <2>2, <2>3
  <2> QED BY <2>4 DEF EndsHold
<1>9. GrantsAreFew'
  <2>1. \A x \in SignIns : grants'[x] # Nil => Connectors!KeptGrants[x] # Nil
    BY <1>3
  <2>2. Cardinality({x \in SignIns : grants'[x] # Nil}) <= MAX_GRANTS
    BY <2>1, KeptAreFew
  <2>3. remoteFile'.grants = grants' \/ remoteFile'.grants = remoteFile.grants
    <3>1. CASE remoteFile' = [clients |-> clients, grants |-> grants']
      BY <3>1
    <3> QED BY <3>1
  <2>4. Cardinality({x \in SignIns : remoteFile.grants[x] # Nil}) <= MAX_GRANTS
    BY DEF OAuthInv, GrantsAreFew
  <2>5. Cardinality({x \in SignIns : remoteFile'.grants[x] # Nil}) <= MAX_GRANTS
    <3>1. CASE remoteFile'.grants = grants'
      BY <3>1, <2>2
    <3>2. CASE remoteFile'.grants = remoteFile.grants
      BY <3>2, <2>4
    <3> QED BY <2>3, <3>1, <3>2
  <2> QED BY <2>2, <2>5 DEF GrantsAreFew
<1>10. /\ remoteFile'.clients \in {clients, remoteFile.clients} /\ remoteFile'.grants \in [SignIns -> GrantRows \cup {Nil}]
  BY <1>1, <1>3
<1>11. /\ grantsEnded' \subseteq SignIns /\ doubt' \subseteq SignIns
       /\ signIns' \in [SignIns -> SignInRows \cup {Nil}] /\ SignInsHold'
  BY <1>1 DEF SignInsHold
<1> QED BY <1>3, <1>7, <1>8, <1>9, <1>10, <1>11, GrantStep

\* A refresh token is presented.
LEMMA GrantRefreshGoesOn ==
  ASSUME OAuthInv, NEW t \in Tokens, NEW c \in Clients, NEW saved \in BOOLEAN, Connectors!Refresh(t, c, saved)
  PROVE  OAuthInv'
<1> USE GrantSets
<1>1. UNCHANGED <<document, cached, signIns, clients, clientsTold, grantTime>>
  BY DEF Connectors!Refresh, Connectors!asked
<1>2. /\ handed \in [Tokens -> HandRows \cup {Nil}] /\ minted \in 0 .. MaxTokens /\ minted \in Nat
      /\ grantTime \in Moments /\ grantTime \in Nat
      /\ signIns \in [SignIns -> SignInRows \cup {Nil}] /\ remoteFile.grants \in [SignIns -> GrantRows \cup {Nil}]
      /\ SignInsHold /\ HandsHold
  BY DEF OAuthInv, GrantShape
<1>3. SignInsHold' /\ signIns' \in [SignIns -> SignInRows \cup {Nil}]
  BY <1>1, <1>2 DEF SignInsHold
<1> DEFINE kept == Connectors!KeptGrants
           renewed(s) == [Connectors!Minted(kept[s]) EXCEPT !.used = grantTime]
           turned(s) == [kept EXCEPT ![s] = renewed(s)]
           gone(s) == [kept EXCEPT ![s] = Nil]
<1>4. PICK s \in SignIns :
        /\ kept[s] # Nil
        /\ \/ grants' = kept /\ UNCHANGED <<remoteFile, minted, handed, grantsEnded, doubt>>
           \/ /\ c = kept[s].client /\ minted < MaxTokens /\ grants' = turned(s) /\ minted' = minted + 1
              /\ UNCHANGED grantsEnded
              /\ \/ /\ remoteFile' = [clients |-> clients, grants |-> turned(s)] /\ UNCHANGED doubt
                    /\ handed' = [handed EXCEPT ![minted + 1] = [of |-> s, client |-> c, verifier |-> s, at |-> grantTime]]
                 \/ UNCHANGED <<remoteFile, handed>> /\ doubt' = doubt \cup {s}
           \/ /\ grants' = gone(s) /\ grantsEnded' = grantsEnded \cup {s} /\ UNCHANGED <<minted, handed>>
              /\ \/ remoteFile' = [clients |-> clients, grants |-> gone(s)] /\ UNCHANGED doubt
                 \/ UNCHANGED remoteFile /\ doubt' = doubt \cup {s}
  <2>1. CASE saved = TRUE
    BY <2>1 DEF Connectors!Refresh, Connectors!Of, Connectors!Hand
  <2>2. CASE saved = FALSE
    BY <2>2 DEF Connectors!Refresh, Connectors!Of, Connectors!Hand
  <2> QED BY <2>1, <2>2
<1>5. /\ kept[s] \in GrantRows /\ kept[s] = grants[s] /\ kept \in [SignIns -> GrantRows \cup {Nil}]
      /\ GrantFits(s, kept[s], handed, signIns, minted, grantTime, grantsEnded, doubt)
      /\ signIns[s] # Nil /\ signIns[s].at = "spent"
  BY <1>4, KeptFit DEF GrantFits
<1>6. CASE grants' = kept /\ UNCHANGED <<remoteFile, minted, handed, grantsEnded, doubt>>
  <2>1. \A x \in SignIns :
          /\ GrantFits(x, grants'[x], handed, signIns, minted, grantTime, grantsEnded, doubt)
          /\ GrantFits(x, remoteFile'.grants[x], handed, signIns, minted, grantTime, grantsEnded, doubt)
    BY <1>6, KeptFit, GrantsWere
  <2>2. GrantsAreFew' /\ grants' \in [SignIns -> GrantRows \cup {Nil}]
    BY <1>6, KeptFit DEF OAuthInv, GrantsAreFew
  <2> QED BY <1>1, <1>2, <1>3, <1>6, <2>1, <2>2, QuietStep
<1>7. CASE /\ c = kept[s].client /\ minted < MaxTokens /\ grants' = turned(s) /\ minted' = minted + 1
           /\ UNCHANGED grantsEnded
           /\ \/ /\ remoteFile' = [clients |-> clients, grants |-> turned(s)] /\ UNCHANGED doubt
                 /\ handed' = [handed EXCEPT ![minted + 1] = [of |-> s, client |-> c, verifier |-> s, at |-> grantTime]]
              \/ UNCHANGED <<remoteFile, handed>> /\ doubt' = doubt \cup {s}
  <2> DEFINE g == renewed(s)
  <2>1. minted + 1 \in Tokens /\ minted' \in 0 .. MaxTokens
    BY <1>2, <1>7 DEF Tokens
  <2>2. /\ g \in GrantRows /\ g.token = minted + 1 /\ g.expires = grantTime + ACCESS /\ g.used = grantTime
        /\ g.created = kept[s].created /\ g.client = kept[s].client /\ g.redirect = kept[s].redirect
        /\ g.scopes = kept[s].scopes /\ g.resource = kept[s].resource
    <3>1. grantTime + ACCESS \in Nat /\ kept[s].token \in {0} \cup Tokens
      BY <1>2, <1>5 DEF GrantRows
    <3> HIDE DEF kept
    <3> QED BY <3>1, <2>1, <1>2, <1>5 DEF GrantRows, Connectors!Minted
  <2>3. g.created <= grantTime /\ g.created \in Nat
    <3>1. g.created \in Moments
      BY <2>2 DEF GrantRows
    <3>2. kept[s].created <= grantTime
      BY <1>4, <1>5 DEF GrantFits
    <3> QED BY <3>1, <3>2, <2>2
  <2>4. Connectors!Later(g.used, g.created) = grantTime /\ g.used <= grantTime
    BY <2>2, <2>3, <1>2 DEF Connectors!Later
  <2>5. /\ g.client = signIns[s].client /\ g.redirect = signIns[s].redirect /\ g.resource = signIns[s].resource
        /\ g.scopes = signIns[s].granted
    BY <2>2, <1>4, <1>5 DEF GrantFits
  <2>6. grants' = [kept EXCEPT ![s] = g] /\ g # Nil
    BY <1>7, <2>2
  <2>7. \A x \in Tokens : handed[x] # Nil => x <= minted /\ handed[x].at <= grantTime
    BY <1>2 DEF HandsHold, HandFits
  <2>8. CASE UNCHANGED <<remoteFile, handed>> /\ doubt' = doubt \cup {s}
    <3>1. GrantFits(s, g, handed, signIns, minted + 1, grantTime, grantsEnded, doubt')
      <4>1. s \in doubt'
        BY <2>8
      <4> HIDE DEF g
      <4> QED BY <4>1, <1>2, <1>5, <2>2, <2>3, <2>4, <2>5, <2>7, GrantIsDoubted
    <3>2. HandsHold'
      <4>1. ASSUME NEW x \in Tokens PROVE HandFits(x, handed, signIns, minted + 1, grantTime)
        <5>1. HandFits(x, handed, signIns, minted, grantTime)
          BY <1>2 DEF HandsHold
        <5>2. \A k \in Nat : k <= minted => k <= minted + 1
          BY <1>2
        <5>3. x \in Nat
          OBVIOUS
        <5> QED BY <5>1, <5>2, <5>3 DEF HandFits
      <4> QED BY <4>1, <2>8, <1>1, <1>7 DEF HandsHold
    <3> HIDE DEF g, kept
    <3>3. handed' \in [Tokens -> HandRows \cup {Nil}]
      BY <2>8, <1>2
    <3>4. GrantFits(s, g, handed', signIns, minted', grantTime, grantsEnded', doubt')
      BY <3>1, <2>8, <1>7
    <3> QED BY <3>2, <3>3, <3>4, <2>1, <2>2, <2>6, <2>8, <1>1, <1>4, <1>7, GrantTurns DEF kept
  <2>9. CASE /\ remoteFile' = [clients |-> clients, grants |-> turned(s)] /\ UNCHANGED doubt
             /\ handed' = [handed EXCEPT ![minted + 1] = [of |-> s, client |-> c, verifier |-> s, at |-> grantTime]]
    <3>1. signIns'[s] # Nil /\ signIns'[s].at = "spent" /\ signIns'[s].client = c
      BY <1>1, <1>5, <1>7, <2>2, <2>5
    <3>2. /\ handed' \in [Tokens -> HandRows \cup {Nil}]
          /\ HandsHold' /\ \A x \in Tokens : handed[x] # Nil => x <= minted /\ handed[x].at <= grantTime
          /\ handed'[minted + 1] # Nil /\ handed'[minted + 1].of = s /\ handed'[minted + 1].at = grantTime
          /\ \A x \in Tokens : x # minted + 1 => handed'[x] = handed[x]
          /\ \A x \in Tokens : handed[x] # Nil => handed'[x] = handed[x]
      <4> HIDE DEF g, kept
      <4> QED BY <3>1, <2>9, <1>1, <1>7, HandIsGiven
    <3>3. /\ s \notin doubt => s \notin grantsEnded
          /\ s \notin doubt => \E x \in Tokens : Hands(handed, x, s) /\ handed[x].at = g.created
      BY <1>4, <1>5, <2>2 DEF GrantFits
    <3>4. GrantFits(s, g, handed', signIns, minted + 1, grantTime, grantsEnded, doubt)
      <4> HIDE DEF g, kept
      <4> QED BY <3>2, <3>3, <1>2, <1>5, <2>2, <2>3, <2>4, <2>5, GrantIsHanded
    <3>5. remoteFile' = [clients |-> clients, grants |-> grants']
      BY <2>9, <1>7
    <3> HIDE DEF g, kept
    <3>6. \A y \in Tokens : handed'[y] = handed[y] \/ (y = minted + 1 /\ handed'[y] # Nil /\ handed'[y].of = s)
      BY <3>2
    <3>8. GrantFits(s, g, handed', signIns, minted', grantTime, grantsEnded', doubt')
      BY <3>4, <2>9, <1>7
    <3>9. /\ doubt' \in {doubt, doubt \cup {s}} /\ grantsEnded' \in {grantsEnded, grantsEnded \cup {s}}
          /\ minted' \in {minted, minted + 1} /\ g \in GrantRows \cup {Nil}
      BY <2>2, <2>9, <1>7
    <3>10. grants' = [Connectors!KeptGrants EXCEPT ![s] = g] /\ Connectors!KeptGrants[s] # Nil
      BY <2>6, <1>4 DEF kept
    <3> QED BY <3>2, <3>5, <3>6, <3>8, <3>9, <3>10, <2>1, <1>1, GrantTurns
  <2> QED BY <1>7, <2>8, <2>9
<1>8. CASE /\ grants' = gone(s) /\ grantsEnded' = grantsEnded \cup {s} /\ UNCHANGED <<minted, handed>>
           /\ \/ remoteFile' = [clients |-> clients, grants |-> gone(s)] /\ UNCHANGED doubt
              \/ UNCHANGED remoteFile /\ doubt' = doubt \cup {s}
  <2>1. GrantFits(s, Nil, handed', signIns, minted', grantTime, grantsEnded', doubt')
    BY <1>8 DEF GrantFits
  <2>2. HandsHold'
    BY <1>1, <1>2, <1>8 DEF HandsHold
  <2>3. \/ remoteFile' = [clients |-> clients, grants |-> grants']
        \/ remoteFile' = remoteFile /\ doubt' = doubt \cup {s} /\ handed' = handed
    BY <1>8
  <2>4. handed' = handed /\ minted' = minted /\ grants' = [Connectors!KeptGrants EXCEPT ![s] = Nil]
        /\ doubt' \in {doubt, doubt \cup {s}} /\ Connectors!KeptGrants[s] # Nil /\ grantsEnded' = grantsEnded \cup {s}
    BY <1>4, <1>8
  <2> HIDE DEF kept
  <2> QED BY <2>1, <2>2, <2>3, <2>4, <1>1, <1>2, GrantTurns
<1> QED BY <1>4, <1>6, <1>7, <1>8

\* It begins so.
LEMMA OAuthBegins ==
  ASSUME Connectors!OAuthInit
  PROVE  OAuthInv
<1> USE GrantSets
<1>1. /\ clients = [i \in ClientIds |-> Nil] /\ grants = [s \in SignIns |-> Nil]
      /\ remoteFile = [clients |-> clients, grants |-> grants]
      /\ document = "loop1" /\ cached = Nil /\ signIns = [s \in SignIns |-> Nil] /\ grantTime = 0 /\ minted = 0
      /\ handed = [t \in Tokens |-> Nil] /\ clientsTold = [i \in ClientIds |-> Nil] /\ grantsEnded = {} /\ doubt = {}
  BY DEF Connectors!OAuthInit, Connectors!Of
<1>2. remoteFile.clients = clients /\ remoteFile.grants = grants
  BY <1>1
<1>3. GrantShape
  BY <1>1, <1>2 DEF GrantShape, URIs, Moments
<1>4. \A i \in ClientIds : clients[i] = Nil /\ clientsTold[i] = Nil
  BY <1>1
<1>5. Cardinality({}) = 0
  BY FS_EmptySet
<1>6. ClientsHold
  <2>1. {i \in ClientIds : clients[i] # Nil} = {}
    BY <1>4
  <2>2. ClientsFit(clients, clientsTold, grantTime)
    BY <1>1, <1>4, <1>5, <2>1 DEF ClientsFit
  <2> QED BY <2>2, <1>2 DEF ClientsHold
<1>7. \A s \in SignIns : grants[s] = Nil /\ signIns[s] = Nil
  BY <1>1
<1>8. \A x \in Tokens : handed[x] = Nil
  BY <1>1
<1>9. GrantsHold /\ SavedHold
  BY <1>2, <1>7, <1>8 DEF GrantsHold, SavedHold, GrantFits, Hands
<1>10. SignInsHold /\ HandsHold /\ EndsHold
  BY <1>1, <1>7, <1>8 DEF SignInsHold, SignInFits, HandsHold, HandFits, EndsHold
<1>11. GrantsAreFew
  <2>1. {s \in SignIns : grants[s] # Nil} = {}
    BY <1>7
  <2> QED BY <1>2, <1>5, <2>1 DEF GrantsAreFew
<1> QED BY <1>3, <1>6, <1>9, <1>10, <1>11 DEF OAuthInv

\* It holds what the connectors are promised.
LEMMA OAuthPromise ==
  ASSUME OAuthInv
  PROVE  Connectors!OAuthTypeOK /\ Connectors!GrantsAreSound
<1> USE GrantSets
<1>1. GrantShape /\ ClientsHold /\ SignInsHold /\ HandsHold /\ GrantsHold /\ GrantsAreFew
  BY DEF OAuthInv
<1>2. Connectors!OAuthTypeOK
  <2>1. clients \in [ClientIds -> [lists : URIs, created : 0 .. MaxGrantTime, used : 0 .. MaxGrantTime] \cup {Nil}]
    BY <1>1 DEF ClientsHold, ClientsFit, ClientRows, Moments
  <2>2. \A s \in SignIns : grants[s] = Nil \/ grants[s].token \in Tokens
    BY <1>1 DEF GrantShape, GrantRows
  <2>3. /\ document \in URIs /\ cached \in URIs \cup {Nil} /\ grantTime \in 0 .. MaxGrantTime
        /\ minted \in 0 .. MaxTokens /\ grantsEnded \subseteq SignIns /\ doubt \subseteq SignIns
    BY <1>1 DEF GrantShape, Moments
  <2> QED BY <2>1, <2>2, <2>3 DEF Connectors!OAuthTypeOK
<1>3. Connectors!CodesGoHome
  BY <1>1 DEF Connectors!CodesGoHome, SignInsHold, SignInFits
<1>4. Connectors!GrantsAreConsented
  <2>1. ASSUME NEW s \in SignIns, grants[s] # Nil
        PROVE  /\ grants[s].client = signIns[s].client /\ grants[s].redirect = signIns[s].redirect
               /\ grants[s].resource = signIns[s].resource /\ grants[s].scopes = signIns[s].granted
               /\ signIns[s].granted \subseteq signIns[s].asked
    BY <2>1, <1>1 DEF GrantsHold, GrantFits, SignInsHold, SignInFits
  <2>2. ASSUME NEW t \in Tokens, handed[t] # Nil
        PROVE  handed[t].client = signIns[handed[t].of].client /\ handed[t].verifier = handed[t].of
    BY <2>2, <1>1 DEF HandsHold, HandFits
  <2> QED BY <2>1, <2>2 DEF Connectors!GrantsAreConsented
<1>5. Connectors!TokensAnswer
  <2> SUFFICES ASSUME NEW t \in Tokens, NEW r \in ResourceSet, handed[t] # Nil, handed[t].of \notin doubt,
                      NEW s, s = handed[t].of
               PROVE  /\ Connectors!Answer(t, r) # {} =>
                           /\ Connectors!Answer(t, r) = {s} /\ r = signIns[s].resource /\ s \notin grantsEnded
                           /\ grantTime < handed[t].at + ACCESS /\ t \in Connectors!NewestOf(s)
                      /\ /\ t \in Connectors!NewestOf(s) /\ r = signIns[s].resource /\ s \notin grantsEnded
                         /\ grantTime < handed[t].at + ACCESS
                         /\ grants[s] = Nil =>
                              \A x \in Tokens : handed[x] # Nil /\ handed[x].of = s =>
                                grantTime < handed[x].at + LIFETIME
                         => Connectors!Answer(t, r) = {s}
    BY DEF Connectors!TokensAnswer
  <2>1. s \in SignIns /\ handed[t].at \in Nat /\ grantTime \in Nat
    BY <1>1 DEF GrantShape, HandRows
  <2>2. Connectors!Answer(t, r) =
          {x \in SignIns : grants[x] # Nil /\ grants[x].token = t /\ grants[x].resource = r
                             /\ grantTime < grants[x].expires}
    BY DEF Connectors!Answer
  <2>3. \A x \in SignIns : GrantFits(x, grants[x], handed, signIns, minted, grantTime, grantsEnded, doubt)
    BY <1>1 DEF GrantsHold
  <2>4. \A x \in SignIns : grants[x] # Nil /\ grants[x].token = t => x = s
    BY <2>3 DEF GrantFits
  <2>5. Connectors!NewestOf(s) = {x \in Tokens : Hands(handed, x, s) /\ \A y \in Tokens : Hands(handed, y, s) => y <= x}
    BY DEF Connectors!NewestOf, Hands
  <2>6. ASSUME Connectors!Answer(t, r) # {}
        PROVE  /\ Connectors!Answer(t, r) = {s} /\ r = signIns[s].resource /\ s \notin grantsEnded
               /\ grantTime < handed[t].at + ACCESS /\ t \in Connectors!NewestOf(s)
    <3>1. /\ Connectors!Answer(t, r) = {s} /\ grants[s] # Nil /\ grants[s].token = t /\ grants[s].resource = r
          /\ grantTime < grants[s].expires
      BY <2>2, <2>4, <2>6
    <3>2. /\ r = signIns[s].resource /\ s \notin grantsEnded /\ grants[s].expires = handed[t].at + ACCESS
          /\ \A x \in Tokens : Hands(handed, x, s) => x <= t
      BY <2>1, <2>3, <3>1 DEF GrantFits
    <3> QED BY <3>1, <3>2, <2>5 DEF Hands
  <2>7. ASSUME t \in Connectors!NewestOf(s), r = signIns[s].resource, s \notin grantsEnded,
               grantTime < handed[t].at + ACCESS,
               grants[s] = Nil => \A x \in Tokens : handed[x] # Nil /\ handed[x].of = s =>
                                                        grantTime < handed[x].at + LIFETIME
        PROVE  Connectors!Answer(t, r) = {s}
    <3>1. Hands(handed, t, s)
      BY DEF Hands
    <3>2. grants[s] # Nil
      <4> SUFFICES ASSUME grants[s] = Nil PROVE FALSE
        OBVIOUS
      <4>1. Dead(s, handed, grantTime)
        BY <2>1, <2>3, <2>7, <3>1 DEF GrantFits
      <4>2. \A x \in Tokens : Hands(handed, x, s) => handed[x].at \in Nat /\ grantTime < handed[x].at + LIFETIME
        BY <1>1, <2>7 DEF Hands, GrantShape, HandRows
      <4>3. ASSUME NEW x \in Tokens, Hands(handed, x, s), handed[x].at + LIFETIME <= grantTime PROVE FALSE
        BY <4>2, <4>3, <2>1
      <4>4. ~(handed[t].at + ACCESS <= grantTime)
        BY <2>1, <2>7
      <4> QED BY <4>1, <4>3, <4>4, <3>1 DEF Dead
    <3>3. /\ grants[s] \in GrantRows /\ handed[grants[s].token] # Nil /\ handed[grants[s].token].of = s
          /\ \A x \in Tokens : Hands(handed, x, s) => x <= grants[s].token
          /\ grants[s].expires = handed[grants[s].token].at + ACCESS /\ grants[s].resource = r
      BY <2>1, <2>3, <2>7, <3>2 DEF GrantFits
    <3>4. /\ grants[s].token \in Tokens /\ grants[s].token \in Nat /\ t \in Nat
      BY <3>3 DEF GrantRows
    <3>5. grants[s].token = t
      <4>1. t <= grants[s].token
        BY <3>1, <3>3
      <4>2. grants[s].token <= t
        BY <2>5, <2>7, <3>3, <3>4 DEF Hands
      <4> QED BY <3>4, <4>1, <4>2
    <3> QED BY <2>1, <2>2, <2>4, <2>7, <3>2, <3>3, <3>5
  <2> QED BY <2>6, <2>7
<1>6. Connectors!ClientsAreKnown
  <2>1. ASSUME NEW i \in ClientIds, clientsTold[i] # Nil, grantTime < clientsTold[i] + UNUSED
        PROVE  clients[i] # Nil /\ remoteFile.clients[i] # Nil
    BY <2>1, <1>1 DEF ClientsHold, ClientsFit
  <2>2. /\ Cardinality({i \in ClientIds : clients[i] # Nil}) <= MAX_CLIENTS
        /\ Cardinality({s \in SignIns : grants[s] # Nil}) <= MAX_GRANTS
    BY <1>1 DEF ClientsHold, ClientsFit, GrantsAreFew
  <2>3. /\ Connectors!Cardinality({i \in ClientIds : clients[i] # Nil})
              = Cardinality({i \in ClientIds : clients[i] # Nil})
        /\ Connectors!Cardinality({s \in SignIns : grants[s] # Nil}) = Cardinality({s \in SignIns : grants[s] # Nil})
    BY SameCount
  <2> QED BY <2>1, <2>2, <2>3 DEF Connectors!ClientsAreKnown
<1> QED BY <1>2, <1>3, <1>4, <1>5, <1>6 DEF Connectors!GrantsAreSound

\* Every step of the connectors keeps it so.
LEMMA OAuthGoesOn ==
  ASSUME OAuthInv, [Connectors!OAuthNext]_grantsVars
  PROVE  OAuthInv'
<1> USE GrantSets
<1>1. CASE UNCHANGED grantsVars
  BY <1>1 DEF grantsVars, OAuthInv, GrantShape, ClientsHold, SignInsHold, HandsHold, EndsHold, GrantsHold, SavedHold,
     GrantsAreFew
<1>2. ASSUME NEW i \in ClientIds, NEW u \in {"claude", "elsewhere"}, NEW saved \in BOOLEAN,
             Connectors!Register(i, u, saved)
      PROVE  OAuthInv'
  BY <1>2, RegisterGoesOn DEF URIs
<1>3. ASSUME NEW s \in SignIns, NEW q \in OAuthRequests,
             Connectors!Authorize(s, q.client, q.redirect, q.scopes, q.resource)
      PROVE  OAuthInv'
  BY <1>3, AuthorizeGoesOn
<1>4. ASSUME NEW s \in SignIns, NEW chosen \in SUBSET {"read", "operate"}, Connectors!Allow(s, chosen)
      PROVE  OAuthInv'
  BY <1>4, AllowGoesOn DEF Scopes
<1>5. CASE Connectors!Lapse
  BY <1>5, LapseGoesOn
<1>6. ASSUME NEW s \in SignIns, NEW v \in SignIns, NEW c \in Clients, NEW u, NEW r, NEW saved \in BOOLEAN,
             Connectors!Exchange(s, c, u, v, r, saved)
      PROVE  OAuthInv'
  BY <1>6, ExchangeGoesOn
<1>7. ASSUME NEW t \in Tokens, NEW c \in Clients, NEW saved \in BOOLEAN, Connectors!Refresh(t, c, saved)
      PROVE  OAuthInv'
  BY <1>7, GrantRefreshGoesOn
<1>8. ASSUME NEW t \in Tokens, NEW r \in ResourceSet, Connectors!Bearer(t, r)
      PROVE  OAuthInv'
  BY <1>8, BearerGoesOn
<1>9. CASE Connectors!ListGrants
  BY <1>9, ListGoesOn
<1>10. ASSUME NEW which \in SUBSET SignIns, Connectors!Revoke(which)
       PROVE  OAuthInv'
  BY <1>10, RevokeGoesOn
<1>11. CASE Connectors!Publish \/ Connectors!Pass \/ Connectors!Restart
  BY <1>11, PublishGoesOn, PassGoesOn, RestartGoesOn
<1>12. CASE Connectors!OAuthNext
  <2>1. (\E s \in SignIns : Connectors!Revoke({s})) \/ Connectors!Revoke({s \in SignIns : grants[s] # Nil})
          => OAuthInv'
    <3>1. {s \in SignIns : grants[s] # Nil} \in SUBSET SignIns /\ \A s \in SignIns : {s} \in SUBSET SignIns
      OBVIOUS
    <3> QED BY <3>1, <1>10
  <2> QED BY <1>2, <1>3, <1>4, <1>5, <1>6, <1>7, <1>8, <1>9, <1>11, <1>12, <2>1 DEF Connectors!OAuthNext
<1> QED BY <1>1, <1>12

-----------------------------------------------------------------------------
(***************************************************************************)
(* The host: a step is one of the part at work.                            *)
(***************************************************************************)
HostInv ==
  /\ work = "konnekt" => KonnektInv
  /\ work = "places" => DestInv
  /\ work = "search" => SearchInv
  /\ work = "detail" => DetailInv
  /\ work = "figures" => FiguresInv
  /\ work = "limit" => LimitInv
  /\ work = "grants" => OAuthInv

\* A step of the host is a step of the job it does, or none.
LEMMA OneJobMoves ==
  ASSUME [HostNext]_hostVars
  PROVE  /\ work' = work
         /\ work = "konnekt" => [Konnekt!SelfNext]_konnektVars
         /\ work = "places" => [Uploads!DestNext]_placesVars
         /\ work = "search" => [Mods!SearchNext]_searchVars
         /\ work = "detail" => [Mods!DetailNext]_detailVars
         /\ work = "figures" => [View!FiguresNext]_figuresVars
         /\ work = "limit" => [View!MaxNext]_limitVars
         /\ work = "grants" => [Connectors!OAuthNext]_grantsVars
<1>1. CASE HostNext
  BY <1>1 DEF HostNext, KonnektStep, PlacesStep, FinderStep, NeedsStep, DetailStep, StoreStep, RunStep, ClockStep,
     FoldersStep, PlayersStep, FiguresStep, LimitStep, ConnectorsStep
<1>2. CASE UNCHANGED hostVars
  BY <1>2 DEF hostVars
<1> QED BY <1>1, <1>2

\* Every job begins as its invariant says.
LEMMA HostBegins == HostInit => HostInv
BY KonnektBegins, DestBegins, SearchBegins, DetailBegins, FiguresBegin, LimitBegins, OAuthBegins DEF HostInit, HostInv

\* And goes on so.
LEMMA HostGoesOn == HostInv /\ [HostNext]_hostVars => HostInv'
<1> SUFFICES ASSUME HostInv, [HostNext]_hostVars PROVE HostInv'
  OBVIOUS
<1>1. ASSUME work' = "konnekt" PROVE KonnektInv'
  BY <1>1, OneJobMoves, KonnektGoesOn DEF HostInv
<1>2. ASSUME work' = "places" PROVE DestInv'
  BY <1>2, OneJobMoves, DestGoesOn DEF HostInv
<1>3. ASSUME work' = "search" PROVE SearchInv'
  BY <1>3, OneJobMoves, SearchGoesOn DEF HostInv
<1>4. ASSUME work' = "detail" PROVE DetailInv'
  BY <1>4, OneJobMoves, DetailGoesOn DEF HostInv
<1>5. ASSUME work' = "figures" PROVE FiguresInv'
  BY <1>5, OneJobMoves, FiguresGoOn DEF HostInv
<1>6. ASSUME work' = "limit" PROVE LimitInv'
  BY <1>6, OneJobMoves, LimitGoesOn DEF HostInv
<1>7. ASSUME work' = "grants" PROVE OAuthInv'
  BY <1>7, OneJobMoves, OAuthGoesOn DEF HostInv
<1> QED
  BY <1>1, <1>2, <1>3, <1>4, <1>5, <1>6, <1>7 DEF HostInv

ProvedJobs == {"konnekt", "places", "search", "detail", "figures", "limit", "grants"}

\* Each job's invariant holds what the job promises.
LEMMA HostKeepsPromises == HostInv /\ work \in ProvedJobs => HostIsSound
<1> SUFFICES ASSUME HostInv, work \in ProvedJobs PROVE HostIsSound
  OBVIOUS
<1>1. CASE work = "konnekt"
  BY <1>1, KonnektPromise DEF HostInv, HostIsSound, HostTypeOK
<1>2. CASE work = "places"
  BY <1>2, DestPromise DEF HostInv, DestInv, HostIsSound, HostTypeOK
<1>3. CASE work = "search"
  BY <1>3, SearchPromise DEF HostInv, SearchInv, HostIsSound, HostTypeOK
<1>4. CASE work = "detail"
  BY <1>4, DetailPromise DEF HostInv, DetailInv, HostIsSound, HostTypeOK
<1>5. CASE work = "figures"
  BY <1>5, FiguresPromise DEF HostInv, HostIsSound, HostTypeOK
<1>6. CASE work = "limit"
  BY <1>6 DEF HostInv, LimitInv, HostIsSound, HostTypeOK
<1>7. CASE work = "grants"
  BY <1>7, OAuthPromise DEF HostInv, HostIsSound, HostTypeOK
<1> QED
  BY <1>1, <1>2, <1>3, <1>4, <1>5, <1>6, <1>7 DEF ProvedJobs

\* What a job of the host promises holds at every step of it, for any builds,
\* buckets, mods, flavors, versions, clients and requests and any number of
\* installs, saves, reads, searches, clicks, boots, sign-ins, tokens and days:
\* Konnekt replaces itself by an attested, newer build or not at all (update.go);
\* a bucket is signed with its own secret and the pane shows what is stored
\* (destinations.go); the mod browser settles on the last search and an install is
\* of the mod that is shown (useMods.ts); the figures are the boot's own and the
\* player limit is the file's (server.go, maxplayers.go); and a token answers for
\* what was consented to, no less and no longer (remote_grants.go).
THEOREM HostTheorem == HostSpec => [](work \in ProvedJobs => HostIsSound)
<1>1. HostSpec => []HostInv
  BY HostBegins, HostGoesOn, PTL DEF HostSpec
<1> QED
  BY <1>1, HostKeepsPromises, PTL
=============================================================================
