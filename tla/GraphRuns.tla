----------------------------- MODULE GraphRuns ------------------------------
(* A graph's run, node by node, and the triggers that start one              *)
(* (scheduler_engine.go, scheduler_triggers.go).  Neither reads the other's  *)
(* state; each has its Init and Next.                                        *)
EXTENDS Naturals, Sequences, FiniteSets, SequencesExt, FiniteSetsExt

CONSTANTS
  Nil, MaxNodesPerRun, MaxEdges,       \* maxNodesPerRun; bound on the edges of a kind
  PerMinute,
  MinutesPerHour, HoursPerDay,         \* of a small clock
  EveryMinutes,                        \* the interval trigger's
  DailyAt,                             \* the wall minute of the day of the other
  Cooldown,                            \* of the event triggers, in moments
  Owner,                               \* the server of the graph, "" for none
  Active,                              \* the active server
  MaxTime                              \* bound on time

VARIABLES
  graph,                               \* its edges, the attribute `read` reads, what `set` writes, the operation of `math`
  outputs,                             \* the output of each node, Nil where it has none
  custom,                              \* the expression the attribute "a" is defined by, Nil before it is
  tpsNow,                              \* the builtin attribute "tps", which changes under the run
  toVisit,                             \* the nodes to visit
  visiting,                            \* the node being executed and its data inputs, or Nil
  nodeRuns,                            \* of each node executed the port it fired, and how it went
  expired,                             \* the run's deadline passed, after so many records; Nil before
  runEnded,                            \* how the run ended, and the node it blames
  firstOutputs,                        \* the first output of each data node
  moment,                              \* the moment
  setBack,                             \* the moment at which the wall clock was set back by an hour, or Nil
  tickDue,                             \* the ticker's tick of this minute has not been handled
  trigger,                             \* the graph's trigger node
  graphEnabled,                        \* the graph is
  lastFired,                           \* lastFired: when it fired, Nil for never
  firedBefore,                         \* when it fired before that
  promised,                            \* the next run that was last announced, Nil for none and once the clock was
                                       \* disturbed since
  promiseBroken                        \* it fired before it was announced for, or not then

(* One run of a scheduler graph: the control nodes it visits, the data nodes *)
(* it evaluates for them, the attributes it defines and the limits it keeps. *)
(* Numbers are counted in halves: 1 is one half, 2 is one.                   *)
runVars == <<graph, outputs, custom, tpsNow, toVisit, visiting, nodeRuns, expired, runEnded, firstOutputs>>

\* A trigger, a command, a write of an attribute, a condition; and of data an attribute,
\* an operation of two numbers, and another that adds to one.
Nodes == {"trigger", "act", "set", "check", "read", "math", "plus"}
PureData == {"read", "math", "plus"}
Ports == {"onComplete", "onFailed", "onTrue", "onFalse"}

\* The edges a graph may have, in the order the file lists them.
ControlEdges == <<<<"trigger", "onComplete", "act">>, <<"trigger", "onComplete", "check">>,
                  <<"act", "onComplete", "check">>, <<"act", "onFailed", "set">>,
                  <<"check", "onTrue", "act">>, <<"check", "onFalse", "set">>, <<"set", "onComplete", "check">>>>
DataEdges == <<<<"read", "math", "a">>, <<"plus", "math", "a">>, <<"act", "math", "b">>,
               <<"math", "plus", "a">>, <<"math", "check", "left">>, <<"act", "check", "left">>>>
Values == 0 .. 3
Cap(n) == IF n > 3 THEN 3 ELSE n
NoGraph == [control |-> {}, data |-> {}, reads |-> "tps", writes |-> "tps", op |-> "add", declared |-> "auto"]

RunTypeOK ==
  /\ graph.control \subseteq ToSet(ControlEdges) /\ graph.data \subseteq ToSet(DataEdges)
  /\ outputs \in [Nodes -> Values \cup {Nil}] /\ firstOutputs \in [PureData -> Values \cup {Nil}]
  /\ custom \in {Nil, "tps", "a"} /\ tpsNow \in Values
  /\ \A i \in DOMAIN toVisit : toVisit[i] \in Nodes
  /\ Len(nodeRuns) <= MaxNodesPerRun /\ expired \in {Nil} \cup 0 .. MaxNodesPerRun
  /\ runEnded.how \in {Nil, "success", "failed", "refused", "crashed"}

RunInit ==
  /\ graph = NoGraph /\ outputs = [n \in Nodes |-> Nil] /\ custom = Nil /\ tpsNow = 1
  /\ toVisit = <<>> /\ visiting = Nil /\ nodeRuns = <<>> /\ expired = Nil
  /\ runEnded = [how |-> Nil, blames |-> Nil] /\ firstOutputs = [n \in PureData |-> Nil]

-----------------------------------------------------------------------------
(* Data.                                                                    *)

\* Resolve: a defined attribute is the value its expression has now, and none if the
\* expression needs itself; another is read from the server, if it is one of those.
Resolve(name, open) ==
  LET value[n \in {"tps", "a"}, met \in SUBSET {"a"}] ==
        IF n = "a" /\ custom # Nil THEN IF n \in met THEN Nil ELSE value[custom, met \cup {n}]
        ELSE IF n = "tps" THEN tpsNow ELSE Nil
  IN  value[name, open]

\* resolveDataInputs: of several edges into a port the last that carries a value.
DataIn(out, node, port) ==
  LET into == SelectSeq(DataEdges, LAMBDA e : e \in graph.data /\ e[2] = node /\ e[3] = port
                                              /\ out[e[1]] # Nil)
  IN  IF into = <<>> THEN Nil ELSE out[Last(into)[1]]

Number(v) == IF v = Nil THEN 0 ELSE v

\* A value that is not of the type its reader declares is none.
OfType(v) == IF graph.declared = "string" \/ (graph.declared = "bool" /\ v \notin {0, 2}) THEN Nil ELSE v

\* The operations.  A remainder is of the integers below, after a test for 0 alone.
Panics(out, node) == node = "math" /\ graph.op = "mod" /\ Number(DataIn(out, node, "b")) = 1
Compute(out, node) ==
  LET a == Number(DataIn(out, node, "a"))
      b == Number(DataIn(out, node, "b"))
  IN  CASE node = "read" -> OfType(Resolve(graph.reads, {}))
        [] node = "plus" -> Cap(a + 2)
        [] node = "math" /\ graph.op = "add" -> Cap(a + b)
        [] node = "math" /\ b \in {0, 1} -> Nil
        [] OTHER -> 2 * ((a \div 2) % (b \div 2))

\* The sources of a node's data edges, in their order.
Sources(node) ==
  LET into == SelectSeq(DataEdges, LAMBDA e : e \in graph.data /\ e[2] = node)
  IN  [i \in DOMAIN into |-> into[i][1]]

\* ensureDataOutputs: a data node that has an output keeps it, one that is being
\* evaluated is left alone, any other is evaluated after what it needs itself.
Ensure(out, node, open) ==
  LET ensured[o \in [Nodes -> Values \cup {Nil}], n \in Nodes, met \in SUBSET PureData] ==
        IF n \notin PureData \/ o[n] # Nil \/ n \in met THEN o
        ELSE LET needed == FoldLeft(LAMBDA p, s : ensured[p, s, met \cup {n}], o, Sources(n))
             IN  [needed EXCEPT ![n] = Compute(needed, n)]
  IN  ensured[out, node, open]

Pulled(node) == FoldLeft(LAMBDA o, n : Ensure(o, n, {}), outputs, Sources(node))

\* A bug: the data a node needs is evaluated for it again.
EnsureAgain(out, node, open) ==
  IF node \notin PureData THEN out ELSE [out EXCEPT ![node] = Compute(out, node)]

-----------------------------------------------------------------------------
(* Control.                                                                 *)

\* The graphs here: the trigger leads somewhere and to all there is, and what makes no
\* difference to a graph is left at its first value.
Graphs ==
  {[control |-> c, data |-> d, reads |-> r, writes |-> w, op |-> op, declared |-> ty] :
     c \in {c \in SUBSET ToSet(ControlEdges) :
             /\ \A e \in c : e[1] = "trigger" \/ \E f \in c : f[3] = e[1] /\ f # e
             /\ Cardinality({e \in c : e[1] = "trigger"}) = 1 /\ Cardinality(c) <= MaxEdges},
     d \in {d \in SUBSET ToSet(DataEdges) : Cardinality(d) <= MaxEdges /\ (d = {} \/ \E e \in d : e[2] = "check")},
     r \in {"tps", "a"}, w \in {"tps", "a"}, op \in {"add", "mod"},
     ty \in {"auto", "number", "string", "bool"}}
Meaningful(g) ==
  /\ g.reads = "a" => \E e \in g.data : e[1] = "read"
  /\ g.writes = "a" => g.reads = "a" /\ \E e \in g.control : e[3] = "set"
  /\ g.op = "mod" => \E e \in g.data : e[3] = "b"
  /\ g.declared # "auto" => g.op = "add" /\ g.writes = "tps" /\ \E e \in g.data : e[1] = "read"

\* The types that may be wired: to text anything, a Boolean to a number, and whatever
\* is not known; `read` is of the type it declares, the others are numbers.
Compatible(s, t) == s = "auto" \/ s = t \/ t = "string" \/ (s = "bool" /\ t = "number")
Valid(g) ==
  \A e \in g.data : Compatible(IF e[1] = "read" THEN g.declared ELSE "number",
                               IF e[2] = "check" THEN "string" ELSE "number")

\* The graph that fires, and its validation: one that is refused executes nothing.
RunGraph(g) ==
  /\ graph = NoGraph /\ toVisit = <<>> /\ runEnded.how = Nil
  /\ graph' = g
  /\ IF Valid(g) THEN toVisit' = <<"trigger">> /\ UNCHANGED runEnded
     ELSE runEnded' = [how |-> "refused", blames |-> Nil] /\ UNCHANGED toVisit
  /\ UNCHANGED <<outputs, custom, tpsNow, visiting, nodeRuns, expired, firstOutputs>>

\* executeNode begins: the trigger pulls nothing, the others what their data edges name.
Started == graph # NoGraph /\ runEnded.how = Nil

StartNode ==
  LET node == Head(toVisit)
      out  == IF node = "trigger" THEN outputs ELSE Pulled(node)
      dies == node # "trigger" /\ \E d \in PureData : outputs[d] = Nil /\ d \in ToSet(Sources(node)) \cup
                 UNION {ToSet(Sources(s)) : s \in ToSet(Sources(node)) \cap PureData} /\ Panics(out, d)
  IN  /\ Started /\ visiting = Nil /\ toVisit # <<>> /\ Len(nodeRuns) < MaxNodesPerRun
      /\ toVisit' = Tail(toVisit) /\ outputs' = out
      /\ visiting' = [node |-> node, left |-> DataIn(out, node, "left")]
      /\ firstOutputs' = [d \in PureData |-> IF firstOutputs[d] = Nil THEN out[d] ELSE firstOutputs[d]]
      /\ runEnded' = IF dies THEN [how |-> "crashed", blames |-> node] ELSE runEnded
      /\ UNCHANGED <<graph, custom, tpsNow, nodeRuns, expired>>

Targets(node, port) ==
  LET out == SelectSeq(ControlEdges, LAMBDA e : e \in graph.control /\ e[1] = node /\ e[2] = port)
  IN  [i \in DOMAIN out |-> out[i][3]]

\* How a node ends: a condition, here that the value is over zero, is false without one;
\* a write defines the attribute by what its field says; a command does as it may, and
\* may leave an output though it fails.
Holds(left) == left # Nil /\ left > 0
Define(expr) == custom' = IF visiting.node = "set" THEN expr ELSE custom
Leaves(v) == outputs' = IF v = Nil THEN outputs ELSE [outputs EXCEPT !["act"] = v]
Outcomes(node) ==
  CASE node = "check" -> {IF Holds(visiting.left) THEN "onTrue" ELSE "onFalse"}
    [] node = "act" -> {"onComplete", "onFailed"}
    [] OTHER -> {"onComplete"}

\* The first error is the run's, unless the deadline or the count ends it.
Blamed(rs) ==
  LET bad == {i \in DOMAIN rs : rs[i].port = "onFailed"}
  IN  IF bad = {} THEN Nil ELSE rs[Min(bad)].node

\* The deadline is looked at after each node, and before the count.
Over(rs, q) ==
  IF expired # Nil THEN [how |-> "failed", blames |-> "deadline"]
  ELSE IF Len(rs) = MaxNodesPerRun THEN [how |-> "failed", blames |-> "count"]
  ELSE IF q # <<>> THEN runEnded
  ELSE [how |-> IF Blamed(rs) = Nil THEN "success" ELSE "failed", blames |-> Blamed(rs)]

FinishNode ==
  /\ Started /\ visiting # Nil
  /\ \E port \in Outcomes(visiting.node), v \in {Nil, 0, 1} :
       LET node == visiting.node
           rs   == Append(nodeRuns, [node |-> node, port |-> port])
           q    == toVisit \o Targets(node, port)
       IN  /\ v # Nil => node = "act"
           /\ Leaves(v) /\ Define(graph.writes)
           /\ nodeRuns' = rs /\ toVisit' = q /\ runEnded' = Over(rs, q)
  /\ visiting' = Nil /\ UNCHANGED <<graph, tpsNow, expired, firstOutputs>>

\* The deadline of the run passes while a node executes; the server's figure changes.
Expire ==
  /\ Started /\ visiting # Nil /\ expired = Nil /\ expired' = Len(nodeRuns)
  /\ UNCHANGED <<graph, outputs, custom, tpsNow, toVisit, visiting, nodeRuns, runEnded, firstOutputs>>

Changes ==
  /\ Started /\ tpsNow = 1 /\ tpsNow' = 2
  /\ UNCHANGED <<graph, outputs, custom, toVisit, visiting, nodeRuns, expired, runEnded, firstOutputs>>

RunNext ==
  \/ graph = NoGraph /\ \E g \in Graphs : Meaningful(g) /\ RunGraph(g)
  \/ StartNode \/ FinishNode \/ Expire \/ Changes

-----------------------------------------------------------------------------
(* Every arrival executes its node, once, and nothing else is executed; a    *)
(* data node has one value for the whole run, whatever changes meanwhile;    *)
(* nothing is begun past the deadline; and the run is a success exactly when *)
(* nothing failed, else it blames the first that did, or the limit.          *)
Count(n, s) == Len(SelectSeq(s, LAMBDA x : x = n))
Visited == [i \in DOMAIN nodeRuns |-> nodeRuns[i].node]
Arrivals(n) == FoldLeft(LAMBDA k, r : k + Count(n, Targets(r.node, r.port)), 0, nodeRuns)

RunIsSound ==
  /\ Started \/ runEnded.how \in {"success", "failed"} =>
       \A n \in Nodes : Count(n, Visited) + Count(n, toVisit)
                          + (IF visiting # Nil /\ visiting.node = n THEN 1 ELSE 0)
                        = Arrivals(n) + (IF n = "trigger" THEN 1 ELSE 0)
  /\ \A d \in PureData : outputs[d] = firstOutputs[d]
  /\ expired # Nil => Len(nodeRuns) <= expired + 1
  /\ runEnded.how = "success" =>
       toVisit = <<>> /\ expired = Nil /\ \A i \in DOMAIN nodeRuns : nodeRuns[i].port # "onFailed"
  /\ runEnded.how = "failed" /\ runEnded.blames \in Nodes =>
       \E i \in DOMAIN nodeRuns : /\ nodeRuns[i].port = "onFailed" /\ nodeRuns[i].node = runEnded.blames
                                  /\ \A j \in 1 .. i - 1 : nodeRuns[j].port # "onFailed"
  /\ runEnded.how = "refused" => nodeRuns = <<>> /\ outputs = [n \in Nodes |-> Nil]

-----------------------------------------------------------------------------
(* What fires a graph: the events of a server, and the clock, which a ticker *)
(* looks at every minute, a moment after the minute began.  Time is counted  *)
(* in moments, PerMinute of them to a minute; the wall clock may be set back *)
(* by an hour, and the computer may sleep through a tick.                     *)
triggerVars == <<moment, setBack, tickDue, trigger, graphEnabled, lastFired, firedBefore, promised, promiseBroken>>

Events == {[is |-> "player", type |-> "Joined"], [is |-> "server", type |-> "Crashed"],
           [is |-> "server", type |-> "Stopped"], [is |-> "backup", type |-> "onFailed"],
           [is |-> "tps", type |-> "low"], [is |-> "tps", type |-> "fine"]}
Timed == {"interval", "daily", "cron"}
OnEvent == {"joined", "crashed", "backup", "tps"}
Triggers == Timed \cup OnEvent
Day == MinutesPerHour * HoursPerDay
Clock == 2 * Day      \* the wall minute at moment 0, past any setting back

TriggersTypeOK ==
  /\ moment \in 0 .. MaxTime /\ setBack \in {Nil} \cup 0 .. MaxTime /\ tickDue \in BOOLEAN /\ graphEnabled \in BOOLEAN
  /\ lastFired \in {Nil} \cup 0 .. MaxTime /\ firedBefore \in {Nil} \cup 0 .. MaxTime /\ trigger \in Triggers
  /\ promised \in {Nil} \cup Nat /\ promiseBroken \in BOOLEAN

TriggersInit ==
  /\ moment = 0 /\ setBack = Nil /\ tickDue = FALSE /\ graphEnabled = TRUE
  /\ trigger \in Triggers /\ lastFired = Nil /\ firedBefore = Nil /\ promised = Nil /\ promiseBroken = FALSE

-----------------------------------------------------------------------------
(* The clock and what its fields match.                                     *)

Shift(t) == IF setBack # Nil /\ t >= setBack THEN MinutesPerHour ELSE 0
WallAt(t) == Clock + t \div PerMinute - Shift(t)
Wall == WallAt(moment)
MinuteOf(w) == w % MinutesPerHour
HourOf(w) == (w \div MinutesPerHour) % HoursPerDay

\* A field is any value, every so many, or a list of ranges; the expression here is of
\* a minute and an hour.
AnyValue == [form |-> "any", step |-> 1, ranges |-> {}]
Every(n) == [form |-> "step", step |-> n, ranges |-> {}]
FieldMatches(field, v) ==
  \/ field.form = "any"
  \/ field.form = "step" /\ field.step > 0 /\ v % field.step = 0
  \/ field.form = "list" /\ \E r \in field.ranges : r[1] <= v /\ v <= r[2]
Cron == <<AnyValue, [form |-> "list", step |-> 1, ranges |-> {<<1, 2>>}]>>
CronMatches(w) == FieldMatches(Cron[1], MinuteOf(w)) /\ FieldMatches(Cron[2], HourOf(w))

Rested(gap) == lastFired # Nil => moment - lastFired >= gap
SameDay(s, u) == WallAt(s) \div Day = WallAt(u) \div Day
Interval == EveryMinutes * PerMinute

\* Whether the node fires at this tick.  An interval's first tick only begins it.
FiresNow ==
  \/ trigger = "interval" /\ lastFired # Nil /\ Rested(Interval)
  \/ trigger = "daily" /\ Wall % Day = DailyAt /\ (lastFired # Nil => ~SameDay(lastFired, moment))
  \/ trigger = "cron" /\ CronMatches(Wall) /\ Rested(PerMinute)

\* A bug: the daily trigger only rests for a minute, as a cron does.
FiresNowAgain ==
  \/ trigger = "interval" /\ lastFired # Nil /\ Rested(Interval)
  \/ trigger = "daily" /\ Wall % Day = DailyAt /\ Rested(PerMinute)
  \/ trigger = "cron" /\ CronMatches(Wall) /\ Rested(PerMinute)

\* NextRuns: what the pane is told of its next firing.
Starting(w) == (w + Shift(moment) - Clock) * PerMinute    \* the moment wall minute w begins
DailyNext == LET today == (Wall \div Day) * Day + DailyAt
             IN  Starting(IF today > Wall THEN today ELSE today + Day)
NextFire(fired) ==
  CASE trigger = "interval" -> (IF fired = Nil THEN moment ELSE fired) + Interval
    [] trigger = "daily" -> DailyNext
    [] trigger = "cron" -> Starting(Min({w \in Wall + 1 .. Wall + Day : CronMatches(w)}))
    [] OTHER -> Nil

-----------------------------------------------------------------------------

\* The ticker: every minute, a moment late at most.  What fires runs in its own
\* goroutine, and the next run is announced.  The announcement does not ask whether a
\* daily trigger had its day, nor when a cron last fired.
Fires == lastFired' = moment /\ firedBefore' = lastFired

Tick ==
  /\ tickDue /\ tickDue' = FALSE
  /\ IF graphEnabled /\ FiresNow THEN Fires
     ELSE /\ lastFired' = IF graphEnabled /\ trigger = "interval" /\ lastFired = Nil THEN moment ELSE lastFired
          /\ UNCHANGED firedBefore
  /\ promised' = IF graphEnabled THEN NextFire(lastFired') ELSE Nil
  /\ promiseBroken' = \/ promiseBroken
                      \/ /\ promised # Nil /\ FiresNow # (promised <= moment)
                         /\ trigger = "cron" => Rested(PerMinute)
                         /\ trigger = "daily" /\ lastFired # Nil => ~SameDay(lastFired, moment)
  /\ UNCHANGED <<moment, setBack, trigger, graphEnabled>>

\* An event fires the triggers of its kind in the graphs of its server, in all graphs
\* if it names none; each trigger then rests.
RunServer == IF Owner = "" THEN Active ELSE Owner
AnswersTo(server) == server = "" \/ RunServer = "" \/ RunServer = server
Listens(e) ==
  \/ trigger = "joined" /\ e = [is |-> "player", type |-> "Joined"]
  \/ trigger = "crashed" /\ e = [is |-> "server", type |-> "Crashed"]
  \/ trigger = "backup" /\ e.is = "backup"
  \/ trigger = "tps" /\ e = [is |-> "tps", type |-> "low"]
CooldownAllows == Rested(Cooldown)

Fire(e, server) ==
  /\ graphEnabled /\ AnswersTo(server) /\ Listens(e) /\ CooldownAllows /\ Fires
  /\ UNCHANGED <<moment, setBack, tickDue, trigger, graphEnabled, promised, promiseBroken>>

\* A switch in the moment before a tick is told of the runs after it.
SetEnabled ==
  /\ moment < PerMinute * 2 /\ graphEnabled' = ~graphEnabled
  /\ promised' = IF graphEnabled \/ tickDue THEN Nil ELSE NextFire(lastFired)
  /\ UNCHANGED <<moment, setBack, tickDue, trigger, lastFired, firedBefore, promiseBroken>>

\* Konnekt starts again: nothing is remembered of what fired.
Restart ==
  /\ lastFired # Nil /\ lastFired' = Nil /\ firedBefore' = Nil /\ promised' = Nil /\ tickDue' = FALSE
  /\ UNCHANGED <<moment, setBack, trigger, graphEnabled, promiseBroken>>

Pass ==
  /\ moment < MaxTime /\ ~(tickDue /\ moment % PerMinute = 1)
  /\ moment' = moment + 1 /\ tickDue' = (tickDue \/ (moment + 1) % PerMinute = 0)
  /\ UNCHANGED <<setBack, trigger, graphEnabled, lastFired, firedBefore, promised, promiseBroken>>

Sleep ==
  /\ moment + 2 * PerMinute <= MaxTime /\ ~tickDue /\ moment' = moment + 2 * PerMinute
  /\ promised' = Nil
  /\ UNCHANGED <<setBack, tickDue, trigger, graphEnabled, lastFired, firedBefore, promiseBroken>>

FallBack ==
  /\ setBack = Nil /\ ~tickDue /\ moment < MaxTime /\ moment % PerMinute = 1
  /\ moment' = moment + 1 /\ setBack' = moment + 1 /\ promised' = Nil
  /\ UNCHANGED <<tickDue, trigger, graphEnabled, lastFired, firedBefore, promiseBroken>>

TriggersNext ==
  \/ Tick \/ Pass \/ Sleep \/ FallBack \/ SetEnabled \/ Restart
  \/ \E e \in Events, server \in {"", "s1", "s2"} : Fire(e, server)

-----------------------------------------------------------------------------
(* A daily trigger fires once a day, though the clock is set back over it;   *)
(* an interval's firings are never closer than it says, and no event fires   *)
(* in its cooldown.  While nothing disturbs the clock a time trigger fires   *)
(* at the first tick of the moment it was announced for and not before, a    *)
(* cron that fired within the minute and a day that had its run excepted.    *)
TriggersAreSound ==
  /\ firedBefore # Nil =>
       /\ trigger = "daily" => ~SameDay(firedBefore, lastFired)
       /\ trigger = "interval" => lastFired - firedBefore >= Interval
       /\ trigger = "cron" => lastFired - firedBefore >= PerMinute
       /\ trigger \in OnEvent => lastFired - firedBefore >= Cooldown
  /\ ~promiseBroken
=============================================================================
