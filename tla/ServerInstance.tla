---------------------------- MODULE ServerInstance ----------------------------
(***************************************************************************)
(* serverInstance (backend/services/server.go, serverinstance.go): one     *)
(* configured server over several boots.  Every boot leaves goroutines     *)
(* behind: the console reader, waitForExit, watchStarting, and, once it    *)
(* crashed or saved, watchExitDeadline.  They share the lifecycle fields   *)
(* under s.mu with the callers of stop, start and forceStop; an action is  *)
(* one critical section or one blocking wait.  The console text is its     *)
(* matched kind; players, narration and the stats fields are left out.     *)
(***************************************************************************)
EXTENDS Naturals, FiniteSets

CONSTANTS
  MaxBoots,     \* bound: processes spawned in a behaviour
  RconReady,    \* is RCON configured for this server?
  ReadersLag    \* may a reader still hold an old boot's line after the next
                \* boot?  Nothing in the code waits for it.

ASSUME InstanceAssumption ==
  MaxBoots \in Nat \ {0} /\ RconReady \in BOOLEAN /\ ReadersLag \in BOOLEAN

Boots == 1..MaxBoots

VARIABLES
  running, state, expectedStop, crashed, deadlineArmed,
  exited,      \* the boot whose channel s.exited is, 0 for one no waiter has
  tpsChan,     \* the boot whose channel s.stopTPS is, 0 for nil
  tpsOnce,     \* whether s.tpsOnce is spent
  pollers,     \* boots whose pollTPS goroutine has not been told to stop
  lastStop,    \* the record of the latest exit, which server:stopped carries
  boot,        \* boots so far
  proc,        \* proc[b]: the process of boot b
  reader,      \* reader[b]: the console line in the reader's hands
  waiter,      \* waiter[b]: where boot b's waitForExit is
  toClose,     \* toClose[b]: the channel it captured
  startWatch,  \* startWatch[b]: where boot b's watchStarting is
  deadWatch,   \* deadWatch[b]: where boot b's watchExitDeadline is
  closed,      \* boots whose exited channel is closed
  stopped,     \* boots whose server:stopped event was emitted
  stopper,     \* the gated caller inside stop(): phase and captured boot
  forcer,      \* the caller inside forceStop(): phase and captured boot
  ending,      \* observer: boots a stop was asked for, or that printed a
               \* shutdown or a crash line
  crashSeen    \* observer: boots whose own crash line was read before the exit

lifecycle == <<running, state, expectedStop, crashed, deadlineArmed, exited>>
poll == <<tpsChan, tpsOnce, pollers>>
goroutines == <<reader, waiter, toClose, startWatch, deadWatch>>
exits == <<lastStop, closed, stopped>>
callers == <<stopper, forcer>>
observers == <<ending, crashSeen>>
vars == <<lifecycle, poll, goroutines, exits, callers, observers, boot, proc>>

\* What the matchers of streamOutput tell apart.
Lines == {"ready", "stop", "crash", "saved"}
States == {"offline", "starting", "running", "stopping"}

TypeOK ==
  /\ running \in BOOLEAN /\ state \in States
  /\ expectedStop \in BOOLEAN /\ crashed \in BOOLEAN /\ deadlineArmed \in BOOLEAN
  /\ exited \in 0..MaxBoots
  /\ tpsChan \in 0..MaxBoots /\ tpsOnce \in BOOLEAN /\ pollers \subseteq Boots
  /\ lastStop \in {"none", "expected", "unexpected"}
  /\ boot \in 0..MaxBoots
  /\ proc \in [Boots -> {"none", "alive", "termed", "killed", "dead"}]
  /\ reader \in [Boots -> Lines \cup {"none", "arm"}]
  /\ waiter \in [Boots -> {"none", "wait", "poll", "exit", "emit", "close", "done"}]
  /\ toClose \in [Boots -> 0..MaxBoots]
  /\ startWatch \in [Boots -> {"none", "waiting", "done"}]
  /\ deadWatch \in [Boots -> {"none", "waiting", "term", "termwait",
                              "kill", "await", "done"}]
  /\ closed \subseteq Boots /\ stopped \subseteq Boots
  /\ stopper \in [phase : {"idle", "half", "rest", "await"}, boot : 0..MaxBoots]
  /\ forcer \in [phase : {"idle", "kill", "await"}, boot : 0..MaxBoots]
  /\ ending \subseteq Boots /\ crashSeen \subseteq Boots

Init ==
  /\ running = FALSE /\ state = "offline"
  /\ expectedStop = FALSE /\ crashed = FALSE /\ deadlineArmed = FALSE
  /\ exited = 0
  /\ tpsChan = 0 /\ tpsOnce = FALSE /\ pollers = {}
  /\ lastStop = "none"
  /\ boot = 0
  /\ proc = [b \in Boots |-> "none"]
  /\ reader = [b \in Boots |-> "none"]
  /\ waiter = [b \in Boots |-> "none"]
  /\ toClose = [b \in Boots |-> 0]
  /\ startWatch = [b \in Boots |-> "none"]
  /\ deadWatch = [b \in Boots |-> "none"]
  /\ closed = {} /\ stopped = {}
  /\ stopper = [phase |-> "idle", boot |-> 0]
  /\ forcer = [phase |-> "idle", boot |-> 0]
  /\ ending = {} /\ crashSeen = {}

-----------------------------------------------------------------------------
(***************************************************************************)
(* Critical-section fragments shared by several goroutines.                *)
(***************************************************************************)
\* startTPSPollLocked: a new channel, a new Once and a poller on it, a no-op
\* without RCON.
StartTPSPoll ==
  IF RconReady
    THEN /\ tpsChan' = boot
         /\ tpsOnce' = FALSE
         /\ pollers' = pollers \cup {boot}
    ELSE UNCHANGED poll

EnterRunning == state' = "running" /\ StartTPSPoll

\* Mutants: a late Done line or timer that is not gated on starting, and a
\* promotion left to RCON where there is one.
AlwaysPromote == EnterRunning

PromoteUnlessRcon ==
  IF state = "starting" /\ ~ RconReady THEN EnterRunning ELSE UNCHANGED <<state, poll>>

\* What a Done line and the start timer do: only starting becomes running.
Promote ==
  IF state = "starting" THEN EnterRunning ELSE UNCHANGED <<state, poll>>

\* stopTPSPoll: the Once closes the current channel, if there is one.
StopTPSPoll ==
  /\ tpsOnce' = TRUE
  /\ pollers' = IF tpsOnce THEN pollers ELSE pollers \ {tpsChan}
  /\ UNCHANGED tpsChan

\* Mutant: a state of a name that nothing else knows.
ShutdownRenamed == state' = IF state \in {"starting", "running"} THEN "stopped" ELSE state

\* A console line's move to stopping, gated against a late line.
ShutdownSeen == state' = IF state \in {"starting", "running"} THEN "stopping" ELSE state

\* killTree and termTree aim at a pid: only a living process hears them, and
\* a SIGTERM may be ignored.
Living(b) == proc[b] \in {"alive", "termed"}

\* Mutants: a kill of a pid that may be gone, and one that a process which
\* already got its SIGTERM is spared.
KillUnchecked(b) == proc' = [proc EXCEPT ![b] = "killed"]

KillUntermed(b) ==
  proc' = IF proc[b] = "alive" THEN [proc EXCEPT ![b] = "killed"] ELSE proc

KillTree(b) == proc' = IF Living(b) THEN [proc EXCEPT ![b] = "killed"] ELSE proc

TermTree(b) == proc' = IF Living(b) THEN [proc EXCEPT ![b] = "termed"] ELSE proc

-----------------------------------------------------------------------------
(***************************************************************************)
(* start.  The power gate keeps it apart from stop(), not from forceStop() *)
(* nor from what earlier boots left behind.                                *)
(***************************************************************************)
OldReadersDrained == ReadersLag \/ \A b \in Boots : reader[b] = "none"

\* Mutant: the last boot's deliberate stop is not forgotten.
FlagsKeepStop ==
  UNCHANGED expectedStop /\ crashed' = FALSE /\ deadlineArmed' = FALSE

FreshFlags == expectedStop' = FALSE /\ crashed' = FALSE /\ deadlineArmed' = FALSE

StartSpawns ==
  /\ stopper.phase = "idle"
  /\ ~ running
  /\ boot < MaxBoots
  /\ OldReadersDrained
  /\ running' = TRUE
  /\ state' = "starting"
  /\ FreshFlags
  /\ exited' = boot + 1
  /\ boot' = boot + 1
  /\ proc' = [proc EXCEPT ![boot + 1] = "alive"]
  /\ waiter' = [waiter EXCEPT ![boot + 1] = "wait"]
  /\ startWatch' = [startWatch EXCEPT ![boot + 1] = "waiting"]
  /\ UNCHANGED <<poll, reader, toClose, deadWatch, exits, callers, observers>>

\* No launch command changes nothing; a pipe or the spawn fails after s.cmd
\* and s.exited were replaced.
StartFails ==
  /\ stopper.phase = "idle"
  /\ ~ running
  /\ exited' \in {exited, 0}
  /\ UNCHANGED <<running, state, expectedStop, crashed, deadlineArmed, poll,
                 goroutines, exits, callers, observers, boot, proc>>

-----------------------------------------------------------------------------
(***************************************************************************)
(* stop: mark, wait half the grace, SIGTERM, wait the rest, kill, wait.    *)
(***************************************************************************)
StopMark ==
  /\ stopper.phase = "idle"
  /\ running
  /\ expectedStop' = TRUE
  /\ state' = "stopping"
  /\ StopTPSPoll
  /\ stopper' = [phase |-> "half", boot |-> exited]
  /\ ending' = ending \cup {exited}
  /\ UNCHANGED <<running, crashed, deadlineArmed, exited, goroutines, exits,
                 forcer, crashSeen, boot, proc>>

HalfGraceOver ==
  /\ stopper.phase = "half"
  /\ TermTree(stopper.boot)
  /\ stopper' = [stopper EXCEPT !.phase = "rest"]
  /\ UNCHANGED <<lifecycle, poll, goroutines, exits, forcer, observers, boot>>

GraceOver ==
  /\ stopper.phase = "rest"
  /\ KillTree(stopper.boot)
  /\ stopper' = [stopper EXCEPT !.phase = "await"]
  /\ UNCHANGED <<lifecycle, poll, goroutines, exits, forcer, observers, boot>>

StopReturns ==
  /\ stopper.phase # "idle"
  /\ stopper.boot \in closed
  /\ stopper' = [phase |-> "idle", boot |-> 0]
  /\ UNCHANGED <<lifecycle, poll, goroutines, exits, forcer, observers, boot, proc>>

\* forceStop: mark, then kill outside the lock, then wait.
ForceMark ==
  /\ forcer.phase = "idle"
  /\ running
  /\ expectedStop' = TRUE
  /\ state' = "stopping"
  /\ forcer' = [phase |-> "kill", boot |-> exited]
  /\ ending' = ending \cup {exited}
  /\ UNCHANGED <<running, crashed, deadlineArmed, exited, poll, goroutines,
                 exits, stopper, crashSeen, boot, proc>>

ForceKill ==
  /\ forcer.phase = "kill"
  /\ KillTree(forcer.boot)
  /\ forcer' = [forcer EXCEPT !.phase = "await"]
  /\ UNCHANGED <<lifecycle, poll, goroutines, exits, stopper, observers, boot>>

ForceReturns ==
  /\ forcer.phase = "await"
  /\ forcer.boot \in closed
  /\ forcer' = [phase |-> "idle", boot |-> 0]
  /\ UNCHANGED <<lifecycle, poll, goroutines, exits, stopper, observers, boot, proc>>

-----------------------------------------------------------------------------
(***************************************************************************)
(* The process, and its console reader.  A living process may print any    *)
(* line and may end at any time.  Wait closes the pipes on an exit, but    *)
(* the line already in the reader's hands is still processed.              *)
(***************************************************************************)
Prints(b, line) ==
  /\ Living(b)
  /\ reader[b] = "none"
  /\ reader' = [reader EXCEPT ![b] = line]
  /\ ending' = IF line \in {"stop", "crash"} THEN ending \cup {b} ELSE ending
  /\ UNCHANGED <<lifecycle, poll, waiter, toClose, startWatch, deadWatch, exits,
                 callers, crashSeen, boot, proc>>

ProcessExits(b) ==
  /\ proc[b] \in {"alive", "termed", "killed"}
  /\ proc' = [proc EXCEPT ![b] = "dead"]
  /\ UNCHANGED <<lifecycle, poll, goroutines, exits, callers, observers, boot>>

ReadStop(b) ==
  /\ reader[b] = "stop"
  /\ expectedStop' = TRUE
  /\ ShutdownSeen
  /\ reader' = [reader EXCEPT ![b] = "none"]
  /\ UNCHANGED <<running, crashed, deadlineArmed, exited, poll, waiter, toClose,
                 startWatch, deadWatch, exits, callers, observers, boot, proc>>

\* The first crash line of the boot goes on to arm the exit deadline.
ReadCrash(b) ==
  /\ reader[b] = "crash"
  /\ crashed' = TRUE
  /\ ShutdownSeen
  /\ reader' = [reader EXCEPT ![b] = IF crashed THEN "none" ELSE "arm"]
  /\ crashSeen' = IF running /\ exited = b THEN crashSeen \cup {b} ELSE crashSeen
  /\ UNCHANGED <<running, expectedStop, deadlineArmed, exited, poll, waiter,
                 toClose, startWatch, deadWatch, exits, callers, ending, boot,
                 proc>>

ReadReady(b) ==
  /\ reader[b] = "ready"
  /\ Promote
  /\ reader' = [reader EXCEPT ![b] = "none"]
  /\ UNCHANGED <<running, expectedStop, crashed, deadlineArmed, exited, waiter,
                 toClose, startWatch, deadWatch, exits, callers, observers,
                 boot, proc>>

\* Mutants: any save arms it, and only an expected stop does.
ArmsOnAnySave == running /\ ~ deadlineArmed
ArmsOnStopOnly == running /\ state = "stopping" /\ expectedStop /\ ~ deadlineArmed

\* armExitDeadline, after a saved line or a first crash line.
ArmsDeadline == running /\ state = "stopping" /\ ~ deadlineArmed

ArmExitDeadline(b) ==
  /\ reader[b] \in {"saved", "arm"}
  /\ IF ArmsDeadline
       THEN /\ deadlineArmed' = TRUE
            /\ deadWatch' = [deadWatch EXCEPT ![exited] = "waiting"]
       ELSE UNCHANGED <<deadlineArmed, deadWatch>>
  /\ reader' = [reader EXCEPT ![b] = "none"]
  /\ UNCHANGED <<running, state, expectedStop, crashed, exited, poll, waiter,
                 toClose, startWatch, exits, callers, observers, boot, proc>>

-----------------------------------------------------------------------------
(***************************************************************************)
(* watchStarting and watchExitDeadline: a select on the boot's channel and *)
(* a timer.  With both ready select picks either, and after the timer the  *)
(* goroutine still has to get s.mu: the locked section may therefore come  *)
(* after the close of the channel the select was watching.                 *)
(***************************************************************************)
StartCancelled(b) ==
  /\ startWatch[b] = "waiting"
  /\ b \in closed
  /\ startWatch' = [startWatch EXCEPT ![b] = "done"]
  /\ UNCHANGED <<lifecycle, poll, reader, waiter, toClose, deadWatch, exits,
                 callers, observers, boot, proc>>

PromoteStarting(b) ==
  /\ startWatch[b] = "waiting"
  /\ Promote
  /\ startWatch' = [startWatch EXCEPT ![b] = "done"]
  /\ UNCHANGED <<running, expectedStop, crashed, deadlineArmed, exited, reader,
                 waiter, toClose, deadWatch, exits, callers, observers, boot, proc>>

deadWatchOnly == <<lifecycle, poll, reader, waiter, toClose, startWatch, exits,
                   callers, observers, boot>>

\* The waits on exited: before the deadline, after SIGTERM, after the kill.
DeadlineExited(b) ==
  /\ deadWatch[b] \in {"waiting", "termwait", "await"}
  /\ b \in closed
  /\ deadWatch' = [deadWatch EXCEPT ![b] = "done"]
  /\ UNCHANGED <<deadWatchOnly, proc>>

DeadlineMark(b) ==
  /\ deadWatch[b] = "waiting"
  /\ IF exited = b
       THEN /\ expectedStop' = TRUE
            /\ state' = "stopping"
            /\ deadWatch' = [deadWatch EXCEPT ![b] = "term"]
       ELSE /\ deadWatch' = [deadWatch EXCEPT ![b] = "done"]
            /\ UNCHANGED <<expectedStop, state>>
  /\ UNCHANGED <<running, crashed, deadlineArmed, exited, poll, reader, waiter,
                 toClose, startWatch, exits, callers, observers, boot, proc>>

\* endTree: no SIGTERM to deliver goes straight to the kill.
DeadlineTerm(b) ==
  /\ deadWatch[b] = "term"
  /\ TermTree(b)
  /\ deadWatch' = [deadWatch EXCEPT ![b] = IF Living(b) THEN "termwait" ELSE "kill"]
  /\ UNCHANGED deadWatchOnly

TermWaitOver(b) ==
  /\ deadWatch[b] = "termwait"
  /\ deadWatch' = [deadWatch EXCEPT ![b] = "kill"]
  /\ UNCHANGED <<deadWatchOnly, proc>>

DeadlineKill(b) ==
  /\ deadWatch[b] = "kill"
  /\ KillTree(b)
  /\ deadWatch' = [deadWatch EXCEPT ![b] = "await"]
  /\ UNCHANGED deadWatchOnly

-----------------------------------------------------------------------------
(***************************************************************************)
(* waitForExit: Wait returns, stop the TPS poll, the critical section that *)
(* takes the machine offline, the stopped event, the close.                *)
(***************************************************************************)
WaitReturns(b) ==
  /\ waiter[b] = "wait"
  /\ proc[b] = "dead"
  /\ waiter' = [waiter EXCEPT ![b] = "poll"]
  /\ UNCHANGED <<lifecycle, poll, reader, toClose, startWatch, deadWatch, exits,
                 callers, observers, boot, proc>>

ExitStopsPoll(b) ==
  /\ waiter[b] = "poll"
  /\ StopTPSPoll
  /\ waiter' = [waiter EXCEPT ![b] = "exit"]
  /\ UNCHANGED <<lifecycle, reader, toClose, startWatch, deadWatch, exits,
                 callers, observers, boot, proc>>

\* Mutant: expectedStop alone decides.
VerdictByStop == IF expectedStop THEN "expected" ELSE "unexpected"

\* What is recorded of the exit: a crash wins over a stop.
Verdict == IF expectedStop /\ ~ crashed THEN "expected" ELSE "unexpected"

GoOffline(b) ==
  /\ waiter[b] = "exit"
  /\ running' = FALSE
  /\ state' = "offline"
  /\ lastStop' = Verdict
  /\ toClose' = [toClose EXCEPT ![b] = exited]
  /\ waiter' = [waiter EXCEPT ![b] = "emit"]
  /\ UNCHANGED <<expectedStop, crashed, deadlineArmed, exited, poll, reader,
                 startWatch, deadWatch, closed, stopped, callers, observers,
                 boot, proc>>

EmitStopped(b) ==
  /\ waiter[b] = "emit"
  /\ stopped' = stopped \cup {b}
  /\ waiter' = [waiter EXCEPT ![b] = "close"]
  /\ UNCHANGED <<lifecycle, poll, reader, toClose, startWatch, deadWatch,
                 lastStop, closed, callers, observers, boot, proc>>

\* Mutant: the close reads s.exited again instead of the captured channel.
CloseLatest(b) == closed' = closed \cup {exited}

CloseCaptured(b) == closed' = closed \cup {toClose[b]}

CloseExited(b) ==
  /\ waiter[b] = "close"
  /\ CloseCaptured(b)
  /\ toClose' = [toClose EXCEPT ![b] = 0]
  /\ ending' = ending \ {b} /\ crashSeen' = crashSeen \ {b}
  /\ waiter' = [waiter EXCEPT ![b] = "done"]
  /\ UNCHANGED <<lifecycle, poll, reader, startWatch, deadWatch,
                 lastStop, stopped, callers, boot, proc>>

-----------------------------------------------------------------------------
Request == StartSpawns \/ StartFails \/ StopMark \/ ForceMark

StopProgress == HalfGraceOver \/ GraceOver \/ StopReturns
ForceProgress == ForceKill \/ ForceReturns

ReaderStep(b) == ReadStop(b) \/ ReadCrash(b) \/ ReadReady(b) \/ ArmExitDeadline(b)

StartWatchStep(b) == StartCancelled(b) \/ PromoteStarting(b)

DeadWatchStep(b) ==
  \/ DeadlineExited(b) \/ DeadlineMark(b)
  \/ DeadlineTerm(b) \/ TermWaitOver(b) \/ DeadlineKill(b)

WaiterStep(b) ==
  \/ WaitReturns(b) \/ ExitStopsPoll(b) \/ GoOffline(b)
  \/ EmitStopped(b) \/ CloseExited(b)

Process(b) == ProcessExits(b) \/ \E line \in Lines : Prints(b, line)

Next ==
  \/ Request \/ StopProgress \/ ForceProgress
  \/ \E b \in Boots : \/ ReaderStep(b) \/ StartWatchStep(b) \/ DeadWatchStep(b)
                      \/ WaiterStep(b) \/ Process(b)

Spec == Init /\ [][Next]_vars

(***************************************************************************)
(* Every goroutine is scheduled and every timer fires; a killed process    *)
(* dies.  Nothing makes a process print, exit or be stopped.               *)
(***************************************************************************)
Fairness ==
  /\ WF_vars(StopProgress) /\ WF_vars(ForceProgress)
  /\ \A b \in Boots :
       /\ WF_vars(ReaderStep(b)) /\ WF_vars(StartWatchStep(b))
       /\ WF_vars(DeadWatchStep(b)) /\ WF_vars(WaiterStep(b))
       /\ WF_vars(proc[b] = "killed" /\ ProcessExits(b))

FairSpec == Spec /\ Fairness

-----------------------------------------------------------------------------
\* Boot b's exit is being recorded.
Recorded(b) == waiter[b] = "exit" /\ waiter'[b] # "exit"

\* A boot that crashed is recorded as a crash, whatever stop, force stop or
\* exit deadline followed the crash line (waitForExit, #579).
CrashWins ==
  [][\A b \in crashSeen : Recorded(b) => lastStop' = "unexpected"]_vars

\* An exit is recorded as deliberate only for a boot somebody asked to stop
\* or that announced its own shutdown: no flag of an earlier boot leaks.
ExpectedIsDeliberate ==
  [][\A b \in Boots : Recorded(b) /\ lastStop' = "expected" => b \in ending]_vars

\* A server nobody stopped and that reported neither a shutdown nor a crash
\* is never signalled: a save-all flush arms no exit deadline.
HealthyServerNeverKilled ==
  \A b \in Boots : proc[b] \in {"termed", "killed"} => b \in ending

\* A machine whose process is gone is never starting nor running: a late
\* Done line or a late start timer cannot resurrect it.
NoResurrection == state \in {"starting", "running"} => running

\* stop() and forceStop() return after the boot they captured is torn down
\* and its stopped event is out.
StopReturnsAfterStopped ==
  [][/\ stopper.phase # "idle" /\ stopper'.phase = "idle" => stopper.boot \in stopped
     /\ forcer.phase # "idle" /\ forcer'.phase = "idle" => forcer.boot \in stopped]_vars

\* Known not to hold.  What models.ServerStatus says of its two fields: Running
\* is true through starting, running and stopping.
RunningThroughStopping == state # "offline" => running

\* Known not to hold.  A poller has been told to stop by the time its boot's
\* channel closes.
PollerStopsWithItsBoot == pollers \cap closed = {}

\* A stop and a force stop always return.
StopsReturn == /\ stopper.phase # "idle" ~> stopper.phase = "idle"
               /\ forcer.phase # "idle" ~> forcer.phase = "idle"

\* A boot never stays in starting, even if it never prints its ready line.
StartingResolves == state = "starting" ~> state # "starting"

\* A process that reported a crash ends, even one that hangs after it (#579).
CrashedProcessEnds == \A b \in Boots : b \in crashSeen ~> proc[b] = "dead"

-----------------------------------------------------------------------------
(***************************************************************************)
(* The instance as its manager sees it: its process only while it runs, a  *)
(* SIGTERM not at all, and the channels of the boots so far.               *)
(***************************************************************************)
Contract == INSTANCE InstanceContract WITH
  proc <- IF ~ running THEN "none"
          ELSE IF proc[boot] = "termed" THEN "alive"
          ELSE proc[boot],
  unclosed <- (1..boot) \ closed

\* Every boot, stop, force stop, deadline and exit of an instance keeps the
\* contract the manager relies on, including that it all comes to an end.
KeepsContract == Contract!Spec
KeepsFairContract == Contract!FairSpec

=============================================================================
