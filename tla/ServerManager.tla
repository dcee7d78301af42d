---------------------------- MODULE ServerManager ----------------------------
(***************************************************************************)
(* ServerService (backend/services/server.go): the manager of every server *)
(* instance, its power gate powerMu, its `current` instance, and the power *)
(* actions Start, Stop, Restart, WhileStopped, WhileDown, StopRunning and  *)
(* ForceStop, each as the sequence of critical sections its caller walks   *)
(* through.  An instance is reduced to what its callers rely on: the       *)
(* running flag, the OS process, and one `exited` channel per boot.        *)
(* ServerInstance.tla has the inside of an instance.                       *)
(***************************************************************************)
EXTENDS Naturals, FiniteSets

CONSTANTS
  Servers,      \* the configured servers
  Callers,      \* goroutines calling power actions: UI, scheduler, remote, quit
  Placeholder,  \* the empty-id instance that is current before any start
  Nil,          \* Go's nil: no holder, no previous instance
  MaxBoots      \* bound: boots of one server in a behaviour

ASSUME ManagerAssumption ==
  /\ Placeholder \notin Servers
  /\ Nil \notin Servers \cup Callers \cup {Placeholder}
  /\ MaxBoots \in Nat

VARIABLES
  gate,      \* holder of powerMu, or Nil
  current,   \* the instance the id-less accessors answer from
  running,   \* running[s]: the instance's running flag
  boot,      \* boot[s]: how many processes s has spawned
  proc,      \* proc[s]: the OS process behind s
  unclosed,  \* <<s, b>>: boot b of s has not closed its exited channel
  pc,        \* pc[c]: where caller c is in its power action
  op,        \* op[c]: the power action c is in
  target,    \* target[c]: the server c is acting on
  rest,      \* rest[c]: instances runningInstances has still to ask
  seen,      \* seen[c]: instances it found running
  prev,      \* prev[c]: what setCurrent replaced
  waiting,   \* waiting[c]: the boot whose exited channel c captured
  started    \* observer: the last server whose start succeeded

callerVars == <<pc, op, target, rest, seen, prev, waiting>>
instVars == <<running, boot, proc, unclosed>>
vars == <<gate, current, instVars, callerVars, started>>

Ops == {"None", "Start", "Stop", "Restart", "WhileStopped", "WhileDown",
        "StopRunning", "ForceStop"}

Phases == {"idle", "stop", "grace", "await", "check", "fn", "scan", "next",
           "claim", "boot", "restore", "force", "kill", "release"}

ProcStates == {"none", "alive", "killed", "dead"}

TypeOK ==
  /\ gate \in Callers \cup {Nil}
  /\ current \in Servers \cup {Placeholder}
  /\ running \in [Servers -> BOOLEAN]
  /\ boot \in [Servers -> Nat]
  /\ proc \in [Servers -> ProcStates]
  /\ unclosed \subseteq Servers \X Nat
  /\ pc \in [Callers -> Phases]
  /\ op \in [Callers -> Ops]
  /\ target \in [Callers -> Servers \cup {Nil}]
  /\ rest \in [Callers -> SUBSET Servers]
  /\ seen \in [Callers -> SUBSET Servers]
  /\ prev \in [Callers -> Servers \cup {Placeholder, Nil}]
  /\ waiting \in [Callers -> Nat]
  /\ started \in Servers \cup {Placeholder}

Init ==
  /\ gate = Nil
  /\ current = Placeholder
  /\ running = [s \in Servers |-> FALSE]
  /\ boot = [s \in Servers |-> 0]
  /\ proc = [s \in Servers |-> "none"]
  /\ unclosed = {}
  /\ pc = [c \in Callers |-> "idle"]
  /\ op = [c \in Callers |-> "None"]
  /\ target = [c \in Callers |-> Nil]
  /\ rest = [c \in Callers |-> {}]
  /\ seen = [c \in Callers |-> {}]
  /\ prev = [c \in Callers |-> Nil]
  /\ waiting = [c \in Callers |-> 0]
  /\ started = Placeholder

Goto(c, phase) == pc' = [pc EXCEPT ![c] = phase]

\* Mutant: entering without looking whether the gate is held.
BargeIn(c) == gate' = c

TryLock(c) == gate = Nil /\ gate' = c

\* Mutant: a ForceStop that unlocks a gate it did not take.
UnlockAnyones(c) == gate' = Nil

\* ForceStop unlocks only what its own TryLock took.
Unlock(c) == gate' = IF gate = c THEN Nil ELSE gate

-----------------------------------------------------------------------------
(***************************************************************************)
(* Entering a power action.  TryLock on a held gate returns                *)
(* ErrPowerActionInProgress and changes nothing, so only the acquiring     *)
(* outcome is an action.                                                   *)
(***************************************************************************)
Enter(c, o, s, phase) ==
  /\ pc[c] = "idle"
  /\ TryLock(c)
  /\ op' = [op EXCEPT ![c] = o]
  /\ target' = [target EXCEPT ![c] = s]
  /\ rest' = [rest EXCEPT ![c] = Servers]
  /\ seen' = [seen EXCEPT ![c] = {}]
  /\ Goto(c, phase)
  /\ UNCHANGED <<current, instVars, prev, waiting, started>>

Start(c, s) == Enter(c, "Start", s, "scan")
Stop(c, s) == Enter(c, "Stop", s, "stop")
Restart(c, s) == Enter(c, "Restart", s, "stop")
WhileStopped(c, s) == Enter(c, "WhileStopped", s, "stop")
WhileDown(c, s) == Enter(c, "WhileDown", s, "check")
StopRunning(c) == \E s \in Servers : Enter(c, "StopRunning", s, "scan")

\* ForceStop claims a free gate and goes on without a held one.
ForceStop(c, s) ==
  /\ pc[c] = "idle"
  /\ gate' = IF gate = Nil THEN c ELSE gate
  /\ op' = [op EXCEPT ![c] = "ForceStop"]
  /\ target' = [target EXCEPT ![c] = s]
  /\ Goto(c, "force")
  /\ UNCHANGED <<current, instVars, rest, seen, prev, waiting, started>>

-----------------------------------------------------------------------------
(***************************************************************************)
(* serverInstance.stop: mark and capture under the lock, wait out the      *)
(* grace, kill, wait for the exit.                                         *)
(***************************************************************************)
\* Where a caller goes once its stop leg is over.
AfterStop(c) ==
  IF op[c] = "Restart" THEN "scan"
  ELSE IF op[c] = "WhileStopped" THEN "fn"
  ELSE IF op[c] = "StopRunning" THEN "next"
  ELSE "release"

\* errServerNotRunning: Restart skips the leg, StopRunning ignores it.
AfterNotRunning(c) ==
  IF op[c] = "Restart" THEN "scan"
  ELSE IF op[c] = "StopRunning" THEN "next"
  ELSE "release"

StopLeg(c) ==
  /\ pc[c] = "stop"
  /\ IF running[target[c]]
       THEN /\ waiting' = [waiting EXCEPT ![c] = boot[target[c]]]
            /\ Goto(c, "grace")
       ELSE /\ Goto(c, AfterNotRunning(c))
            /\ UNCHANGED waiting
  /\ UNCHANGED <<gate, current, instVars, op, target, rest, seen, prev, started>>

\* Mutants: a kill that does not look for a living process, and one that a
\* ForceStop going ahead without the gate leaves out.
KillBlindly(c) == proc' = [proc EXCEPT ![target[c]] = "killed"]

KillOnlyUnderGate(c) ==
  proc' = IF proc[target[c]] = "alive" /\ boot[target[c]] = waiting[c] /\ gate = c
            THEN [proc EXCEPT ![target[c]] = "killed"]
            ELSE proc

\* killTree of the captured pid: a process of an earlier boot is past killing.
KillCaptured(c) ==
  proc' = IF proc[target[c]] = "alive" /\ boot[target[c]] = waiting[c]
            THEN [proc EXCEPT ![target[c]] = "killed"]
            ELSE proc

GraceOver(c) ==
  /\ pc[c] = "grace"
  /\ KillCaptured(c)
  /\ Goto(c, "await")
  /\ UNCHANGED <<gate, current, running, boot, unclosed, op, target, rest,
                 seen, prev, waiting, started>>

SeeExited(c) ==
  /\ pc[c] \in {"grace", "await"}
  /\ <<target[c], waiting[c]>> \notin unclosed
  /\ Goto(c, AfterStop(c))
  /\ UNCHANGED <<gate, current, instVars, op, target, rest, seen, prev,
                 waiting, started>>

\* forceStop: a server that is not running is already a success.
ForceMark(c) ==
  /\ pc[c] = "force"
  /\ IF running[target[c]]
       THEN /\ waiting' = [waiting EXCEPT ![c] = boot[target[c]]]
            /\ Goto(c, "kill")
       ELSE /\ Goto(c, "release")
            /\ UNCHANGED waiting
  /\ UNCHANGED <<gate, current, instVars, op, target, rest, seen, prev, started>>

ForceKill(c) ==
  /\ pc[c] = "kill"
  /\ KillCaptured(c)
  /\ Goto(c, "await")
  /\ UNCHANGED <<gate, current, running, boot, unclosed, op, target, rest,
                 seen, prev, waiting, started>>

-----------------------------------------------------------------------------
\* WhileDown's check, and the caller's fn of WhileStopped and WhileDown.
CheckDown(c) ==
  /\ pc[c] = "check"
  /\ Goto(c, IF running[target[c]] THEN "release" ELSE "fn")
  /\ UNCHANGED <<gate, current, instVars, op, target, rest, seen, prev,
                 waiting, started>>

FnReturns(c) ==
  /\ pc[c] = "fn"
  /\ Goto(c, IF op[c] = "WhileStopped" THEN "scan" ELSE "release")
  /\ UNCHANGED <<gate, current, instVars, op, target, rest, seen, prev,
                 waiting, started>>

(***************************************************************************)
(* runningInstances asks the instances one by one, each under its own      *)
(* lock, with the manager's lock released.                                 *)
(***************************************************************************)
AskRunning(c, s) ==
  /\ pc[c] = "scan"
  /\ s \in rest[c]
  /\ rest' = [rest EXCEPT ![c] = @ \ {s}]
  /\ seen' = [seen EXCEPT ![c] = IF running[s] THEN @ \cup {s} ELSE @]
  /\ UNCHANGED <<gate, current, instVars, pc, op, target, prev, waiting, started>>

ScanDone(c) ==
  /\ pc[c] = "scan"
  /\ rest[c] = {}
  /\ Goto(c, IF op[c] = "StopRunning" THEN "next"
             ELSE IF seen[c] # {} THEN "release"
             ELSE "claim")
  /\ UNCHANGED <<gate, current, instVars, op, target, rest, seen, prev,
                 waiting, started>>

\* StopRunning's loop over what the scan found.
NextToStop(c) ==
  /\ pc[c] = "next"
  /\ \/ /\ seen[c] = {}
        /\ Goto(c, "release")
        /\ UNCHANGED <<target, seen>>
     \/ \E s \in seen[c] :
          /\ target' = [target EXCEPT ![c] = s]
          /\ seen' = [seen EXCEPT ![c] = @ \ {s}]
          /\ Goto(c, "stop")
  /\ UNCHANGED <<gate, current, instVars, op, rest, prev, waiting, started>>

-----------------------------------------------------------------------------
(***************************************************************************)
(* startInstance after its scan: setCurrent, instance.start, and           *)
(* restoreCurrent when the boot failed.                                    *)
(***************************************************************************)
SetCurrent(c) ==
  /\ pc[c] = "claim"
  /\ prev' = [prev EXCEPT ![c] = current]
  /\ current' = target[c]
  /\ Goto(c, "boot")
  /\ UNCHANGED <<gate, instVars, op, target, rest, seen, waiting, started>>

BootSucceeds(c) ==
  /\ pc[c] = "boot"
  /\ ~ running[target[c]]
  /\ boot[target[c]] < MaxBoots
  /\ running' = [running EXCEPT ![target[c]] = TRUE]
  /\ boot' = [boot EXCEPT ![target[c]] = @ + 1]
  /\ proc' = [proc EXCEPT ![target[c]] = "alive"]
  /\ unclosed' = unclosed \cup {<<target[c], boot[target[c]] + 1>>}
  /\ started' = target[c]
  /\ Goto(c, "release")
  /\ UNCHANGED <<gate, current, op, target, rest, seen, prev, waiting>>

\* Mutant: a failed boot that leaves current on the server that did not start.
BootFailsUnrestored(c) ==
  /\ pc[c] = "boot"
  /\ Goto(c, "release")
  /\ UNCHANGED <<gate, current, instVars, op, target, rest, seen, prev,
                 waiting, started>>

\* Already running, no java, no launcher, a pipe or the spawn failing.
BootFails(c) ==
  /\ pc[c] = "boot"
  /\ Goto(c, "restore")
  /\ UNCHANGED <<gate, current, instVars, op, target, rest, seen, prev,
                 waiting, started>>

\* Mutant: restoring to no instance at all, which the accessors dereference.
RestoreToNothing(c) ==
  /\ pc[c] = "restore"
  /\ current' = IF current = target[c] THEN Nil ELSE current
  /\ Goto(c, "release")
  /\ UNCHANGED <<gate, instVars, op, target, rest, seen, prev, waiting, started>>

RestoreCurrent(c) ==
  /\ pc[c] = "restore"
  /\ current' = IF current = target[c] /\ prev[c] # Nil THEN prev[c] ELSE current
  /\ Goto(c, "release")
  /\ UNCHANGED <<gate, instVars, op, target, rest, seen, prev, waiting, started>>

\* The deferred Unlock; the call's locals are gone with it.
Release(c) ==
  /\ pc[c] = "release"
  /\ Unlock(c)
  /\ op' = [op EXCEPT ![c] = "None"]
  /\ target' = [target EXCEPT ![c] = Nil]
  /\ rest' = [rest EXCEPT ![c] = {}]
  /\ seen' = [seen EXCEPT ![c] = {}]
  /\ prev' = [prev EXCEPT ![c] = Nil]
  /\ waiting' = [waiting EXCEPT ![c] = 0]
  /\ Goto(c, "idle")
  /\ UNCHANGED <<current, instVars, started>>

-----------------------------------------------------------------------------
(***************************************************************************)
(* The process and waitForExit.  A process may end at any time: a crash,   *)
(* an operator's /stop, the stop it was asked for, or a kill.              *)
(***************************************************************************)
ProcessExits(s) ==
  /\ proc[s] \in {"alive", "killed"}
  /\ proc' = [proc EXCEPT ![s] = "dead"]
  /\ UNCHANGED <<gate, current, running, boot, unclosed, callerVars, started>>

KilledExits(s) == proc[s] = "killed" /\ ProcessExits(s)

\* waitForExit's critical section: running becomes false.
TearDown(s) ==
  /\ proc[s] = "dead"
  /\ running' = [running EXCEPT ![s] = FALSE]
  /\ proc' = [proc EXCEPT ![s] = "none"]
  /\ UNCHANGED <<gate, current, boot, unclosed, callerVars, started>>

\* Mutant: exited closed before the critical section that clears running.
CloseExitedEarly(s, b) ==
  /\ <<s, b>> \in unclosed
  /\ proc[s] = "dead"
  /\ unclosed' = unclosed \ {<<s, b>>}
  /\ UNCHANGED <<gate, current, running, boot, proc, callerVars, started>>

\* waitForExit's last act, on the channel captured inside that section.
CloseExited(s, b) ==
  /\ <<s, b>> \in unclosed
  /\ ~ (running[s] /\ boot[s] = b)
  /\ unclosed' = unclosed \ {<<s, b>>}
  /\ UNCHANGED <<gate, current, running, boot, proc, callerVars, started>>

-----------------------------------------------------------------------------
\* A caller's own progress once it is inside a power action.
Progress(c) ==
  \/ StopLeg(c) \/ GraceOver(c) \/ SeeExited(c) \/ ForceMark(c) \/ ForceKill(c)
  \/ CheckDown(c) \/ FnReturns(c)
  \/ \E s \in Servers : AskRunning(c, s)
  \/ ScanDone(c) \/ NextToStop(c)
  \/ SetCurrent(c) \/ BootSucceeds(c) \/ BootFails(c) \/ RestoreCurrent(c)
  \/ Release(c)

Request(c) ==
  \/ \E s \in Servers : \/ Start(c, s) \/ Stop(c, s) \/ Restart(c, s)
                        \/ WhileStopped(c, s) \/ WhileDown(c, s)
                        \/ ForceStop(c, s)
  \/ StopRunning(c)

Environment ==
  \E s \in Servers : \/ ProcessExits(s)
                     \/ TearDown(s)
                     \/ \E b \in 1..boot[s] : CloseExited(s, b)

Next ==
  \/ \E c \in Callers : Request(c) \/ Progress(c)
  \/ Environment

Spec == Init /\ [][Next]_vars

(***************************************************************************)
(* Goroutines are scheduled, a killed process dies, fn returns.  A process *)
(* that nobody kills may run for ever, and nobody has to ask for anything. *)
(***************************************************************************)
Fairness ==
  /\ \A c \in Callers : WF_vars(Progress(c))
  /\ \A s \in Servers :
       /\ WF_vars(KilledExits(s))
       /\ WF_vars(TearDown(s))
       /\ WF_vars(\E b \in 1..boot[s] : CloseExited(s, b))

FairSpec == Spec /\ Fairness

-----------------------------------------------------------------------------
Gated(c) == op[c] \notin {"None", "ForceStop"}

\* One running server at a time, app-wide, whatever power actions, force
\* stops and crashes interleave (ServerService, anyRunning, startInstance).
OneServerAtATime ==
  \A s, t \in Servers : running[s] /\ running[t] => s = t

\* Every power action but ForceStop holds the gate from its TryLock to its
\* return, so no ForceStop may ever release a gate it did not take.
PowerActionHoldsGate == \A c \in Callers : Gated(c) => gate = c

\* While WhileStopped or WhileDown runs its fn (a snapshot reading the
\* world's databases), the server's process is gone and stays gone.
FnWhileProcessGone ==
  \A c \in Callers : pc[c] = "fn" => /\ ~ running[target[c]]
                                     /\ proc[target[c]] = "none"

\* Outside a boot in flight, current is the last server that really started:
\* a refused or failed start leaves the readable state alone.
CurrentIsLastStarted ==
  (\A c \in Callers : pc[c] \notin {"boot", "restore"}) => current = started

\* Restart's own stop leg never makes its start leg fail with "server
\* already running": when it scans, its server has been torn down.
RestartNotRefusedByItself ==
  \A c \in Callers :
    pc[c] \in {"scan", "claim", "boot"} /\ op[c] \in {"Restart", "WhileStopped"}
      => ~ running[target[c]]

\* A stop or force stop that saw its exited channel close returns only after
\* the boot it captured was torn down, even when a later boot is up by then.
AwaitedBootIsGone ==
  [][\A c \in Callers :
       pc[c] \in {"grace", "await"} /\ pc'[c] \notin {"grace", "await"}
         => ~ (running[target[c]] /\ boot[target[c]] = waiting[c])]_vars

\* Every power action returns, and so the gate is always given back: a
\* process that ignores its stop is killed once the grace is over.
EveryCallReturns ==
  \A c \in Callers : pc[c] # "idle" ~> pc[c] = "idle"

-----------------------------------------------------------------------------
\* Server s as its instance: what ServerInstance.tla implements.
Contract(s) == INSTANCE InstanceContract WITH
  running <- running[s],
  boot <- boot[s],
  proc <- proc[s],
  unclosed <- {b \in 1..boot[s] : <<s, b>> \in unclosed}

ContractStep(s) == [Contract(s)!Next]_(Contract(s)!contractVars)

\* Whatever its callers do, each server behaves as an instance promises: the
\* manager asks nothing of an instance that ServerInstance does not give.
InstancesKeepContract ==
  /\ \A s \in Servers : Contract(s)!Init
  /\ [][\A s \in Servers : ContractStep(s)]_vars

=============================================================================
