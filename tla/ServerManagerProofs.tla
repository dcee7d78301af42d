------------------------- MODULE ServerManagerProofs -------------------------
(***************************************************************************)
(* Theorems about the power gate, for any set of servers and of callers.   *)
(***************************************************************************)
EXTENDS ServerManager, TLAPS

(***************************************************************************)
(* The strengthening.  Its parts say, in order: a call in flight has a     *)
(* target; which phases belong to ForceStop; a gated call holds the gate;  *)
(* the process matches the running flag; a running boot's channel is open; *)
(* a scan misses nothing it has already asked; between the scan and the    *)
(* boot nothing runs; the boot a gated call awaits is the only one its     *)
(* server can be running; fn belongs to the While calls; after the stop    *)
(* leg of Restart and WhileStopped the server is down; a boot in flight    *)
(* knows the current instance it replaced.                                 *)
(***************************************************************************)
Targeted ==
  \A c \in Callers : pc[c] # "idle" => target[c] \in Servers /\ op[c] # "None"

IdleOrCalling == \A c \in Callers : pc[c] = "idle" <=> op[c] = "None"

ForcePhases ==
  \A c \in Callers :
    /\ op[c] = "ForceStop" => pc[c] \in {"force", "kill", "await", "release"}
    /\ pc[c] \in {"force", "kill"} => op[c] = "ForceStop"

ProcMatchesRunning == \A s \in Servers : ~ running[s] <=> proc[s] = "none"

RunningBootIsOpen == \A s \in Servers : running[s] => <<s, boot[s]>> \in unclosed

ScanMissesNothing ==
  \A c \in Callers : pc[c] = "scan" =>
    \A s \in Servers : running[s] => s \in rest[c] \cup seen[c]

NothingRunsBeforeBoot ==
  \A c \in Callers : pc[c] \in {"claim", "boot"} =>
    \A s \in Servers : ~ running[s]

AwaitedBootIsLatest ==
  \A c \in Callers :
    Gated(c) /\ pc[c] \in {"grace", "await"} /\ running[target[c]]
      => boot[target[c]] = waiting[c]

FnOfWhile ==
  \A c \in Callers : pc[c] = "fn" => /\ op[c] \in {"WhileStopped", "WhileDown"}
                                     /\ ~ running[target[c]]

BootRemembersCurrent ==
  \A c \in Callers :
    pc[c] \in {"boot", "restore"} => current = target[c] /\ prev[c] = started

CheckOfWhileDown == \A c \in Callers : pc[c] = "check" => op[c] = "WhileDown"

\* Until its scan, a call that will boot has every instance still to ask.
NothingAskedYet ==
  \A c \in Callers :
    op[c] \in {"Restart", "WhileStopped"} /\ pc[c] \in {"stop", "grace", "await", "fn"}
      => rest[c] = Servers

StartPhases ==
  \A c \in Callers :
    /\ pc[c] \in {"claim", "boot", "restore"} =>
         op[c] \in {"Start", "Restart", "WhileStopped"}
    /\ pc[c] = "scan" =>
         op[c] \in {"Start", "Restart", "WhileStopped", "StopRunning"}
    /\ pc[c] = "next" => op[c] = "StopRunning"

GateInv ==
  /\ IdleOrCalling
  /\ Targeted
  /\ ForcePhases
  /\ CheckOfWhileDown
  /\ StartPhases
  /\ PowerActionHoldsGate

RunInv ==
  /\ ProcMatchesRunning
  /\ RunningBootIsOpen
  /\ NothingAskedYet
  /\ ScanMissesNothing
  /\ NothingRunsBeforeBoot
  /\ AwaitedBootIsLatest
  /\ FnOfWhile
  /\ RestartNotRefusedByItself
  /\ OneServerAtATime

CurrentInv == BootRemembersCurrent /\ CurrentIsLastStarted

IInv == TypeOK /\ GateInv /\ RunInv /\ CurrentInv

-----------------------------------------------------------------------------
\* The five gated requests as one action, each with its entry phase.
EnterSome(c) ==
  \E s \in Servers :
    \/ Enter(c, "Start", s, "scan")
    \/ Enter(c, "Stop", s, "stop")
    \/ Enter(c, "Restart", s, "stop")
    \/ Enter(c, "WhileStopped", s, "stop")
    \/ Enter(c, "WhileDown", s, "check")
    \/ Enter(c, "StopRunning", s, "scan")

\* A step of the specification is one of these; every invariance proof below
\* splits on them.
LEMMA StepCases ==
  ASSUME Next
  PROVE  \/ \E c \in Callers :
              \/ EnterSome(c) \/ \E s \in Servers : ForceStop(c, s)
              \/ Progress(c)
         \/ \E s \in Servers :
              ProcessExits(s) \/ TearDown(s) \/ \E b \in 1..boot[s] : CloseExited(s, b)
  BY DEF Next, Request, Environment, EnterSome, Start, Stop, Restart,
         WhileStopped, WhileDown, StopRunning

\* Type correctness of the initial state and of every step.
LEMMA TypeInit == Init => TypeOK
  BY ManagerAssumption DEF Init, TypeOK, Ops, Phases, ProcStates

LEMMA TypeStep ==
  ASSUME TypeOK, Targeted, [Next]_vars
  PROVE  TypeOK'
<1> USE DEF TypeOK, Targeted, vars, instVars, callerVars, Goto
<1>1. CASE UNCHANGED vars
  BY <1>1
<1>2. ASSUME NEW c \in Callers, EnterSome(c)
      PROVE  TypeOK'
  BY <1>2 DEF EnterSome, Enter, TryLock, Ops, Phases
<1>3. ASSUME NEW c \in Callers, NEW s \in Servers, ForceStop(c, s)
      PROVE  TypeOK'
  BY <1>3 DEF ForceStop, Ops, Phases
<1>4. ASSUME NEW c \in Callers, Progress(c)
      PROVE  TypeOK'
  <2>1. CASE StopLeg(c)
    BY <1>4, <2>1 DEF StopLeg, AfterNotRunning, Phases
  <2>2. CASE GraceOver(c) \/ ForceKill(c)
    BY <1>4, <2>2 DEF GraceOver, ForceKill, KillCaptured, Phases, ProcStates
  <2>3. CASE SeeExited(c)
    BY <1>4, <2>3 DEF SeeExited, AfterStop, Phases
  <2>4. CASE ForceMark(c)
    BY <1>4, <2>4 DEF ForceMark, Phases
  <2>5. CASE CheckDown(c) \/ FnReturns(c)
    BY <1>4, <2>5 DEF CheckDown, FnReturns, Phases
  <2>6. CASE \E s \in Servers : AskRunning(c, s)
    BY <1>4, <2>6 DEF AskRunning
  <2>7. CASE ScanDone(c)
    BY <1>4, <2>7 DEF ScanDone, Phases
  <2>8. CASE NextToStop(c)
    BY <1>4, <2>8 DEF NextToStop, Phases
  <2>9. CASE SetCurrent(c) \/ RestoreCurrent(c)
    BY <1>4, <2>9 DEF SetCurrent, RestoreCurrent, Phases
  <2>10. CASE BootSucceeds(c)
    BY <1>4, <2>10 DEF BootSucceeds, Phases, ProcStates
  <2>11. CASE BootFails(c)
    BY <1>4, <2>11 DEF BootFails, Phases
  <2>12. CASE Release(c)
    BY <1>4, <2>12 DEF Release, Unlock, Phases, Ops
  <2>13. QED
    BY <1>4, <2>1, <2>2, <2>3, <2>4, <2>5, <2>6, <2>7, <2>8, <2>9, <2>10,
       <2>11, <2>12 DEF Progress
<1>5. ASSUME NEW s \in Servers, ProcessExits(s) \/ TearDown(s)
      PROVE  TypeOK'
  BY <1>5 DEF ProcessExits, TearDown, ProcStates
<1>6. ASSUME NEW s \in Servers, NEW b \in 1..boot[s], CloseExited(s, b)
      PROVE  TypeOK'
  BY <1>6 DEF CloseExited
<1>7. QED
  BY <1>1, <1>2, <1>3, <1>4, <1>5, <1>6, StepCases

\* A gated call keeps the gate from its TryLock to its return.
LEMMA GateStep ==
  ASSUME TypeOK, GateInv, [Next]_vars
  PROVE  GateInv'
<1> USE ManagerAssumption DEF vars, instVars, callerVars, Goto,
           TypeOK, GateInv, IdleOrCalling, Targeted, ForcePhases,
           CheckOfWhileDown, StartPhases, PowerActionHoldsGate, Gated
<1>1. CASE UNCHANGED vars
  BY <1>1
<1>2. ASSUME NEW c \in Callers, EnterSome(c)
      PROVE  GateInv'
  BY <1>2 DEF EnterSome, Enter, TryLock
<1>3. ASSUME NEW c \in Callers, NEW s \in Servers, ForceStop(c, s)
      PROVE  GateInv'
  BY <1>3 DEF ForceStop
<1>4. ASSUME NEW c \in Callers, Progress(c)
      PROVE  GateInv'
  <2>1. CASE StopLeg(c)
    BY <1>4, <2>1 DEF StopLeg, AfterNotRunning
  <2>2. CASE GraceOver(c)
    BY <1>4, <2>2 DEF GraceOver, KillCaptured
  <2>3. CASE SeeExited(c)
    BY <1>4, <2>3 DEF SeeExited, AfterStop
  <2>4. CASE ForceMark(c)
    BY <1>4, <2>4 DEF ForceMark
  <2>5. CASE ForceKill(c)
    BY <1>4, <2>5 DEF ForceKill, KillCaptured
  <2>6. CASE CheckDown(c)
    BY <1>4, <2>6 DEF CheckDown
  <2>7. CASE FnReturns(c)
    BY <1>4, <2>7 DEF FnReturns
  <2>8. CASE \E s \in Servers : AskRunning(c, s)
    BY <1>4, <2>8 DEF AskRunning
  <2>9. CASE ScanDone(c)
    BY <1>4, <2>9 DEF ScanDone
  <2>10. CASE NextToStop(c)
    BY <1>4, <2>10 DEF NextToStop
  <2>11. CASE SetCurrent(c)
    BY <1>4, <2>11 DEF SetCurrent
  <2>12. CASE BootSucceeds(c)
    BY <1>4, <2>12 DEF BootSucceeds
  <2>13. CASE BootFails(c)
    BY <1>4, <2>13 DEF BootFails
  <2>14. CASE RestoreCurrent(c)
    BY <1>4, <2>14 DEF RestoreCurrent
  <2>15. CASE Release(c)
    BY <1>4, <2>15 DEF Release, Unlock
  <2>16. QED
    BY <1>4, <2>1, <2>2, <2>3, <2>4, <2>5, <2>6, <2>7, <2>8,
       <2>9, <2>10, <2>11, <2>12, <2>13, <2>14, <2>15 DEF Progress
<1>5. ASSUME NEW s \in Servers, ProcessExits(s)
      PROVE  GateInv'
  BY <1>5 DEF ProcessExits
<1>6. ASSUME NEW s \in Servers, TearDown(s)
      PROVE  GateInv'
  BY <1>6 DEF TearDown
<1>7. ASSUME NEW s \in Servers, NEW b \in 1..boot[s], CloseExited(s, b)
      PROVE  GateInv'
  BY <1>7 DEF CloseExited
<1>8. QED
  BY <1>1, <1>2, <1>3, <1>4, <1>5, <1>6, <1>7, StepCases

\* What the gate protects: nothing boots but by the one call that holds it.
LEMMA RunStep ==
  ASSUME TypeOK, GateInv, RunInv, [Next]_vars
  PROVE  RunInv'
<1> USE ManagerAssumption DEF vars, instVars, callerVars, Goto,
           TypeOK, GateInv, IdleOrCalling, Targeted, ForcePhases,
           CheckOfWhileDown, StartPhases, PowerActionHoldsGate, Gated, RunInv, ProcMatchesRunning, RunningBootIsOpen, NothingAskedYet,
           ScanMissesNothing, NothingRunsBeforeBoot, AwaitedBootIsLatest,
           FnOfWhile, RestartNotRefusedByItself, OneServerAtATime
<1>1. CASE UNCHANGED vars
  BY <1>1
<1>2. ASSUME NEW c \in Callers, EnterSome(c)
      PROVE  RunInv'
  BY <1>2 DEF EnterSome, Enter, TryLock
<1>3. ASSUME NEW c \in Callers, NEW s \in Servers, ForceStop(c, s)
      PROVE  RunInv'
  BY <1>3 DEF ForceStop
<1>4. ASSUME NEW c \in Callers, Progress(c)
      PROVE  RunInv'
  <2>1. CASE StopLeg(c)
    BY <1>4, <2>1 DEF StopLeg, AfterNotRunning
  <2>2. CASE GraceOver(c)
    BY <1>4, <2>2 DEF GraceOver, KillCaptured
  <2>3. CASE SeeExited(c)
    BY <1>4, <2>3 DEF SeeExited, AfterStop
  <2>4. CASE ForceMark(c)
    BY <1>4, <2>4 DEF ForceMark
  <2>5. CASE ForceKill(c)
    BY <1>4, <2>5 DEF ForceKill, KillCaptured
  <2>6. CASE CheckDown(c)
    BY <1>4, <2>6 DEF CheckDown
  <2>7. CASE FnReturns(c)
    BY <1>4, <2>7 DEF FnReturns
  <2>8. CASE \E s \in Servers : AskRunning(c, s)
    BY <1>4, <2>8 DEF AskRunning
  <2>9. CASE ScanDone(c)
    <3>1. /\ ProcMatchesRunning' /\ RunningBootIsOpen' /\ NothingAskedYet'
          /\ AwaitedBootIsLatest' /\ FnOfWhile' /\ OneServerAtATime'
      BY <1>4, <2>9 DEF ScanDone
    <3>2. ScanMissesNothing'
      BY <1>4, <2>9 DEF ScanDone
    <3>3. NothingRunsBeforeBoot'
      <4>1. pc'[c] = "claim" => \A s \in Servers : ~ running[s]
        BY <1>4, <2>9 DEF ScanDone
      <4>2. QED
        BY <1>4, <2>9, <4>1 DEF ScanDone
    <3>4. RestartNotRefusedByItself'
      BY <1>4, <2>9, <3>3 DEF ScanDone
    <3>5. QED
      BY <3>1, <3>2, <3>3, <3>4
  <2>10. CASE NextToStop(c)
    <3>1. ASSUME NEW s \in Servers,
                 op[c] = "StopRunning",
                 target' = [target EXCEPT ![c] = s],
                 Goto(c, "stop"),
                 seen' = [seen EXCEPT ![c] = @ \ {s}],
                 UNCHANGED <<gate, current, instVars, op, rest, prev, waiting, started>>
          PROVE  RunInv'
      BY <1>4, <3>1
    <3>2. CASE Goto(c, "release") /\ UNCHANGED <<target, seen>>
      BY <1>4, <2>10, <3>2 DEF NextToStop
    <3>3. op[c] = "StopRunning"
      BY <2>10 DEF NextToStop
    <3>4. QED
      BY <2>10, <3>1, <3>2, <3>3 DEF NextToStop
  <2>11. CASE SetCurrent(c)
    BY <1>4, <2>11 DEF SetCurrent
  <2>12. CASE BootSucceeds(c)
    BY <1>4, <2>12 DEF BootSucceeds
  <2>13. CASE BootFails(c)
    BY <1>4, <2>13 DEF BootFails
  <2>14. CASE RestoreCurrent(c)
    BY <1>4, <2>14 DEF RestoreCurrent
  <2>15. CASE Release(c)
    BY <1>4, <2>15 DEF Release, Unlock
  <2>16. QED
    BY <1>4, <2>1, <2>2, <2>3, <2>4, <2>5, <2>6, <2>7, <2>8,
       <2>9, <2>10, <2>11, <2>12, <2>13, <2>14, <2>15 DEF Progress
<1>5. ASSUME NEW s \in Servers, ProcessExits(s)
      PROVE  RunInv'
  BY <1>5 DEF ProcessExits
<1>6. ASSUME NEW s \in Servers, TearDown(s)
      PROVE  RunInv'
  BY <1>6 DEF TearDown
<1>7. ASSUME NEW s \in Servers, NEW b \in 1..boot[s], CloseExited(s, b)
      PROVE  RunInv'
  BY <1>7 DEF CloseExited
<1>8. QED
  BY <1>1, <1>2, <1>3, <1>4, <1>5, <1>6, <1>7, StepCases

\* current follows the last successful start.
LEMMA CurrentStep ==
  ASSUME TypeOK, GateInv, CurrentInv, [Next]_vars
  PROVE  CurrentInv'
<1> USE ManagerAssumption DEF vars, instVars, callerVars, Goto,
           TypeOK, GateInv, IdleOrCalling, Targeted, ForcePhases,
           CheckOfWhileDown, StartPhases, PowerActionHoldsGate, Gated, CurrentInv,
           BootRemembersCurrent, CurrentIsLastStarted
<1>1. CASE UNCHANGED vars
  BY <1>1
<1>2. ASSUME NEW c \in Callers, EnterSome(c)
      PROVE  CurrentInv'
  BY <1>2 DEF EnterSome, Enter, TryLock
<1>3. ASSUME NEW c \in Callers, NEW s \in Servers, ForceStop(c, s)
      PROVE  CurrentInv'
  BY <1>3 DEF ForceStop
<1>4. ASSUME NEW c \in Callers, Progress(c)
      PROVE  CurrentInv'
  <2>1. CASE StopLeg(c)
    BY <1>4, <2>1 DEF StopLeg, AfterNotRunning
  <2>2. CASE GraceOver(c)
    BY <1>4, <2>2 DEF GraceOver, KillCaptured
  <2>3. CASE SeeExited(c)
    BY <1>4, <2>3 DEF SeeExited, AfterStop
  <2>4. CASE ForceMark(c)
    BY <1>4, <2>4 DEF ForceMark
  <2>5. CASE ForceKill(c)
    BY <1>4, <2>5 DEF ForceKill, KillCaptured
  <2>6. CASE CheckDown(c)
    BY <1>4, <2>6 DEF CheckDown
  <2>7. CASE FnReturns(c)
    BY <1>4, <2>7 DEF FnReturns
  <2>8. CASE \E s \in Servers : AskRunning(c, s)
    BY <1>4, <2>8 DEF AskRunning
  <2>9. CASE ScanDone(c)
    BY <1>4, <2>9 DEF ScanDone
  <2>10. CASE NextToStop(c)
    BY <1>4, <2>10 DEF NextToStop
  <2>11. CASE SetCurrent(c)
    BY <1>4, <2>11 DEF SetCurrent
  <2>12. CASE BootSucceeds(c)
    BY <1>4, <2>12 DEF BootSucceeds
  <2>13. CASE BootFails(c)
    BY <1>4, <2>13 DEF BootFails
  <2>14. CASE RestoreCurrent(c)
    BY <1>4, <2>14 DEF RestoreCurrent
  <2>15. CASE Release(c)
    BY <1>4, <2>15 DEF Release, Unlock
  <2>16. QED
    BY <1>4, <2>1, <2>2, <2>3, <2>4, <2>5, <2>6, <2>7, <2>8,
       <2>9, <2>10, <2>11, <2>12, <2>13, <2>14, <2>15 DEF Progress
<1>5. ASSUME NEW s \in Servers, ProcessExits(s)
      PROVE  CurrentInv'
  BY <1>5 DEF ProcessExits
<1>6. ASSUME NEW s \in Servers, TearDown(s)
      PROVE  CurrentInv'
  BY <1>6 DEF TearDown
<1>7. ASSUME NEW s \in Servers, NEW b \in 1..boot[s], CloseExited(s, b)
      PROVE  CurrentInv'
  BY <1>7 DEF CloseExited
<1>8. QED
  BY <1>1, <1>2, <1>3, <1>4, <1>5, <1>6, <1>7, StepCases

-----------------------------------------------------------------------------
\* The strengthened invariant is inductive.
LEMMA Inductive == Spec => []IInv
<1>1. Init => IInv
  BY TypeInit, ManagerAssumption DEF Init, IInv, GateInv, RunInv, CurrentInv,
     IdleOrCalling, Targeted, ForcePhases, CheckOfWhileDown, StartPhases,
     PowerActionHoldsGate, Gated, ProcMatchesRunning, RunningBootIsOpen,
     NothingAskedYet, ScanMissesNothing, NothingRunsBeforeBoot,
     AwaitedBootIsLatest, FnOfWhile, RestartNotRefusedByItself,
     OneServerAtATime, BootRemembersCurrent, CurrentIsLastStarted
<1>2. IInv /\ [Next]_vars => IInv'
  <2> SUFFICES ASSUME IInv, [Next]_vars PROVE IInv'
    OBVIOUS
  <2>1. TypeOK /\ Targeted /\ GateInv /\ RunInv /\ CurrentInv
    BY DEF IInv, GateInv
  <2>2. QED
    BY <2>1, TypeStep, GateStep, RunStep, CurrentStep DEF IInv
<1>3. QED
  BY <1>1, <1>2, PTL DEF Spec

\* The manager's state has its type in every reachable state: in particular
\* current is never nil (ServerService.current: "Never nil").
THEOREM TypeCorrect == Spec => []TypeOK
  BY Inductive, PTL DEF IInv

\* At most one server runs app-wide, for any number of servers, callers,
\* boots, force stops and crashes (startInstance under powerMu).
THEOREM OneServerTheorem == Spec => []OneServerAtATime
<1>1. IInv => OneServerAtATime
  BY DEF IInv, RunInv
<1>2. QED
  BY <1>1, Inductive, PTL

\* No caller ever loses the gate in the middle of its power action: ForceStop
\* never unlocks a gate another caller took.
THEOREM GateTheorem == Spec => []PowerActionHoldsGate
<1>1. IInv => PowerActionHoldsGate
  BY DEF IInv, GateInv
<1>2. QED
  BY <1>1, Inductive, PTL

\* The fn of WhileStopped and WhileDown only ever runs with its server's
\* process gone.
THEOREM FnTheorem == Spec => []FnWhileProcessGone
<1>1. IInv => FnWhileProcessGone
  BY DEF IInv, TypeOK, GateInv, Targeted, RunInv, FnOfWhile,
         ProcMatchesRunning, FnWhileProcessGone
<1>2. QED
  BY <1>1, Inductive, PTL

\* Restart and WhileStopped are never refused by the server they stopped.
THEOREM RestartTheorem == Spec => []RestartNotRefusedByItself
<1>1. IInv => RestartNotRefusedByItself
  BY DEF IInv, RunInv
<1>2. QED
  BY <1>1, Inductive, PTL

\* current is the last server that really started, whatever boots failed.
THEOREM CurrentTheorem == Spec => []CurrentIsLastStarted
<1>1. IInv => CurrentIsLastStarted
  BY DEF IInv, CurrentInv
<1>2. QED
  BY <1>1, Inductive, PTL

-----------------------------------------------------------------------------
\* The step that ends c's wait finds the boot c captured torn down.
ReturnsAfterTearDown ==
  \A c \in Callers :
    pc[c] \in {"grace", "await"} /\ pc'[c] \notin {"grace", "await"}
      => ~ (running[target[c]] /\ boot[target[c]] = waiting[c])

LEMMA OnlySeeExitedEndsTheWait ==
  ASSUME TypeOK, Next, NEW c \in Callers,
         pc[c] \in {"grace", "await"}, pc'[c] \notin {"grace", "await"}
  PROVE  SeeExited(c)
<1> USE DEF TypeOK, Goto, callerVars
<1>1. ASSUME NEW d \in Callers, EnterSome(d) \/ \E s \in Servers : ForceStop(d, s)
      PROVE  FALSE
  BY <1>1 DEF EnterSome, Enter, TryLock, ForceStop
<1>2. ASSUME NEW d \in Callers, Progress(d)
      PROVE  SeeExited(c)
  BY <1>2 DEF Progress, StopLeg, GraceOver, SeeExited, ForceMark, ForceKill,
     CheckDown, FnReturns, AskRunning, ScanDone, NextToStop, SetCurrent,
     BootSucceeds, BootFails, RestoreCurrent, Release, Unlock
<1>3. ASSUME NEW s \in Servers,
             ProcessExits(s) \/ TearDown(s) \/ \E b \in 1..boot[s] : CloseExited(s, b)
      PROVE  FALSE
  BY <1>3 DEF ProcessExits, TearDown, CloseExited
<1>4. QED
  BY <1>1, <1>2, <1>3, StepCases

\* Whoever waits on exited (Stop, Restart, WhileStopped, StopRunning and
\* ForceStop) goes on only after waitForExit has torn that boot down.
THEOREM AwaitedTheorem == Spec => AwaitedBootIsGone
<1>1. ASSUME IInv, Next PROVE ReturnsAfterTearDown
  <2> SUFFICES ASSUME NEW c \in Callers,
                      pc[c] \in {"grace", "await"},
                      pc'[c] \notin {"grace", "await"}
               PROVE  ~ (running[target[c]] /\ boot[target[c]] = waiting[c])
    BY DEF ReturnsAfterTearDown
  <2>1. <<target[c], waiting[c]>> \notin unclosed
    BY <1>1, OnlySeeExitedEndsTheWait DEF SeeExited, IInv
  <2>2. target[c] \in Servers
    BY <1>1 DEF IInv, GateInv, Targeted
  <2>3. QED
    BY <1>1, <2>1, <2>2 DEF IInv, RunInv, RunningBootIsOpen
<1>2. IInv /\ [Next]_vars => [ReturnsAfterTearDown]_vars
  BY <1>1
<1>3. QED
  BY <1>2, Inductive, PTL DEF Spec, AwaitedBootIsGone, ReturnsAfterTearDown

-----------------------------------------------------------------------------
\* Steps of callers that leave the instances alone.
LEMMA CallerSteps ==
  ASSUME NEW c \in Callers,
         \/ EnterSome(c) \/ \E s \in Servers : ForceStop(c, s)
         \/ Progress(c) /\ ~ GraceOver(c) /\ ~ ForceKill(c) /\ ~ BootSucceeds(c)
  PROVE  UNCHANGED instVars
<1> USE DEF instVars
<1>1. CASE EnterSome(c) \/ \E s \in Servers : ForceStop(c, s)
  BY <1>1 DEF EnterSome, Enter, ForceStop
<1>2. CASE StopLeg(c) \/ SeeExited(c) \/ ForceMark(c) \/ CheckDown(c) \/ FnReturns(c)
  BY <1>2 DEF StopLeg, SeeExited, ForceMark, CheckDown, FnReturns
<1>3. CASE (\E s \in Servers : AskRunning(c, s)) \/ ScanDone(c) \/ NextToStop(c)
  BY <1>3 DEF AskRunning, ScanDone, NextToStop
<1>4. CASE SetCurrent(c) \/ BootFails(c) \/ RestoreCurrent(c) \/ Release(c)
  BY <1>4 DEF SetCurrent, BootFails, RestoreCurrent, Release
<1>5. QED
  BY <1>1, <1>2, <1>3, <1>4 DEF Progress

\* Every step of the manager is, for each server, a step of its contract or
\* leaves that server alone.
LEMMA ContractSteps ==
  ASSUME IInv, Next, NEW s \in Servers
  PROVE  ContractStep(s)
<1> USE DEF ContractStep, Contract!Next, Contract!contractVars, IInv, TypeOK
<1>1. CASE UNCHANGED instVars
  BY <1>1 DEF instVars
<1>2. ASSUME NEW c \in Callers, GraceOver(c) \/ ForceKill(c)
      PROVE  ContractStep(s)
  BY <1>2 DEF GraceOver, ForceKill, KillCaptured, Contract!Kill, GateInv, Targeted
<1>3. ASSUME NEW c \in Callers, BootSucceeds(c)
      PROVE  ContractStep(s)
  <2>1. target[c] \in Servers
    BY <1>3 DEF BootSucceeds, GateInv, Targeted
  <2>2. CASE target[c] = s
    <3>1. {b \in 1..boot'[s] : <<s, b>> \in unclosed'}
            = {b \in 1..boot[s] : <<s, b>> \in unclosed} \cup {boot[s] + 1}
      BY <1>3, <2>1, <2>2 DEF BootSucceeds
    <3>2. QED
      BY <1>3, <2>1, <2>2, <3>1 DEF BootSucceeds, Contract!Spawn
  <2>3. CASE target[c] # s
    <3>1. {b \in 1..boot'[s] : <<s, b>> \in unclosed'}
            = {b \in 1..boot[s] : <<s, b>> \in unclosed}
      BY <1>3, <2>1, <2>3 DEF BootSucceeds
    <3>2. QED
      BY <1>3, <2>1, <2>3, <3>1 DEF BootSucceeds
  <2>4. QED
    BY <2>2, <2>3
<1>4. ASSUME NEW t \in Servers, ProcessExits(t)
      PROVE  ContractStep(s)
  BY <1>4 DEF ProcessExits, Contract!Exit
<1>5. ASSUME NEW t \in Servers, TearDown(t)
      PROVE  ContractStep(s)
  BY <1>5 DEF TearDown, Contract!TearDown
<1>6. ASSUME NEW t \in Servers, NEW b \in 1..boot[t], CloseExited(t, b)
      PROVE  ContractStep(s)
  <2>1. CASE t = s
    <3>1. {x \in 1..boot'[s] : <<s, x>> \in unclosed'}
            = {x \in 1..boot[s] : <<s, x>> \in unclosed} \ {b}
      BY <1>6, <2>1 DEF CloseExited
    <3>2. b \in {x \in 1..boot[s] : <<s, x>> \in unclosed}
      BY <1>6, <2>1 DEF CloseExited
    <3>3. Contract(s)!Close(b)
      BY <1>6, <2>1, <3>1, <3>2 DEF CloseExited, Contract!Close
    <3>4. QED
      BY <3>2, <3>3 DEF Contract!CloseSome
  <2>2. CASE t # s
    <3>1. {x \in 1..boot'[s] : <<s, x>> \in unclosed'}
            = {x \in 1..boot[s] : <<s, x>> \in unclosed}
      BY <1>6, <2>2 DEF CloseExited
    <3>2. QED
      BY <1>6, <2>2, <3>1 DEF CloseExited
  <2>3. QED
    BY <2>1, <2>2
<1>7. QED
  BY <1>1, <1>2, <1>3, <1>4, <1>5, <1>6, CallerSteps, StepCases

\* The manager implements the instance contract for each of its servers:
\* power actions, crashes and force stops compose without breaking it.
THEOREM ContractTheorem == Spec => InstancesKeepContract
<1>1. Init => \A s \in Servers : Contract(s)!Init
  BY DEF Init, Contract!Init
<1>2. IInv /\ [Next]_vars => [\A s \in Servers : ContractStep(s)]_vars
  BY ContractSteps
<1>3. QED
  BY <1>1, <1>2, Inductive, PTL DEF Spec, InstancesKeepContract

=============================================================================
