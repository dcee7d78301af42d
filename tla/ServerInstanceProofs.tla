------------------------ MODULE ServerInstanceProofs ------------------------
(***************************************************************************)
(* Theorems about one server instance, for any number of boots, with or    *)
(* without RCON.  Those about who is to blame for an exit suppose that no  *)
(* reader holds a line of an earlier boot once the next one started        *)
(* (~ ReadersLag); the others hold either way.                             *)
(***************************************************************************)
EXTENDS ServerInstance, TLAPS

\* Boot b has been taken offline.
Past(b) == waiter[b] \in {"emit", "close", "done"}

\* A boot to come has left no trace, every earlier one is past, and the
\* latest one is past exactly when nothing runs.
BootsInv ==
  /\ \A b \in Boots : b > boot =>
       /\ proc[b] = "none" /\ reader[b] = "none"
       /\ waiter[b] = "none" /\ deadWatch[b] = "none"
       /\ b \notin ending /\ b \notin crashSeen
  /\ \A b \in Boots : b < boot => Past(b)
  /\ boot > 0 => IF running THEN waiter[boot] \in {"wait", "poll", "exit"}
                            ELSE Past(boot)
  /\ running => boot > 0 /\ exited = boot
  /\ exited \in {0, boot}

\* Past the wait a boot's process is dead; its waiter closes the channel of
\* its own boot, and after the stopped event.
ExitsInv ==
  \A b \in Boots :
    /\ waiter[b] \in {"poll", "exit"} \/ Past(b) => proc[b] = "dead"
    /\ waiter[b] \in {"emit", "close"} => toClose[b] = b
    /\ b \in closed <=> waiter[b] = "done"
    /\ waiter[b] \in {"close", "done"} => b \in stopped

\* A stop and a force stop captured the channel of a boot.
CallersInv ==
  /\ stopper.phase # "idle" => stopper.boot \in 1..boot
  /\ forcer.phase # "idle" => forcer.boot \in 1..boot

\* The flag outlives what set it for as long as the boot does.
CrashInv == running /\ boot \in crashSeen => crashed

\* Boot b is closed, or was asked to end or announced its end.
Ended(b) == waiter[b] = "done" \/ b \in ending

\* Whatever is about to signal a process, or to lead to a signal, has a boot
\* that ended for a reason.
HealthInv ==
  ~ ReadersLag =>
    /\ stopper.phase # "idle" => Ended(stopper.boot)
    /\ forcer.phase # "idle" => Ended(forcer.boot)
    /\ \A b \in Boots :
         /\ reader[b] # "none" => b = boot
         /\ reader[b] \in {"stop", "crash", "arm"} => Ended(b)
         /\ deadWatch[b] # "none" => Ended(b)
    /\ running /\ (expectedStop \/ state = "stopping") => boot \in ending
    /\ HealthyServerNeverKilled

IInv ==
  /\ TypeOK /\ BootsInv /\ ExitsInv /\ CallersInv /\ CrashInv /\ NoResurrection
  /\ HealthInv

-----------------------------------------------------------------------------
LEMMA InstanceInit == Init => IInv
<1> SUFFICES ASSUME Init
             PROVE  IInv
  OBVIOUS
<1> USE InstanceAssumption DEF Init, Boots
<1>1. TypeOK
  <2>1. /\ state \in States /\ exited \in 0..MaxBoots
        /\ tpsChan \in 0..MaxBoots /\ boot \in 0..MaxBoots
    BY DEF States
  <2>2. /\ proc \in [Boots -> {"none"}] /\ reader \in [Boots -> {"none"}]
        /\ waiter \in [Boots -> {"none"}] /\ toClose \in [Boots -> {0}]
        /\ startWatch \in [Boots -> {"none"}] /\ deadWatch \in [Boots -> {"none"}]
    OBVIOUS
  <2>3. /\ stopper \in [phase : {"idle"}, boot : {0}]
        /\ forcer \in [phase : {"idle"}, boot : {0}]
    OBVIOUS
  <2>4. /\ running \in BOOLEAN /\ expectedStop \in BOOLEAN /\ crashed \in BOOLEAN
        /\ deadlineArmed \in BOOLEAN /\ tpsOnce \in BOOLEAN
    OBVIOUS
  <2>5. QED
    BY <2>1, <2>2, <2>3, <2>4 DEF TypeOK
<1>2. BootsInv /\ ExitsInv /\ CallersInv /\ CrashInv /\ NoResurrection
  BY DEF BootsInv, ExitsInv, Past, CallersInv, CrashInv, NoResurrection
<1>3. HealthInv
  BY DEF HealthInv, HealthyServerNeverKilled
<1>4. QED
  BY <1>1, <1>2, <1>3 DEF IInv

-----------------------------------------------------------------------------

\* What callers ask for: a start, spawned or failed, a stop and a force stop.
LEMMA RequestStep ==
  ASSUME IInv, Request
  PROVE  IInv'
<1> USE InstanceAssumption DEF IInv, Boots, vars, lifecycle, poll, goroutines,
      exits, callers, observers
<1>1. CASE StartSpawns
  <2>1. TypeOK'
    <3>1. boot + 1 \in Boots
      BY <1>1 DEF TypeOK, StartSpawns
    <3>2. QED
      <4>1. /\ proc' \in [Boots -> {"none", "alive", "termed", "killed", "dead"}]
            /\ waiter' \in [Boots -> {"none", "wait", "poll", "exit", "emit", "close", "done"}]
            /\ startWatch' \in [Boots -> {"none", "waiting", "done"}]
        BY <1>1, <3>1 DEF TypeOK, StartSpawns
      <4>2. /\ running' \in BOOLEAN /\ expectedStop' \in BOOLEAN
            /\ crashed' \in BOOLEAN /\ deadlineArmed' \in BOOLEAN
        BY <1>1 DEF StartSpawns, FreshFlags
      <4>3. /\ state' \in States /\ boot' \in 0..MaxBoots /\ exited' \in 0..MaxBoots
        BY <1>1, <3>1 DEF States, StartSpawns
      <4>4. QED
        BY <1>1, <4>1, <4>2, <4>3 DEF TypeOK, StartSpawns
  <2>2. BootsInv' /\ NoResurrection'
    <3>1. boot + 1 \in Boots
      BY <1>1 DEF TypeOK, StartSpawns
    <3>2. \A b \in Boots : b # boot + 1 =>
             /\ proc'[b] = proc[b] /\ waiter'[b] = waiter[b]
             /\ UNCHANGED <<reader, deadWatch, ending, crashSeen>>
      BY <1>1 DEF TypeOK, StartSpawns
    <3>3. \A b \in Boots : b <= boot => Past(b)
      BY <1>1 DEF TypeOK, BootsInv, StartSpawns
    <3>4. boot' = boot + 1 /\ running' /\ exited' = boot' /\ waiter'[boot'] = "wait"
      BY <1>1, <3>1 DEF TypeOK, StartSpawns
    <3>5. QED
      BY <2>1, <3>1, <3>2, <3>3, <3>4 DEF TypeOK, BootsInv, Past, NoResurrection
  <2>3. ExitsInv' /\ CallersInv' /\ CrashInv'
    BY <1>1, <2>1 DEF TypeOK, BootsInv, Past, ExitsInv, CallersInv, CrashInv,
       StartSpawns, OldReadersDrained, FreshFlags
  <2>4. HealthInv'
    BY <1>1, <2>1 DEF TypeOK, Lines, BootsInv, ExitsInv, Past, NoResurrection,
       HealthInv, Ended, HealthyServerNeverKilled, StartSpawns, OldReadersDrained,
       FreshFlags
  <2>5. QED
    BY <2>1, <2>2, <2>3, <2>4
<1>2. CASE StartFails
  BY <1>2 DEF TypeOK, States, Lines, BootsInv, ExitsInv, Past, CallersInv,
       CrashInv, NoResurrection, HealthInv, Ended, HealthyServerNeverKilled,
       StartFails
<1>3. CASE StopMark
  BY <1>3 DEF TypeOK, States, Lines, BootsInv, ExitsInv, Past, CallersInv,
       CrashInv, NoResurrection, HealthInv, Ended, HealthyServerNeverKilled,
       StopMark, StopTPSPoll
<1>4. CASE ForceMark
  BY <1>4 DEF TypeOK, States, Lines, BootsInv, ExitsInv, Past, CallersInv,
       CrashInv, NoResurrection, HealthInv, Ended, HealthyServerNeverKilled,
       ForceMark
<1>5. QED
  BY <1>1, <1>2, <1>3, <1>4 DEF Request

\* A signal leaves every boot's process a process.
LEMMA SignalTypes ==
  ASSUME NEW b \in Nat, KillTree(b) \/ TermTree(b),
         proc \in [Boots -> {"none", "alive", "termed", "killed", "dead"}]
  PROVE  proc' \in [Boots -> {"none", "alive", "termed", "killed", "dead"}]
<1>1. CASE Living(b)
  BY <1>1 DEF KillTree, TermTree
<1>2. CASE ~ Living(b)
  BY <1>2 DEF KillTree, TermTree
<1> QED
  BY <1>1, <1>2

\* A stop and a force stop under way.
LEMMA StoppingStep ==
  ASSUME IInv, StopProgress \/ ForceProgress
  PROVE  IInv'
<1> USE InstanceAssumption DEF IInv, Boots, vars, lifecycle, poll, goroutines,
      exits, callers, observers
<1>1. CASE HalfGraceOver
  <2>1. TypeOK'
    <3>1. stopper.boot \in Nat /\ TermTree(stopper.boot)
      BY <1>1 DEF TypeOK, HalfGraceOver
    <3>2. proc' \in [Boots -> {"none", "alive", "termed", "killed", "dead"}]
      BY <3>1, SignalTypes DEF TypeOK
    <3>3. QED
      BY <1>1, <3>2 DEF TypeOK, HalfGraceOver
  <2>2. BootsInv' /\ NoResurrection'
    BY <1>1, <2>1 DEF TypeOK, BootsInv, ExitsInv, Past, NoResurrection,
       HalfGraceOver, TermTree, Living
  <2>3. ExitsInv' /\ CallersInv' /\ CrashInv'
    BY <1>1, <2>1 DEF TypeOK, BootsInv, Past, ExitsInv, CallersInv, CrashInv,
       HalfGraceOver, TermTree, Living
  <2>4. HealthInv'
    BY <1>1, <2>1 DEF TypeOK, Lines, BootsInv, ExitsInv, Past, NoResurrection,
       HealthInv, Ended, HealthyServerNeverKilled, HalfGraceOver, TermTree, Living
  <2>5. QED
    BY <2>1, <2>2, <2>3, <2>4
<1>2. CASE GraceOver
  <2>1. TypeOK'
    <3>1. stopper.boot \in Nat /\ KillTree(stopper.boot)
      BY <1>2 DEF TypeOK, GraceOver
    <3>2. proc' \in [Boots -> {"none", "alive", "termed", "killed", "dead"}]
      BY <3>1, SignalTypes DEF TypeOK
    <3>3. QED
      BY <1>2, <3>2 DEF TypeOK, GraceOver
  <2>2. BootsInv' /\ NoResurrection'
    BY <1>2, <2>1 DEF TypeOK, BootsInv, ExitsInv, Past, NoResurrection,
       GraceOver, KillTree, Living
  <2>3. ExitsInv' /\ CallersInv' /\ CrashInv'
    BY <1>2, <2>1 DEF TypeOK, BootsInv, Past, ExitsInv, CallersInv, CrashInv,
       GraceOver, KillTree, Living
  <2>4. HealthInv'
    BY <1>2, <2>1 DEF TypeOK, Lines, BootsInv, ExitsInv, Past, NoResurrection,
       HealthInv, Ended, HealthyServerNeverKilled, GraceOver, KillTree, Living
  <2>5. QED
    BY <2>1, <2>2, <2>3, <2>4
<1>3. CASE StopReturns
  BY <1>3 DEF TypeOK, States, Lines, BootsInv, ExitsInv, Past, CallersInv,
       CrashInv, NoResurrection, HealthInv, Ended, HealthyServerNeverKilled,
       StopReturns
<1>4. CASE ForceKill
  <2>1. TypeOK'
    <3>1. forcer.boot \in Nat /\ KillTree(forcer.boot)
      BY <1>4 DEF TypeOK, ForceKill
    <3>2. proc' \in [Boots -> {"none", "alive", "termed", "killed", "dead"}]
      BY <3>1, SignalTypes DEF TypeOK
    <3>3. QED
      BY <1>4, <3>2 DEF TypeOK, ForceKill
  <2>2. BootsInv' /\ NoResurrection'
    BY <1>4, <2>1 DEF TypeOK, BootsInv, ExitsInv, Past, NoResurrection,
       ForceKill, KillTree, Living
  <2>3. ExitsInv' /\ CallersInv' /\ CrashInv'
    BY <1>4, <2>1 DEF TypeOK, BootsInv, Past, ExitsInv, CallersInv, CrashInv,
       ForceKill, KillTree, Living
  <2>4. HealthInv'
    BY <1>4, <2>1 DEF TypeOK, Lines, BootsInv, ExitsInv, Past, NoResurrection,
       HealthInv, Ended, HealthyServerNeverKilled, ForceKill, KillTree, Living
  <2>5. QED
    BY <2>1, <2>2, <2>3, <2>4
<1>5. CASE ForceReturns
  BY <1>5 DEF TypeOK, States, Lines, BootsInv, ExitsInv, Past, CallersInv,
       CrashInv, NoResurrection, HealthInv, Ended, HealthyServerNeverKilled,
       ForceReturns
<1>6. QED
  BY <1>1, <1>2, <1>3, <1>4, <1>5 DEF StopProgress, ForceProgress

\* A boot's process: its end, and what it prints while it lives.
LEMMA ProcessStep ==
  ASSUME IInv, NEW b \in Boots, Process(b)
  PROVE  IInv'
<1> USE InstanceAssumption DEF IInv, Boots, vars, lifecycle, poll, goroutines,
      exits, callers, observers
<1>1. CASE ProcessExits(b)
  BY <1>1, SMTT(20) DEF TypeOK, States, Lines, BootsInv, ExitsInv, Past, CallersInv,
       CrashInv, NoResurrection, HealthInv, Ended, HealthyServerNeverKilled,
       ProcessExits
<1>2. ASSUME NEW line \in Lines, Prints(b, line)
      PROVE  IInv'
  <2>1. TypeOK'
    BY <1>2 DEF TypeOK, States, Lines, BootsInv, NoResurrection, Prints, Living
  <2>2. BootsInv' /\ NoResurrection'
    BY <1>2, <2>1 DEF TypeOK, BootsInv, ExitsInv, Past, NoResurrection, Prints,
       Living
  <2>3. ExitsInv' /\ CallersInv' /\ CrashInv'
    BY <1>2, <2>1 DEF TypeOK, BootsInv, Past, ExitsInv, CallersInv, CrashInv,
       Prints, Living
  <2>4. HealthInv'
    BY <1>2, <2>1, SMTT(20) DEF TypeOK, Lines, BootsInv, ExitsInv, Past, NoResurrection,
       HealthInv, Ended, HealthyServerNeverKilled, Prints, Living
  <2>5. QED
    BY <2>1, <2>2, <2>3, <2>4
<1>3. QED
  BY <1>1, <1>2 DEF Process

\* A promotion keeps the types: only a running instance is starting.
LEMMA PromoteTypes ==
  ASSUME IInv, Promote
  PROVE  /\ state' \in States
         /\ tpsChan' \in 0..MaxBoots /\ tpsOnce' \in BOOLEAN /\ pollers' \subseteq Boots
<1>1. state = "starting" => boot \in Boots
  BY DEF IInv, TypeOK, BootsInv, NoResurrection, Boots
<1>2. CASE state = "starting" /\ RconReady
  <2>1. /\ state' = "running" /\ tpsChan' = boot /\ pollers' = pollers \cup {boot}
        /\ tpsOnce' = FALSE
    BY <1>2 DEF Promote, EnterRunning, StartTPSPoll
  <2>2. tpsOnce' \in BOOLEAN
    BY <2>1
  <2>3. QED
    BY <1>1, <1>2, <2>1, <2>2 DEF IInv, TypeOK, States, Boots
<1>3. CASE ~ (state = "starting" /\ RconReady)
  BY <1>3 DEF IInv, TypeOK, States, Promote, EnterRunning, StartTPSPoll, poll
<1>4. QED
  BY <1>2, <1>3

\* A boot's console reader.
LEMMA ReaderStepKeeps ==
  ASSUME IInv, NEW b \in Boots, ReaderStep(b)
  PROVE  IInv'
<1> USE InstanceAssumption DEF IInv, Boots, vars, lifecycle, poll, goroutines,
      exits, callers, observers
<1>1. CASE ReadStop(b)
  BY <1>1, SMTT(20) DEF TypeOK, States, Lines, BootsInv, ExitsInv, Past, CallersInv,
       CrashInv, NoResurrection, HealthInv, Ended, HealthyServerNeverKilled,
       ReadStop, ShutdownSeen
<1>2. CASE ReadCrash(b)
  <2>1. TypeOK'
    BY <1>2 DEF TypeOK, States, Lines, BootsInv, NoResurrection, ReadCrash,
       ShutdownSeen
  <2>2. BootsInv' /\ NoResurrection'
    BY <1>2, <2>1 DEF TypeOK, BootsInv, ExitsInv, Past, NoResurrection,
       ReadCrash, ShutdownSeen
  <2>3. ExitsInv' /\ CallersInv' /\ CrashInv'
    BY <1>2, <2>1 DEF TypeOK, BootsInv, Past, ExitsInv, CallersInv, CrashInv,
       ReadCrash, ShutdownSeen
  <2>4. HealthInv'
    BY <1>2, <2>1 DEF TypeOK, Lines, BootsInv, ExitsInv, Past, NoResurrection,
       HealthInv, Ended, HealthyServerNeverKilled, ReadCrash, ShutdownSeen
  <2>5. QED
    BY <2>1, <2>2, <2>3, <2>4
<1>3. CASE ReadReady(b)
  <2>1. TypeOK'
    <3>1. /\ state' \in States
          /\ tpsChan' \in 0..MaxBoots /\ tpsOnce' \in BOOLEAN /\ pollers' \subseteq Boots
      BY <1>3, PromoteTypes DEF ReadReady
    <3>2. reader' \in [Boots -> Lines \cup {"none", "arm"}]
      BY <1>3 DEF TypeOK, ReadReady
    <3>3. QED
      BY <1>3, <3>1, <3>2 DEF TypeOK, ReadReady
  <2>2. BootsInv' /\ NoResurrection'
    BY <1>3, <2>1 DEF TypeOK, BootsInv, ExitsInv, Past, NoResurrection,
       ReadReady, Promote, EnterRunning, StartTPSPoll
  <2>3. ExitsInv' /\ CallersInv' /\ CrashInv'
    BY <1>3, <2>1 DEF TypeOK, BootsInv, Past, ExitsInv, CallersInv, CrashInv,
       ReadReady, Promote, EnterRunning, StartTPSPoll
  <2>4. HealthInv'
    BY <1>3, <2>1 DEF TypeOK, Lines, BootsInv, ExitsInv, Past, NoResurrection,
       HealthInv, Ended, HealthyServerNeverKilled, ReadReady, Promote,
       EnterRunning, StartTPSPoll
  <2>5. QED
    BY <2>1, <2>2, <2>3, <2>4
<1>4. CASE ArmExitDeadline(b)
  <2>1. TypeOK'
    <3>1. deadlineArmed' \in BOOLEAN /\ deadWatch' \in
            [Boots -> {"none", "waiting", "term", "termwait", "kill", "await", "done"}]
      BY <1>4 DEF TypeOK, ArmExitDeadline
    <3>2. QED
      BY <1>4, <3>1 DEF TypeOK, Lines, ArmExitDeadline
  <2>2. BootsInv' /\ NoResurrection'
    BY <1>4, <2>1 DEF TypeOK, BootsInv, ExitsInv, Past, NoResurrection,
       ArmExitDeadline, ArmsDeadline
  <2>3. ExitsInv' /\ CallersInv' /\ CrashInv'
    BY <1>4, <2>1 DEF TypeOK, BootsInv, Past, ExitsInv, CallersInv, CrashInv,
       ArmExitDeadline, ArmsDeadline
  <2>4. HealthInv'
    BY <1>4, <2>1 DEF TypeOK, Lines, BootsInv, ExitsInv, Past, NoResurrection,
       HealthInv, Ended, HealthyServerNeverKilled, ArmExitDeadline, ArmsDeadline
  <2>5. QED
    BY <2>1, <2>2, <2>3, <2>4
<1>5. QED
  BY <1>1, <1>2, <1>3, <1>4 DEF ReaderStep

\* A boot's start timer.
LEMMA StartWatchKeeps ==
  ASSUME IInv, NEW b \in Boots, StartWatchStep(b)
  PROVE  IInv'
<1> USE InstanceAssumption DEF IInv, Boots, vars, lifecycle, poll, goroutines,
      exits, callers, observers
<1>1. CASE StartCancelled(b)
  BY <1>1, SMTT(20) DEF TypeOK, States, Lines, BootsInv, ExitsInv, Past, CallersInv,
       CrashInv, NoResurrection, HealthInv, Ended, HealthyServerNeverKilled,
       StartCancelled
<1>2. CASE PromoteStarting(b)
  <2>1. TypeOK'
    BY <1>2, PromoteTypes, SMTT(20) DEF TypeOK, PromoteStarting
  <2>2. BootsInv' /\ NoResurrection'
    BY <1>2, <2>1 DEF TypeOK, BootsInv, ExitsInv, Past, NoResurrection,
       PromoteStarting, Promote, EnterRunning, StartTPSPoll
  <2>3. ExitsInv' /\ CallersInv' /\ CrashInv'
    BY <1>2, <2>1 DEF TypeOK, BootsInv, Past, ExitsInv, CallersInv, CrashInv,
       PromoteStarting, Promote, EnterRunning, StartTPSPoll
  <2>4. HealthInv'
    BY <1>2, <2>1 DEF TypeOK, Lines, BootsInv, ExitsInv, Past, NoResurrection,
       HealthInv, Ended, HealthyServerNeverKilled, PromoteStarting, Promote,
       EnterRunning, StartTPSPoll
  <2>5. QED
    BY <2>1, <2>2, <2>3, <2>4
<1>3. QED
  BY <1>1, <1>2 DEF StartWatchStep

\* A boot's exit deadline.
LEMMA DeadWatchKeeps ==
  ASSUME IInv, NEW b \in Boots, DeadWatchStep(b)
  PROVE  IInv'
<1> USE InstanceAssumption DEF IInv, Boots, vars, lifecycle, poll, goroutines,
      exits, callers, observers
<1>1. CASE DeadlineExited(b)
  BY <1>1, SMTT(20) DEF TypeOK, States, Lines, BootsInv, ExitsInv, Past, CallersInv,
       CrashInv, NoResurrection, HealthInv, Ended, HealthyServerNeverKilled,
       DeadlineExited, deadWatchOnly
<1>2. CASE DeadlineMark(b)
  <2>1. TypeOK'
    <3>1. state' \in States /\ expectedStop' \in BOOLEAN
      BY <1>2 DEF TypeOK, States, DeadlineMark
    <3>2. QED
      BY <1>2, <3>1 DEF TypeOK, DeadlineMark
  <2>2. BootsInv' /\ NoResurrection'
    BY <1>2, <2>1 DEF TypeOK, BootsInv, ExitsInv, Past, NoResurrection,
       DeadlineMark, deadWatchOnly
  <2>3. ExitsInv' /\ CallersInv' /\ CrashInv'
    BY <1>2, <2>1 DEF TypeOK, BootsInv, Past, ExitsInv, CallersInv, CrashInv,
       DeadlineMark, deadWatchOnly
  <2>4. HealthInv'
    BY <1>2, <2>1 DEF TypeOK, Lines, BootsInv, ExitsInv, Past, NoResurrection,
       HealthInv, Ended, HealthyServerNeverKilled, DeadlineMark, deadWatchOnly
  <2>5. QED
    BY <2>1, <2>2, <2>3, <2>4
<1>3. CASE DeadlineTerm(b)
  <2>1. TypeOK'
    BY <1>3 DEF TypeOK, States, Lines, BootsInv, NoResurrection, DeadlineTerm,
       TermTree, Living, deadWatchOnly
  <2>2. BootsInv' /\ NoResurrection'
    BY <1>3, <2>1 DEF TypeOK, BootsInv, ExitsInv, Past, NoResurrection,
       DeadlineTerm, TermTree, Living, deadWatchOnly
  <2>3. ExitsInv' /\ CallersInv' /\ CrashInv'
    BY <1>3, <2>1 DEF TypeOK, BootsInv, Past, ExitsInv, CallersInv, CrashInv,
       DeadlineTerm, TermTree, Living, deadWatchOnly
  <2>4. HealthInv'
    BY <1>3, <2>1 DEF TypeOK, Lines, BootsInv, ExitsInv, Past, NoResurrection,
       HealthInv, Ended, HealthyServerNeverKilled, DeadlineTerm, TermTree, Living,
       deadWatchOnly
  <2>5. QED
    BY <2>1, <2>2, <2>3, <2>4
<1>4. CASE TermWaitOver(b)
  BY <1>4 DEF TypeOK, States, Lines, BootsInv, ExitsInv, Past, CallersInv,
       CrashInv, NoResurrection, HealthInv, Ended, HealthyServerNeverKilled,
       TermWaitOver, deadWatchOnly
<1>5. CASE DeadlineKill(b)
  <2>1. TypeOK'
    BY <1>5, SMTT(20) DEF TypeOK, States, Lines, BootsInv, NoResurrection, DeadlineKill,
       KillTree, Living, deadWatchOnly
  <2>2. BootsInv' /\ NoResurrection'
    BY <1>5, <2>1 DEF TypeOK, BootsInv, ExitsInv, Past, NoResurrection,
       DeadlineKill, KillTree, Living, deadWatchOnly
  <2>3. ExitsInv' /\ CallersInv' /\ CrashInv'
    BY <1>5, <2>1 DEF TypeOK, BootsInv, Past, ExitsInv, CallersInv, CrashInv,
       DeadlineKill, KillTree, Living, deadWatchOnly
  <2>4. HealthInv'
    BY <1>5, <2>1 DEF TypeOK, Lines, BootsInv, ExitsInv, Past, NoResurrection,
       HealthInv, Ended, HealthyServerNeverKilled, DeadlineKill, KillTree, Living,
       deadWatchOnly
  <2>5. QED
    BY <2>1, <2>2, <2>3, <2>4
<1>6. QED
  BY <1>1, <1>2, <1>3, <1>4, <1>5 DEF DeadWatchStep

\* A boot's waitForExit.
LEMMA WaiterKeeps ==
  ASSUME IInv, NEW b \in Boots, WaiterStep(b)
  PROVE  IInv'
<1> USE InstanceAssumption DEF IInv, Boots, vars, lifecycle, poll, goroutines,
      exits, callers, observers
<1>1. CASE WaitReturns(b)
  BY <1>1, SMTT(20) DEF TypeOK, States, Lines, BootsInv, ExitsInv, Past, CallersInv,
       CrashInv, NoResurrection, HealthInv, Ended, HealthyServerNeverKilled,
       WaitReturns
<1>2. CASE ExitStopsPoll(b)
  <2>1. TypeOK'
    BY <1>2 DEF TypeOK, States, Lines, BootsInv, NoResurrection, ExitStopsPoll,
       StopTPSPoll
  <2>2. BootsInv' /\ NoResurrection'
    BY <1>2, <2>1 DEF TypeOK, BootsInv, ExitsInv, Past, NoResurrection,
       ExitStopsPoll, StopTPSPoll
  <2>3. ExitsInv' /\ CallersInv' /\ CrashInv'
    BY <1>2, <2>1 DEF TypeOK, BootsInv, Past, ExitsInv, CallersInv, CrashInv,
       ExitStopsPoll, StopTPSPoll
  <2>4. HealthInv'
    BY <1>2, <2>1 DEF TypeOK, Lines, BootsInv, ExitsInv, Past, NoResurrection,
       HealthInv, Ended, HealthyServerNeverKilled, ExitStopsPoll, StopTPSPoll
  <2>5. QED
    BY <2>1, <2>2, <2>3, <2>4
<1>3. CASE GoOffline(b)
  <2>1. TypeOK'
    BY <1>3 DEF TypeOK, States, Lines, BootsInv, NoResurrection, GoOffline,
       Verdict
  <2>2. BootsInv' /\ NoResurrection'
    BY <1>3, <2>1 DEF TypeOK, BootsInv, ExitsInv, Past, NoResurrection,
       GoOffline, Verdict
  <2>3. ExitsInv' /\ CallersInv' /\ CrashInv'
    BY <1>3, <2>1 DEF TypeOK, BootsInv, Past, ExitsInv, CallersInv, CrashInv,
       GoOffline, Verdict
  <2>4. HealthInv'
    BY <1>3, <2>1 DEF TypeOK, Lines, BootsInv, ExitsInv, Past, NoResurrection,
       HealthInv, Ended, HealthyServerNeverKilled, GoOffline, Verdict
  <2>5. QED
    BY <2>1, <2>2, <2>3, <2>4
<1>4. CASE EmitStopped(b)
  BY <1>4 DEF TypeOK, States, Lines, BootsInv, ExitsInv, Past, CallersInv,
       CrashInv, NoResurrection, HealthInv, Ended, HealthyServerNeverKilled,
       EmitStopped
<1>5. CASE CloseExited(b)
  <2>1. TypeOK'
    <3>1. closed' = closed \cup {b}
      BY <1>5 DEF ExitsInv, CloseExited, CloseCaptured
    <3>2. QED
      BY <1>5, <3>1 DEF TypeOK, CloseExited
  <2>2. BootsInv' /\ NoResurrection'
    BY <1>5, <2>1 DEF TypeOK, BootsInv, ExitsInv, Past, NoResurrection,
       CloseExited, CloseCaptured
  <2>3. ExitsInv' /\ CallersInv' /\ CrashInv'
    <3>1. closed' = closed \cup {b}
      BY <1>5 DEF ExitsInv, CloseExited, CloseCaptured
    <3>2. b \in stopped'
      BY <1>5 DEF ExitsInv, CloseExited
    <3>3. QED
      BY <1>5, <2>1, <3>1, <3>2
      DEF TypeOK, BootsInv, Past, ExitsInv, CallersInv, CrashInv, CloseExited
  <2>4. HealthInv'
    BY <1>5, <2>1 DEF TypeOK, Lines, BootsInv, ExitsInv, Past, NoResurrection,
       HealthInv, Ended, HealthyServerNeverKilled, CloseExited, CloseCaptured
  <2>5. QED
    BY <2>1, <2>2, <2>3, <2>4
<1>6. QED
  BY <1>1, <1>2, <1>3, <1>4, <1>5 DEF WaiterStep

-----------------------------------------------------------------------------
LEMMA InstanceStep == IInv /\ [Next]_vars => IInv'
<1> SUFFICES ASSUME IInv, [Next]_vars
             PROVE  IInv'
  OBVIOUS
<1>1. CASE Request \/ StopProgress \/ ForceProgress
  BY <1>1, RequestStep, StoppingStep
<1>2. ASSUME NEW b \in Boots,
             ReaderStep(b) \/ StartWatchStep(b) \/ DeadWatchStep(b)
               \/ WaiterStep(b) \/ Process(b)
      PROVE  IInv'
  BY <1>2, ReaderStepKeeps, StartWatchKeeps, DeadWatchKeeps, WaiterKeeps, ProcessStep
<1>3. CASE UNCHANGED vars
  BY <1>3 DEF IInv, TypeOK, BootsInv, ExitsInv, Past, CallersInv, CrashInv,
       NoResurrection, HealthInv, Ended, HealthyServerNeverKilled, vars,
       lifecycle, poll, goroutines, exits, callers, observers
<1>4. QED
  BY <1>1, <1>2, <1>3 DEF Next

LEMMA InstanceInv == Spec => []IInv
<1>1. QED
  BY InstanceInit, InstanceStep, PTL DEF Spec

\* The instance's variables keep their types (serverInstance's lifecycle fields
\* and what each boot's goroutines hold).
THEOREM InstanceTypeCorrect == Spec => []TypeOK
<1>1. IInv => TypeOK
  BY DEF IInv
<1>2. QED
  BY InstanceInv, <1>1, PTL

\* No late Done line and no late start timer puts a machine whose process is
\* gone back to starting or running (EnterRunning's guard in streamOutput and
\* watchStarting).
THEOREM ResurrectionTheorem == Spec => []NoResurrection
<1>1. IInv => NoResurrection
  BY DEF IInv
<1>2. QED
  BY InstanceInv, <1>1, PTL

\* With every reader done before the next boot, neither stop, forceStop nor an
\* exit deadline signals a process nobody asked to end and that announced
\* neither a shutdown nor a crash.
THEOREM HealthTheorem ==
  ASSUME ~ ReadersLag
  PROVE  Spec => []HealthyServerNeverKilled
<1>1. IInv => HealthyServerNeverKilled
  BY DEF IInv, HealthInv
<1>2. QED
  BY InstanceInv, <1>1, PTL

-----------------------------------------------------------------------------
(***************************************************************************)
(* What a step may never do.                                               *)
(***************************************************************************)
\* Only waitForExit's critical section records an exit, of the boot running.
LEMMA RecordedIsOffline ==
  ASSUME IInv, [Next]_vars, NEW b \in Boots, Recorded(b)
  PROVE  GoOffline(b) /\ running /\ b = boot
<1> USE DEF Recorded
<1>1. waiter[b] = "exit" /\ waiter'[b] # "exit"
  OBVIOUS
<1>2. CASE Request \/ StopProgress \/ ForceProgress
  <2>1. CASE StartSpawns
    BY <1>1, <2>1 DEF IInv, TypeOK, BootsInv, Boots, Past, StartSpawns
  <2>2. CASE ~ StartSpawns
    BY <1>1, <1>2, <2>2 DEF Request, StopProgress, ForceProgress, StartFails,
         StopMark, ForceMark, HalfGraceOver, GraceOver, StopReturns, ForceKill,
         ForceReturns, goroutines
  <2>3. QED
    BY <2>1, <2>2
<1>3. ASSUME NEW c \in Boots,
             ReaderStep(c) \/ StartWatchStep(c) \/ DeadWatchStep(c) \/ Process(c)
      PROVE  FALSE
  BY <1>1, <1>3 DEF ReaderStep, ReadStop, ReadCrash, ReadReady, ArmExitDeadline,
       StartWatchStep, StartCancelled, PromoteStarting, DeadWatchStep,
       DeadlineExited, DeadlineMark, DeadlineTerm, TermWaitOver, DeadlineKill,
       deadWatchOnly, Process, ProcessExits, Prints, goroutines
<1>4. ASSUME NEW c \in Boots, WaiterStep(c)
      PROVE  GoOffline(b)
  <2>1. waiter \in [Boots -> {"none", "wait", "poll", "exit", "emit", "close", "done"}]
    BY DEF IInv, TypeOK
  <2>2. QED
    BY <1>1, <1>4, <2>1 DEF WaiterStep, WaitReturns, ExitStopsPoll, GoOffline,
         EmitStopped, CloseExited
<1>5. CASE UNCHANGED vars
  BY <1>1, <1>5 DEF vars, goroutines
<1>6. GoOffline(b)
  BY <1>2, <1>3, <1>4, <1>5 DEF Next
<1>7. running /\ b = boot
  BY <1>1, InstanceAssumption DEF IInv, TypeOK, BootsInv, Boots, Past
<1>8. QED
  BY <1>6, <1>7

\* An exit whose crash line was read before it is recorded as a crash, whatever
\* stop, force stop or exit deadline came in between (waitForExit's verdict).
THEOREM CrashTheorem == Spec => CrashWins
<1>1. ASSUME IInv, [Next]_vars
      PROVE  \A b \in crashSeen : Recorded(b) => lastStop' = "unexpected"
  <2>1. TAKE b \in crashSeen
  <2>2. HAVE Recorded(b)
  <2>3. b \in Boots
    BY <1>1 DEF IInv, TypeOK
  <2>4. GoOffline(b) /\ running /\ b = boot
    BY <1>1, <2>2, <2>3, RecordedIsOffline
  <2>5. crashed
    BY <1>1, <2>4 DEF IInv, CrashInv
  <2>6. QED
    BY <2>4, <2>5 DEF GoOffline, Verdict
<1>2. QED
  BY InstanceInv, <1>1, PTL DEF Spec, CrashWins

\* With every reader done before the next boot, an exit is recorded as expected
\* only for a boot that was asked to stop or announced its own shutdown: start
\* forgets the flags of the boot before.
THEOREM DeliberateTheorem ==
  ASSUME ~ ReadersLag
  PROVE  Spec => ExpectedIsDeliberate
<1>1. ASSUME IInv, [Next]_vars
      PROVE  \A b \in Boots : Recorded(b) /\ lastStop' = "expected" => b \in ending
  <2>1. TAKE b \in Boots
  <2>2. HAVE Recorded(b) /\ lastStop' = "expected"
  <2>3. GoOffline(b) /\ running /\ b = boot
    BY <1>1, <2>2, RecordedIsOffline
  <2>4. expectedStop
    BY <2>2, <2>3 DEF GoOffline, Verdict
  <2>5. QED
    BY <1>1, <2>3, <2>4 DEF IInv, HealthInv
<1>2. QED
  BY InstanceInv, <1>1, PTL DEF Spec, ExpectedIsDeliberate

\* The goroutines of a boot leave the callers alone.
LEMMA OthersKeepCallers ==
  ASSUME [Next]_vars, ~ (Request \/ StopProgress \/ ForceProgress)
  PROVE  UNCHANGED callers
<1>1. ASSUME NEW b \in Boots,
             ReaderStep(b) \/ StartWatchStep(b) \/ DeadWatchStep(b) \/ Process(b)
      PROVE  UNCHANGED callers
  BY <1>1 DEF ReaderStep, ReadStop, ReadCrash, ReadReady, ArmExitDeadline,
       StartWatchStep, StartCancelled, PromoteStarting, DeadWatchStep,
       DeadlineExited, DeadlineMark, DeadlineTerm, TermWaitOver, DeadlineKill,
       deadWatchOnly, Process, ProcessExits, Prints
<1>2. ASSUME NEW b \in Boots, WaiterStep(b)
      PROVE  UNCHANGED callers
  BY <1>2 DEF WaiterStep, WaitReturns, ExitStopsPoll, GoOffline, EmitStopped,
       CloseExited
<1>3. QED
  BY <1>1, <1>2 DEF Next, vars

\* stop() and forceStop() return only after the boot whose channel they
\* captured was torn down and its server:stopped emitted.
THEOREM ReturnTheorem == Spec => StopReturnsAfterStopped
<1>1. ASSUME IInv, [Next]_vars
      PROVE  /\ stopper.phase # "idle" /\ stopper'.phase = "idle" => stopper.boot \in stopped
             /\ forcer.phase # "idle" /\ forcer'.phase = "idle" => forcer.boot \in stopped
  <2>1. closed \subseteq stopped
    BY <1>1 DEF IInv, TypeOK, ExitsInv
  <2>2. stopper.phase # "idle" /\ stopper'.phase = "idle" => stopper.boot \in closed
    <3>1. CASE Request \/ StopProgress \/ ForceProgress
      BY <1>1, <3>1 DEF IInv, TypeOK, Request, StopProgress, ForceProgress,
           StartSpawns, StartFails, StopMark, ForceMark, HalfGraceOver, GraceOver,
           StopReturns, ForceKill, ForceReturns, callers
    <3>2. CASE ~ (Request \/ StopProgress \/ ForceProgress)
      BY <1>1, <3>2, OthersKeepCallers DEF callers
    <3>3. QED
      BY <3>1, <3>2
  <2>3. forcer.phase # "idle" /\ forcer'.phase = "idle" => forcer.boot \in closed
    <3>1. CASE Request \/ StopProgress \/ ForceProgress
      BY <1>1, <3>1 DEF IInv, TypeOK, Request, StopProgress, ForceProgress,
           StartSpawns, StartFails, StopMark, ForceMark, HalfGraceOver, GraceOver,
           StopReturns, ForceKill, ForceReturns, callers
    <3>2. CASE ~ (Request \/ StopProgress \/ ForceProgress)
      BY <1>1, <3>2, OthersKeepCallers DEF callers
    <3>3. QED
      BY <3>1, <3>2
  <2>4. QED
    BY <2>1, <2>2, <2>3
<1>2. QED
  BY InstanceInv, <1>1, PTL DEF Spec, StopReturnsAfterStopped

-----------------------------------------------------------------------------
(***************************************************************************)
(* The instance keeps the contract its manager relies on: every step is a  *)
(* step of the contract or one the manager cannot see.                     *)
(***************************************************************************)
\* What the manager sees of an instance.
Shown == <<running, boot, IF ~ running THEN "none"
                          ELSE IF proc[boot] = "termed" THEN "alive"
                          ELSE proc[boot], (1..boot) \ closed>>

ContractStep == Contract!Next \/ UNCHANGED Shown

\* Only the running boot's process lives.
LEMMA LivingIsRunning ==
  ASSUME IInv, NEW b \in Boots, proc[b] \in {"alive", "termed", "killed"}
  PROVE  running /\ b = boot
<1>1. ~ Past(b)
  BY DEF IInv, ExitsInv
<1>2. b <= boot /\ ~ (b < boot)
  BY <1>1 DEF IInv, TypeOK, BootsInv, Boots
<1>3. QED
  BY <1>1, <1>2 DEF IInv, TypeOK, BootsInv, Boots

LEMMA SignalShows ==
  ASSUME IInv, NEW b \in 0..MaxBoots, TermTree(b) \/ KillTree(b), UNCHANGED <<running, boot, closed>>
  PROVE  ContractStep
<1>1. CASE b \in Boots /\ Living(b)
  <2>1. running /\ b = boot
    BY <1>1, LivingIsRunning DEF Living
  <2>2. proc' \in {[proc EXCEPT ![boot] = "termed"], [proc EXCEPT ![boot] = "killed"]}
    BY <1>1, <2>1 DEF TermTree, KillTree
  <2>3. proc'[boot] \in {"termed", "killed"} /\ proc[boot] \in {"alive", "termed"}
    BY <1>1, <2>1, <2>2 DEF IInv, TypeOK, Living
  <2>4. CASE proc'[boot] = "termed"
    BY <2>1, <2>3, <2>4 DEF ContractStep, Shown
  <2>5. CASE proc'[boot] = "killed"
    BY <2>1, <2>3, <2>5 DEF ContractStep, Contract!Next, Contract!Kill
  <2>6. QED
    BY <2>3, <2>4, <2>5
<1>2. CASE b \in Boots /\ ~ Living(b)
  <2>1. UNCHANGED proc
    BY <1>2 DEF TermTree, KillTree
  <2>2. QED
    BY <2>1 DEF ContractStep, Shown
<1>3. CASE b = 0
  <2>1. running => proc'[boot] = proc[boot]
    BY <1>3, InstanceAssumption DEF IInv, TypeOK, BootsInv, Boots, TermTree, KillTree
  <2>2. QED
    BY <2>1 DEF ContractStep, Shown
<1>4. QED
  BY <1>1, <1>2, <1>3, InstanceAssumption DEF Boots

LEMMA RequestShows ==
  ASSUME IInv, Request \/ StopProgress \/ ForceProgress
  PROVE  ContractStep
<1>1. CASE StartSpawns
  <2>1. boot + 1 \in Boots /\ boot \in Nat
    BY <1>1, InstanceAssumption DEF IInv, TypeOK, Boots, StartSpawns
  <2>2. proc'[boot + 1] = "alive"
    BY <1>1, <2>1 DEF IInv, TypeOK, StartSpawns
  <2>3. boot + 1 \notin closed
    BY <2>1 DEF IInv, BootsInv, ExitsInv
  <2>4. (1..boot') \ closed' = ((1..boot) \ closed) \cup {boot + 1}
    BY <1>1, <2>1, <2>3 DEF StartSpawns, exits
  <2>5. Contract!Spawn
    BY <1>1, <2>2, <2>4 DEF Contract!Spawn, StartSpawns
  <2>6. QED
    BY <2>5 DEF ContractStep, Contract!Next
<1>2. CASE HalfGraceOver \/ GraceOver \/ ForceKill
  BY <1>2, SignalShows DEF IInv, TypeOK, HalfGraceOver, GraceOver, ForceKill,
       lifecycle, exits
<1>3. CASE StartFails \/ StopMark \/ ForceMark \/ StopReturns \/ ForceReturns
  BY <1>3 DEF StartFails, StopMark, ForceMark, StopReturns, ForceReturns,
       ContractStep, Shown, lifecycle, exits
<1>4. QED
  BY <1>1, <1>2, <1>3 DEF Request, StopProgress, ForceProgress

LEMMA GoroutineShows ==
  ASSUME IInv, NEW b \in Boots,
         ReaderStep(b) \/ StartWatchStep(b) \/ DeadWatchStep(b)
  PROVE  ContractStep
<1>1. CASE DeadlineTerm(b) \/ DeadlineKill(b)
  <2>1. b \in 0..MaxBoots
    BY InstanceAssumption DEF Boots
  <2>2. QED
    BY <1>1, <2>1, SignalShows DEF DeadlineTerm, DeadlineKill, deadWatchOnly,
         lifecycle, exits
<1>2. CASE ~ (DeadlineTerm(b) \/ DeadlineKill(b))
  <2>1. UNCHANGED <<running, boot, proc, closed>>
    BY <1>2 DEF ReaderStep, ReadStop, ReadCrash, ReadReady, ArmExitDeadline,
         StartWatchStep, StartCancelled, PromoteStarting, DeadWatchStep,
         DeadlineExited, DeadlineMark, TermWaitOver, deadWatchOnly, lifecycle, exits
  <2>2. QED
    BY <2>1 DEF ContractStep, Shown
<1>3. QED
  BY <1>1, <1>2

LEMMA ExitShows ==
  ASSUME IInv, NEW b \in Boots, WaiterStep(b) \/ Process(b)
  PROVE  ContractStep
<1>1. CASE ProcessExits(b)
  <2>1. running /\ b = boot
    BY <1>1, LivingIsRunning DEF ProcessExits
  <2>2. proc'[boot] = "dead"
    BY <1>1, <2>1 DEF IInv, TypeOK, ProcessExits
  <2>3. Contract!Exit
    BY <1>1, <2>1, <2>2 DEF ProcessExits, Contract!Exit, lifecycle, exits
  <2>4. QED
    BY <2>3 DEF ContractStep, Contract!Next
<1>2. CASE GoOffline(b)
  <2>1. running /\ b = boot /\ proc[boot] = "dead"
    BY <1>2, InstanceAssumption
    DEF IInv, TypeOK, BootsInv, ExitsInv, Past, Boots, GoOffline
  <2>2. Contract!TearDown
    BY <1>2, <2>1 DEF GoOffline, Contract!TearDown
  <2>3. QED
    BY <2>2 DEF ContractStep, Contract!Next
<1>3. CASE CloseExited(b)
  <2>1. closed' = closed \cup {b}
    BY <1>3 DEF IInv, ExitsInv, CloseExited, CloseCaptured
  <2>2. b \in (1..boot) \ closed
    BY <1>3, InstanceAssumption DEF IInv, TypeOK, BootsInv, ExitsInv, Boots, CloseExited
  <2>3. ~ (running /\ boot = b)
    BY <1>3, <2>2 DEF IInv, TypeOK, BootsInv, CloseExited
  <2>4. Contract!Close(b)
    BY <1>3, <2>1, <2>2, <2>3 DEF CloseExited, Contract!Close, lifecycle
  <2>5. QED
    BY <2>2, <2>4 DEF ContractStep, Contract!Next, Contract!CloseSome
<1>4. CASE WaitReturns(b) \/ ExitStopsPoll(b) \/ EmitStopped(b)
  BY <1>4 DEF WaitReturns, ExitStopsPoll, EmitStopped, ContractStep, Shown,
       lifecycle, exits
<1>5. ASSUME NEW line \in Lines, Prints(b, line)
      PROVE  ContractStep
  BY <1>5 DEF Prints, ContractStep, Shown, lifecycle, exits
<1>6. QED
  BY <1>1, <1>2, <1>3, <1>4, <1>5 DEF WaiterStep, Process

\* Every boot, stop, force stop, deadline and exit of an instance is a step of
\* the contract its manager relies on, or one that does not show
\* (ServerManager assumes the contract of each of its servers).
THEOREM InstanceContractTheorem == Spec => KeepsContract
<1>1. Init => Contract!Init
  BY DEF Init, Contract!Init
<1>2. IInv /\ [Next]_vars => ContractStep
  <2>1. SUFFICES ASSUME IInv, [Next]_vars
                 PROVE  ContractStep
    OBVIOUS
  <2>2. CASE UNCHANGED vars
    BY <2>2 DEF ContractStep, Shown, vars, lifecycle, exits
  <2>3. CASE Next
    BY <2>1, <2>3, RequestShows, GoroutineShows, ExitShows DEF Next
  <2>4. QED
    BY <2>1, <2>2, <2>3
<1>3. ContractStep => [Contract!Next]_(Contract!contractVars)
  BY DEF ContractStep, Shown, Contract!contractVars
<1>4. QED
  BY InstanceInv, <1>1, <1>2, <1>3, PTL DEF Spec, KeepsContract, Contract!Spec

=============================================================================
