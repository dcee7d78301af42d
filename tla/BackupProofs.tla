---------------------------- MODULE BackupProofs ----------------------------
(***************************************************************************)
(* Theorems about world copies and the server's autosave, for any backups, *)
(* duplications and restores and any number of boots, and about the swap   *)
(* of folders that ends a restore, for any set of dimensions.              *)
(***************************************************************************)
EXTENDS BackupSaves, RestoreSwap, SequenceTheorems, TLAPS

\* A backup holds the claim from its beginning, a restore from its swap; they
\* share no other phase.
ClaimInv ==
  /\ \A o \in Copies : pc[o] \notin {"claim", "swap"}
  /\ \A o \in Backups : pc[o] # "idle" => busy = o
  /\ \A o \in Restores : /\ pc[o] \in {"idle", "claim", "swap", "release"}
                         /\ pc[o] \in {"swap", "release"} => busy = o

\* Two copies of which one is a duplication have met.
MetInv ==
  \A o \in Duplicates, p \in Copies :
    o # p /\ pc[o] # "idle" /\ pc[p] # "idle" => {o, p} \subseteq met

\* A copy that sends commands found the server running, on a boot of its past.
PausedInv ==
  \A o \in Copies :
    /\ onBoot[o] <= boot
    /\ pc[o] \in {"saveoff", "flush", "settle", "undo", "resume", "saveon"} => paused[o]

\* What the console holds leaves the autosave off, or on, once it is read.
Free(cmd) == \A i \in 1..Len(console) : console[i] # cmd

Leads(cmd, other) ==
  \E i \in 1..Len(console) :
    console[i] = cmd /\ \A j \in i..Len(console) : console[j] # other

EndsOff == (autosave = FALSE /\ Free("save-on")) \/ Leads("save-off", "save-on")
EndsOn == (autosave = TRUE /\ Free("save-off")) \/ Leads("save-on", "save-off")

\* A copy that met no duplication and whose save-off was delivered leaves the
\* autosave off; by the copying itself it is off.
QuietInv ==
  \A o \in Copies \ met :
    Running /\ boot = onBoot[o] =>
      /\ pc[o] \in {"flush", "settle"} => EndsOff
      /\ pc[o] = "copy" /\ paused[o] => autosave = FALSE /\ console = <<>>

\* Copy o has still to turn the saves on.
Owes(o) ==
  \/ pc[o] \in {"flush", "settle", "undo", "resume", "saveon"}
  \/ pc[o] = "copy" /\ paused[o]

BackInv == server = "up" => EndsOn \/ \E o \in Copies : Owes(o)

IInv == TypeOK /\ ClaimInv /\ MetInv /\ PausedInv /\ QuietInv /\ BackInv

-----------------------------------------------------------------------------
(***************************************************************************)
(* What the save commands leave behind.                                    *)
(***************************************************************************)
\* A command appended to the console is the last one carried out.
LEMMA AppendedLeads ==
  ASSUME console \in Seq(Commands), NEW cmd \in Commands, NEW other \in Commands,
         cmd # other, console' = Append(console, cmd)
  PROVE  Leads(cmd, other)'
<1>1. /\ Len(console) \in Nat /\ Len(console') = Len(console) + 1
      /\ console'[Len(console) + 1] = cmd
  BY AppendProperties
<1>2. Len(console) + 1 \in 1..Len(console')
  BY <1>1
<1>3. \A j \in Len(console) + 1..Len(console') : console'[j] # other
  BY <1>1
<1>4. QED
  BY <1>1, <1>2, <1>3 DEF Leads

\* A flush appended changes nothing of where the console ends.
LEMMA FlushKeepsEnds ==
  ASSUME console \in Seq(Commands), NEW flush \in Commands, NEW cmd, NEW other,
         flush # other, console' = Append(console, flush)
  PROVE  /\ Free(other) => Free(other)'
         /\ Leads(cmd, other) => Leads(cmd, other)'
<1>1. /\ Len(console) \in Nat /\ Len(console') = Len(console) + 1
      /\ \A i \in 1..Len(console) : console'[i] = console[i]
      /\ console'[Len(console) + 1] = flush
  BY AppendProperties
<1>2. Free(other) => Free(other)'
  BY <1>1 DEF Free
<1>3. ASSUME Leads(cmd, other)
      PROVE  Leads(cmd, other)'
  <2>1. PICK i \in 1..Len(console) :
          console[i] = cmd /\ \A j \in i..Len(console) : console[j] # other
    BY <1>3 DEF Leads
  <2>2. i \in 1..Len(console') /\ console'[i] = cmd
    BY <1>1, <2>1
  <2>3. \A j \in i..Len(console') : console'[j] # other
    BY <1>1, <2>1
  <2>4. QED
    BY <2>2, <2>3 DEF Leads
<1>4. QED
  BY <1>2, <1>3

\* A console that was read shows where it ends.
LEMMA ReadEnds ==
  ASSUME console = <<>>
  PROVE  (EndsOff <=> autosave = FALSE) /\ (EndsOn <=> autosave = TRUE)
<1>1. Len(console) = 0
  BY EmptySeq
<1>2. QED
  BY <1>1 DEF EndsOff, EndsOn, Free, Leads

LEMMA ReadEndsNext ==
  ASSUME console' = <<>>
  PROVE  (EndsOff' <=> autosave' = FALSE) /\ (EndsOn' <=> autosave' = TRUE)
<1>1. Len(console') = 0
  BY EmptySeq
<1>2. QED
  BY <1>1 DEF EndsOff, EndsOn, Free, Leads

\* Reading the console one command at a time does not change where it ends.
LEMMA ReadingKeepsEnds ==
  ASSUME TypeOK, ReadsConsole
  PROVE  (EndsOff => EndsOff') /\ (EndsOn => EndsOn')
<1>1. /\ Head(console) \in Commands /\ Head(console) = console[1]
      /\ Len(console) \in Nat \ {0}
      /\ console' \in Seq(Commands) /\ Len(console') = Len(console) - 1
      /\ \A i \in 1..Len(console') : console'[i] = console[i + 1]
  BY HeadTailProperties, EmptySeq DEF TypeOK, ReadsConsole
<1>2. ASSUME NEW cmd, NEW other, cmd # other,
             Leads(cmd, other), Head(console) # cmd
      PROVE  Leads(cmd, other)'
  <2>1. PICK i \in 1..Len(console) :
          console[i] = cmd /\ \A j \in i..Len(console) : console[j] # other
    BY <1>2 DEF Leads
  <2>2. i - 1 \in 1..Len(console') /\ console'[i - 1] = cmd
    BY <1>1, <1>2, <2>1
  <2>3. \A j \in i - 1..Len(console') : console'[j] # other
    BY <1>1, <2>1, <2>2
  <2>4. QED
    BY <2>2, <2>3 DEF Leads
<1>3. ASSUME NEW cmd, NEW other, Leads(cmd, other), Head(console) = cmd
      PROVE  Leads(cmd, other)' \/ Free(other)'
  <2>1. PICK i \in 1..Len(console) :
          console[i] = cmd /\ \A j \in i..Len(console) : console[j] # other
    BY <1>3 DEF Leads
  <2>2. CASE i = 1
    BY <1>1, <2>1, <2>2 DEF Free
  <2>3. CASE i # 1
    <3>1. i - 1 \in 1..Len(console') /\ console'[i - 1] = cmd
      BY <1>1, <2>1, <2>3
    <3>2. \A j \in i - 1..Len(console') : console'[j] # other
      BY <1>1, <2>1, <3>1
    <3>3. QED
      BY <3>1, <3>2 DEF Leads
  <2>4. QED
    BY <2>2, <2>3
<1>4. ASSUME NEW other, Free(other)
      PROVE  Free(other)' /\ Head(console) # other
  BY <1>1, <1>4 DEF Free
<1>5. /\ Head(console) = "save-off" => autosave' = FALSE
      /\ Head(console) = "save-on" => autosave' = TRUE
      /\ Head(console) = "save-all flush" => autosave' = autosave
  BY DEF ReadsConsole, Switched
<1>6. ASSUME EndsOff
      PROVE  EndsOff'
  <2>1. CASE autosave = FALSE /\ Free("save-on")
    BY <1>1, <1>4, <1>5, <2>1 DEF EndsOff, Commands
  <2>2. CASE Leads("save-off", "save-on")
    BY <1>2, <1>3, <1>5, <2>2 DEF EndsOff
  <2>3. QED
    BY <1>6, <2>1, <2>2 DEF EndsOff
<1>7. ASSUME EndsOn
      PROVE  EndsOn'
  <2>1. CASE autosave = TRUE /\ Free("save-off")
    BY <1>1, <1>4, <1>5, <2>1 DEF EndsOn, Commands
  <2>2. CASE Leads("save-on", "save-off")
    BY <1>2, <1>3, <1>5, <2>2 DEF EndsOn
  <2>3. QED
    BY <1>7, <2>1, <2>2 DEF EndsOn
<1>8. QED
  BY <1>6, <1>7

\* What a delivered command leaves behind, over RCON or over the console.
LEMMA Delivered ==
  ASSUME TypeOK, NEW o \in Ops, NEW cmd \in Commands, Deliver(o, cmd)
  PROVE  /\ autosave' \in BOOLEAN /\ console' \in Seq(Commands)
         /\ viaStdin' \in [Ops -> BOOLEAN] /\ UNCHANGED <<server, boot>>
         /\ cmd = "save-off" => EndsOff'
         /\ cmd = "save-on" => EndsOn'
         /\ cmd = "save-all flush" => (EndsOff => EndsOff') /\ (EndsOn => EndsOn')
         /\ ~ viaStdin'[o] => console' = <<>>
<1>1. CASE OverRcon(cmd)
  <2>1. console = <<>> /\ console' = <<>> /\ autosave' = Switched(cmd)
    BY <1>1 DEF OverRcon
  <2>2. (EndsOff' <=> autosave' = FALSE) /\ (EndsOn' <=> autosave' = TRUE)
    BY <2>1, ReadEndsNext
  <2>3. QED
    BY <1>1, <2>1, <2>2, ReadEnds DEF TypeOK, OverRcon, Switched, Commands
<1>2. CASE OverStdin(o, cmd)
  <2>1. console' = Append(console, cmd) /\ MayHaveLanded(cmd)
    BY <1>2 DEF OverStdin
  <2>2. console' \in Seq(Commands)
    BY <2>1, AppendProperties DEF TypeOK
  <2>3. autosave' \in {autosave, Switched(cmd)}
    BY <2>1 DEF MayHaveLanded
  <2>4. viaStdin'[o] /\ viaStdin' \in [Ops -> BOOLEAN]
    BY <1>2 DEF TypeOK, OverStdin
  <2>5. cmd = "save-off" => EndsOff'
    BY <2>1, AppendedLeads DEF TypeOK, EndsOff, Commands
  <2>6. cmd = "save-on" => EndsOn'
    BY <2>1, AppendedLeads DEF TypeOK, EndsOn, Commands
  <2>7. cmd = "save-all flush" => (EndsOff => EndsOff') /\ (EndsOn => EndsOn')
    <3>1. SUFFICES ASSUME cmd = "save-all flush"
                   PROVE  (EndsOff => EndsOff') /\ (EndsOn => EndsOn')
      OBVIOUS
    <3>2. /\ Free("save-on") => Free("save-on")'
          /\ Free("save-off") => Free("save-off")'
          /\ Leads("save-off", "save-on") => Leads("save-off", "save-on")'
          /\ Leads("save-on", "save-off") => Leads("save-on", "save-off")'
      BY <2>1, <3>1, FlushKeepsEnds DEF TypeOK
    <3>3. QED
      BY <2>3, <3>1, <3>2 DEF EndsOff, EndsOn, Switched
  <2>8. QED
    BY <1>2, <2>2, <2>3, <2>4, <2>5, <2>6, <2>7 DEF TypeOK, OverStdin, Switched
<1>3. QED
  BY <1>1, <1>2 DEF Deliver

LEMMA NotDelivered ==
  ASSUME TypeOK, NEW cmd \in Commands, DeliverFails(cmd)
  PROVE  /\ server # "up" /\ autosave' \in BOOLEAN
         /\ UNCHANGED <<server, boot, console, viaStdin>>
BY DEF DeliverFails, MayHaveLanded, Switched, TypeOK

-----------------------------------------------------------------------------
(***************************************************************************)
(* The claim and the met.                                                  *)
(***************************************************************************)
\* A copy that met no duplication is the only copy in progress.
LEMMA OnlyCopy ==
  ASSUME IInv, NEW o \in Copies \ met, NEW p \in Copies,
         pc[o] # "idle", pc[p] # "idle"
  PROVE  o = p
<1>1. CASE o \in Duplicates \/ p \in Duplicates
  BY <1>1 DEF IInv, MetInv, Copies
<1>2. CASE o \in Backups /\ p \in Backups
  BY <1>2 DEF IInv, ClaimInv
<1>3. QED
  BY <1>1, <1>2 DEF Copies

-----------------------------------------------------------------------------
LEMMA BackupInit == Init => IInv
<1> SUFFICES ASSUME Init
             PROVE  IInv
  OBVIOUS
<1> USE DEF Init
<1>1. TypeOK
  <2>1. console \in Seq(Commands)
    BY EmptySeq
  <2>2. boot \in 0..MaxBoots /\ onBoot \in [Ops -> 0..MaxBoots]
    BY BackupAssumption
  <2>3. pc \in [Ops -> Phases] /\ server \in {"down", "up", "stopping"}
    BY DEF Phases
  <2>4. autosave \in BOOLEAN /\ paused \in [Ops -> BOOLEAN] /\ viaStdin \in [Ops -> BOOLEAN]
    OBVIOUS
  <2>5. QED
    BY <2>1, <2>2, <2>3, <2>4 DEF TypeOK
<1>2. ClaimInv /\ MetInv /\ PausedInv
  BY DEF ClaimInv, MetInv, PausedInv, Ops, Copies
<1>3. QuietInv /\ BackInv
  BY DEF QuietInv, BackInv, Running
<1>4. QED
  BY <1>1, <1>2, <1>3 DEF IInv

\* Where the console ends changes with it and the autosave alone.
LEMMA EndsSame ==
  ASSUME UNCHANGED <<autosave, console>>
  PROVE  UNCHANGED <<EndsOff, EndsOn>>
BY DEF EndsOff, EndsOn, Free, Leads

\* An operation begins.
LEMMA BeginsKeeps ==
  ASSUME IInv, NEW o \in Ops, Begins(o)
  PROVE  IInv'
<1> USE BackupAssumption DEF IInv, Ops, Copies, Claimers, Goto, Running,
      vars, serverVars, opVars
<1>1. CASE BackupBegins(o)
  <2>1. TypeOK'
    BY <1>1 DEF TypeOK, Phases, BackupBegins, Claim, Meets, InProgress
  <2>2. ClaimInv' /\ MetInv' /\ PausedInv'
    BY <1>1 DEF TypeOK, ClaimInv, MetInv, PausedInv, BackupBegins, Claim, Meets,
       InProgress
  <2>3. QuietInv'
    BY <1>1, <2>1, EndsSame DEF TypeOK, QuietInv, PausedInv, BackupBegins,
       Claim, Meets, InProgress
  <2>4. BackInv'
    BY <1>1, <2>1, EndsSame DEF TypeOK, BackInv, Owes, PausedInv, ClaimInv,
       BackupBegins, Claim, Meets, InProgress
  <2>5. QED
    BY <2>1, <2>2, <2>3, <2>4
<1>2. CASE DuplicateBegins(o)
  <2>1. TypeOK'
    BY <1>2 DEF TypeOK, Phases, DuplicateBegins, Meets, InProgress
  <2>2. ClaimInv' /\ MetInv' /\ PausedInv'
    BY <1>2 DEF TypeOK, ClaimInv, MetInv, PausedInv, DuplicateBegins, Meets,
       InProgress
  <2>3. QuietInv'
    BY <1>2, <2>1, EndsSame DEF TypeOK, QuietInv, PausedInv, DuplicateBegins,
       Meets, InProgress
  <2>4. BackInv'
    BY <1>2, <2>1, EndsSame DEF TypeOK, BackInv, Owes, PausedInv, ClaimInv,
       DuplicateBegins, Meets, InProgress
  <2>5. QED
    BY <2>1, <2>2, <2>3, <2>4
<1>3. CASE RestoreChecks(o)
  <2>1. TypeOK'
    BY <1>3 DEF TypeOK, Phases, RestoreChecks
  <2>2. ClaimInv' /\ MetInv' /\ PausedInv'
    BY <1>3 DEF TypeOK, ClaimInv, MetInv, PausedInv, RestoreChecks
  <2>3. QuietInv'
    BY <1>3, <2>1, EndsSame DEF TypeOK, QuietInv, PausedInv, RestoreChecks
  <2>4. BackInv'
    BY <1>3, <2>1, EndsSame DEF TypeOK, BackInv, Owes, PausedInv, ClaimInv,
       RestoreChecks
  <2>5. QED
    BY <2>1, <2>2, <2>3, <2>4
<1>4. QED
  BY <1>1, <1>2, <1>3 DEF Begins

\* The steps of a copy that send no command.
LEMMA CopyKeeps ==
  ASSUME IInv, NEW o \in Ops, Prepare(o) \/ Settle(o) \/ CopyEnds(o) \/ Resume(o)
  PROVE  IInv'
<1> USE BackupAssumption DEF IInv, Ops, Copies, Claimers, Goto, Running,
      vars, serverVars, opVars
<1>1. CASE Prepare(o)
  <2>1. TypeOK'
    BY <1>1 DEF TypeOK, Phases, Prepare
  <2>2. ClaimInv' /\ MetInv' /\ PausedInv'
    <3>1. ClaimInv' /\ MetInv'
      BY <1>1 DEF TypeOK, ClaimInv, MetInv, Prepare
    <3>2. PausedInv'
      <4>1. boot \in Nat /\ UNCHANGED boot
        BY <1>1 DEF TypeOK, Prepare
      <4>2. /\ onBoot'[o] = boot /\ (Running => paused'[o])
            /\ pc'[o] \in {"saveoff", "copy"} /\ (pc'[o] = "saveoff" => Running)
        BY <1>1 DEF TypeOK, Prepare
      <4>3. \A p \in Ops : p # o => /\ onBoot'[p] = onBoot[p] /\ paused'[p] = paused[p]
                                    /\ pc'[p] = pc[p]
        BY <1>1 DEF TypeOK, Prepare
      <4>4. QED
        BY <4>1, <4>2, <4>3 DEF PausedInv
    <3>3. QED
      BY <3>1, <3>2
  <2>3. QuietInv'
    BY <1>1, <2>1, EndsSame DEF TypeOK, QuietInv, PausedInv, Prepare
  <2>4. BackInv'
    BY <1>1, <2>1, EndsSame DEF TypeOK, BackInv, Owes, PausedInv, ClaimInv,
       Prepare
  <2>5. QED
    BY <2>1, <2>2, <2>3, <2>4
<1>2. CASE Settle(o)
  <2>1. TypeOK'
    BY <1>2 DEF TypeOK, Phases, Settle
  <2>2. ClaimInv' /\ MetInv' /\ PausedInv'
    BY <1>2 DEF TypeOK, ClaimInv, MetInv, PausedInv, Settle
  <2>3. QuietInv'
    BY <1>2, <2>1, ReadEnds, EndsSame DEF TypeOK, QuietInv, PausedInv, Settle
  <2>4. BackInv'
    BY <1>2, <2>1, ReadEnds, EndsSame DEF TypeOK, BackInv, Owes, PausedInv,
       ClaimInv, Settle
  <2>5. QED
    BY <2>1, <2>2, <2>3, <2>4
<1>3. CASE CopyEnds(o)
  <2>1. TypeOK'
    BY <1>3 DEF TypeOK, Phases, CopyEnds
  <2>2. ClaimInv' /\ MetInv' /\ PausedInv'
    BY <1>3 DEF TypeOK, ClaimInv, MetInv, PausedInv, CopyEnds
  <2>3. QuietInv'
    BY <1>3, <2>1, EndsSame DEF TypeOK, QuietInv, PausedInv, CopyEnds
  <2>4. BackInv'
    BY <1>3, <2>1, EndsSame DEF TypeOK, BackInv, Owes, PausedInv, ClaimInv,
       CopyEnds
  <2>5. QED
    BY <2>1, <2>2, <2>3, <2>4
<1>4. CASE Resume(o)
  <2>1. TypeOK'
    BY <1>4 DEF TypeOK, Phases, Resume
  <2>2. ClaimInv' /\ MetInv' /\ PausedInv'
    BY <1>4 DEF TypeOK, ClaimInv, MetInv, PausedInv, Resume
  <2>3. QuietInv'
    BY <1>4, <2>1, EndsSame DEF TypeOK, QuietInv, PausedInv, Resume
  <2>4. BackInv'
    BY <1>4, <2>1, EndsSame DEF TypeOK, BackInv, Owes, PausedInv, ClaimInv,
       Resume
  <2>5. QED
    BY <2>1, <2>2, <2>3, <2>4
<1>5. QED
  BY <1>1, <1>2, <1>3, <1>4

\* A restore under its claim, and the release of every operation.
LEMMA RestoreKeeps ==
  ASSUME IInv, NEW o \in Ops, RestoreClaims(o) \/ SwapEnds(o) \/ Release(o)
  PROVE  IInv'
<1> USE BackupAssumption DEF IInv, Ops, Copies, Claimers, Goto, Running,
      vars, serverVars, opVars
<1>1. CASE RestoreClaims(o)
  <2>1. TypeOK'
    <3>1. pc' \in [Ops -> Phases] /\ o \in Restores
      BY <1>1 DEF TypeOK, Phases, ClaimInv, RestoreClaims
    <3>2. QED
      BY <1>1, <3>1 DEF TypeOK, RestoreClaims, Claim
  <2>2. ClaimInv' /\ MetInv' /\ PausedInv'
    BY <1>1 DEF TypeOK, ClaimInv, MetInv, PausedInv, RestoreClaims, Claim
  <2>3. QuietInv'
    BY <1>1, <2>1, EndsSame DEF TypeOK, QuietInv, PausedInv, RestoreClaims,
       Claim
  <2>4. BackInv'
    BY <1>1, <2>1, EndsSame DEF TypeOK, BackInv, Owes, PausedInv, ClaimInv,
       RestoreClaims, Claim
  <2>5. QED
    BY <2>1, <2>2, <2>3, <2>4
<1>2. CASE SwapEnds(o)
  <2>1. TypeOK'
    BY <1>2 DEF TypeOK, Phases, SwapEnds
  <2>2. ClaimInv' /\ MetInv' /\ PausedInv'
    BY <1>2 DEF TypeOK, ClaimInv, MetInv, PausedInv, SwapEnds
  <2>3. QuietInv'
    BY <1>2, <2>1, EndsSame DEF TypeOK, QuietInv, PausedInv, SwapEnds
  <2>4. BackInv'
    BY <1>2, <2>1, EndsSame DEF TypeOK, BackInv, Owes, PausedInv, ClaimInv,
       SwapEnds
  <2>5. QED
    BY <2>1, <2>2, <2>3, <2>4
<1>3. CASE Release(o)
  <2>1. TypeOK'
    BY <1>3 DEF TypeOK, Phases, Release
  <2>2. ClaimInv' /\ MetInv' /\ PausedInv'
    BY <1>3 DEF TypeOK, ClaimInv, MetInv, PausedInv, Release
  <2>3. QuietInv'
    BY <1>3, <2>1, EndsSame DEF TypeOK, QuietInv, PausedInv, Release
  <2>4. BackInv'
    BY <1>3, <2>1, EndsSame DEF TypeOK, BackInv, Owes, PausedInv, ClaimInv,
       Release
  <2>5. QED
    BY <2>1, <2>2, <2>3, <2>4
<1>4. QED
  BY <1>1, <1>2, <1>3

\* A step that sends a save command moves its copy alone, and the server not.
Sends(o) ==
  /\ o \in Copies
  /\ pc[o] \in {"saveoff", "flush", "undo", "saveon"}
  /\ \E next \in {"flush", "settle", "undo", "copy", "release"} :
       /\ pc' = [pc EXCEPT ![o] = next]
       /\ next # "release" => paused[o]
  /\ UNCHANGED <<busy, server, boot, paused, onBoot, met>>
  /\ autosave' \in BOOLEAN /\ console' \in Seq(Commands)
  /\ viaStdin' \in [Ops -> BOOLEAN]

LEMMA CommandSends ==
  ASSUME IInv, NEW o \in Ops, SaveOff(o) \/ Flush(o) \/ Undo(o) \/ SaveOn(o)
  PROVE  Sends(o)
<1>1. pc[o] \in {"saveoff", "flush", "undo", "saveon"}
  BY DEF SaveOff, Flush, Undo, SaveOn
<1>2. o \in Copies /\ paused[o]
  BY <1>1 DEF IInv, ClaimInv, PausedInv, Ops, Copies
<1>3. UNCHANGED <<busy, paused, onBoot, met>>
  BY DEF SaveOff, Flush, Undo, SaveOn
<1>4. \E cmd \in Commands : Deliver(o, cmd) \/ DeliverFails(cmd)
  BY DEF SaveOff, Flush, Undo, SaveOn, Commands
<1>5. /\ UNCHANGED <<server, boot>> /\ autosave' \in BOOLEAN
      /\ console' \in Seq(Commands) /\ viaStdin' \in [Ops -> BOOLEAN]
  BY <1>4, Delivered, NotDelivered DEF IInv, TypeOK
<1>6. \E next \in {"flush", "settle", "undo", "copy", "release"} :
        pc' = [pc EXCEPT ![o] = next]
  BY DEF SaveOff, Flush, Undo, SaveOn, Goto
<1>7. QED
  BY <1>1, <1>2, <1>3, <1>5, <1>6 DEF Sends

\* All but where the console ends follows from that.
LEMMA SendsKeeps ==
  ASSUME IInv, NEW o \in Ops, Sends(o)
  PROVE  TypeOK' /\ ClaimInv' /\ MetInv' /\ PausedInv'
<1>1. TypeOK'
  BY DEF Sends, IInv, TypeOK, Phases
<1>2. ClaimInv'
  BY BackupAssumption DEF Sends, IInv, TypeOK, ClaimInv, Ops, Copies
<1>3. MetInv'
  BY DEF Sends, IInv, TypeOK, MetInv, Ops, Copies
<1>4. PausedInv'
  BY DEF Sends, IInv, TypeOK, PausedInv, Ops, Copies
<1>5. QED
  BY <1>1, <1>2, <1>3, <1>4

\* Beside a copy that sends a command no other copy counts on the console, save
\* those that met a duplication.
LEMMA SendsKeepsQuiet ==
  ASSUME IInv, NEW o \in Ops, Sends(o),
         o \notin met /\ Running /\ boot = onBoot[o] =>
           /\ pc'[o] \in {"flush", "settle"} => EndsOff'
           /\ pc'[o] = "copy" => autosave' = FALSE /\ console' = <<>>
  PROVE  QuietInv'
<1>1. ASSUME NEW p \in Copies \ met, p # o, pc'[p] \in {"flush", "settle", "copy"}
      PROVE  FALSE
  <2>1. pc[p] # "idle" /\ pc[o] # "idle" /\ o \in Copies
    BY <1>1 DEF Sends, IInv, TypeOK, Ops, Copies
  <2>2. QED
    BY <1>1, <2>1, OnlyCopy
<1>2. UNCHANGED <<met, server, boot, onBoot>>
  BY DEF Sends
<1>3. QED
  BY <1>1, <1>2 DEF QuietInv, Running

\* The steps of a copy that send a save command.
LEMMA CommandKeeps ==
  ASSUME IInv, NEW o \in Ops, SaveOff(o) \/ Flush(o) \/ Undo(o) \/ SaveOn(o)
  PROVE  IInv'
<1>1. /\ Sends(o)
      /\ TypeOK /\ pc'[o] \in {"flush", "settle", "undo", "copy", "release"}
      /\ \A p \in Ops : p # o => pc'[p] = pc[p]
      /\ o \in Copies /\ UNCHANGED <<server, paused>>
  BY CommandSends DEF IInv, TypeOK, Sends
<1>2. TypeOK' /\ ClaimInv' /\ MetInv' /\ PausedInv'
  BY <1>1, SendsKeeps
<1>3. CASE SaveOff(o)
  <2>1. \/ Deliver(o, "save-off") /\ pc'[o] = "flush"
        \/ DeliverFails("save-off") /\ pc'[o] = "undo"
    BY <1>1, <1>3 DEF SaveOff, Goto, TypeOK
  <2>2. pc'[o] = "flush" => EndsOff'
    BY <1>1, <2>1, Delivered DEF Commands
  <2>3. QuietInv'
    BY <1>1, <2>1, <2>2, SendsKeepsQuiet
  <2>4. BackInv'
    BY <1>1, <2>1 DEF BackInv, Owes
  <2>5. QED
    BY <1>2, <2>3, <2>4 DEF IInv
<1>4. CASE Flush(o)
  <2>1. \/ /\ Deliver(o, "save-all flush")
           /\ pc'[o] = IF viaStdin'[o] THEN "settle" ELSE "copy"
        \/ DeliverFails("save-all flush") /\ pc'[o] = "undo"
    BY <1>1, <1>4 DEF Flush, Goto, TypeOK
  <2>2. ASSUME o \notin met, Running, boot = onBoot[o]
        PROVE  EndsOff
    BY <1>1, <1>4, <2>2 DEF IInv, QuietInv, Flush
  <2>3. ASSUME o \notin met, Running, boot = onBoot[o]
        PROVE  /\ pc'[o] \in {"flush", "settle"} => EndsOff'
               /\ pc'[o] = "copy" => autosave' = FALSE /\ console' = <<>>
    <3>1. ASSUME Deliver(o, "save-all flush")
          PROVE  EndsOff' /\ (~ viaStdin'[o] => console' = <<>>)
      BY <1>1, <2>2, <2>3, <3>1, Delivered DEF Commands
    <3>2. console' = <<>> /\ EndsOff' => autosave' = FALSE
      BY ReadEndsNext
    <3>3. QED
      BY <2>1, <3>1, <3>2
  <2>4. QuietInv'
    BY <1>1, <2>3, SendsKeepsQuiet
  <2>5. BackInv'
    <3>1. pc'[o] = "copy" => paused[o]
      BY <1>1, <1>4 DEF IInv, PausedInv, Flush
    <3>2. QED
      BY <1>1, <2>1, <3>1 DEF BackInv, Owes
  <2>6. QED
    BY <1>2, <2>4, <2>5 DEF IInv
<1>5. CASE Undo(o) \/ SaveOn(o)
  <2>1. /\ Deliver(o, "save-on") \/ DeliverFails("save-on")
        /\ pc'[o] = "release"
    BY <1>1, <1>5 DEF Undo, SaveOn, Goto, TypeOK
  <2>2. QuietInv'
    BY <1>1, <2>1, SendsKeepsQuiet
  <2>3. BackInv'
    BY <1>1, <2>1, Delivered, NotDelivered DEF BackInv, Commands
  <2>4. QED
    BY <1>2, <2>2, <2>3 DEF IInv
<1>6. QED
  BY <1>3, <1>4, <1>5

\* The server.
LEMMA ServerKeeps ==
  ASSUME IInv, Boots \/ IsStopped \/ Exits \/ ReadsConsole
  PROVE  IInv'
<1> USE BackupAssumption DEF IInv, Ops, Copies, Claimers, Goto, Running,
      vars, serverVars, opVars
<1>1. CASE Boots
  <2>1. TypeOK'
    BY <1>1 DEF TypeOK, Phases, Boots
  <2>2. ClaimInv' /\ MetInv' /\ PausedInv'
    BY <1>1 DEF TypeOK, ClaimInv, MetInv, PausedInv, Boots
  <2>3. QuietInv'
    BY <1>1, <2>1, EndsSame DEF TypeOK, QuietInv, PausedInv, Boots
  <2>4. BackInv'
    BY <1>1, ReadEndsNext DEF TypeOK, BackInv, Boots
  <2>5. QED
    BY <2>1, <2>2, <2>3, <2>4
<1>2. CASE IsStopped
  <2>1. TypeOK'
    BY <1>2 DEF TypeOK, Phases, IsStopped
  <2>2. ClaimInv' /\ MetInv' /\ PausedInv'
    BY <1>2 DEF TypeOK, ClaimInv, MetInv, PausedInv, IsStopped
  <2>3. QuietInv'
    BY <1>2, <2>1, EndsSame DEF TypeOK, QuietInv, PausedInv, IsStopped
  <2>4. BackInv'
    BY <1>2, <2>1, EndsSame DEF TypeOK, BackInv, Owes, PausedInv, ClaimInv,
       IsStopped
  <2>5. QED
    BY <2>1, <2>2, <2>3, <2>4
<1>3. CASE Exits
  <2>1. TypeOK'
    BY <1>3 DEF TypeOK, Phases, Exits
  <2>2. ClaimInv' /\ MetInv' /\ PausedInv'
    BY <1>3 DEF TypeOK, ClaimInv, MetInv, PausedInv, Exits
  <2>3. QuietInv'
    BY <1>3, <2>1, EndsSame DEF TypeOK, QuietInv, PausedInv, Exits
  <2>4. BackInv'
    BY <1>3, <2>1, EndsSame DEF TypeOK, BackInv, Owes, PausedInv, ClaimInv,
       Exits
  <2>5. QED
    BY <2>1, <2>2, <2>3, <2>4
<1>4. CASE ReadsConsole
  <2>1. TypeOK'
    <3>1. console' \in Seq(Commands) /\ autosave' \in BOOLEAN
      BY <1>4, HeadTailProperties DEF TypeOK, ReadsConsole, Switched
    <3>2. QED
      BY <1>4, <3>1 DEF TypeOK, ReadsConsole
  <2>2. ClaimInv' /\ MetInv' /\ PausedInv'
    BY <1>4 DEF TypeOK, ClaimInv, MetInv, PausedInv, ReadsConsole
  <2>3. QuietInv'
    BY <1>4, <2>1, ReadingKeepsEnds DEF TypeOK, QuietInv, PausedInv,
       ReadsConsole
  <2>4. BackInv'
    BY <1>4, <2>1, ReadingKeepsEnds DEF TypeOK, BackInv, Owes, ReadsConsole
  <2>5. QED
    BY <2>1, <2>2, <2>3, <2>4
<1>5. QED
  BY <1>1, <1>2, <1>3, <1>4

-----------------------------------------------------------------------------
LEMMA BackupStep == IInv /\ [Next]_vars => IInv'
<1> SUFFICES ASSUME IInv, [Next]_vars
             PROVE  IInv'
  OBVIOUS
<1>1. ASSUME NEW o \in Ops, Begins(o) \/ Progress(o)
      PROVE  IInv'
  BY <1>1, BeginsKeeps, CopyKeeps, CommandKeeps, RestoreKeeps DEF Progress
<1>2. CASE Boots \/ IsStopped \/ Exits \/ ReadsConsole
  BY <1>2, ServerKeeps
<1>3. CASE UNCHANGED vars
  <2>1. UNCHANGED <<EndsOff, EndsOn>>
    BY <1>3, EndsSame DEF vars, serverVars
  <2>2. QED
    BY <1>3, <2>1 DEF IInv, TypeOK, ClaimInv, MetInv, PausedInv, QuietInv, BackInv,
         Owes, Running, vars, serverVars, opVars
<1>4. QED
  BY <1>1, <1>2, <1>3 DEF Next

LEMMA BackupInv == Spec => []IInv
<1>1. QED
  BY BackupInit, BackupStep, PTL DEF Spec

\* The copies', the claim's and the server's variables keep their types.
THEOREM BackupTypeCorrect == Spec => []TypeOK
<1>1. IInv => TypeOK
  BY DEF IInv
<1>2. QED
  BY BackupInv, <1>1, PTL

\* A copy that no duplication overlaps is taken with the autosave off, whatever
\* the server, the console and the other operations do meanwhile
\* (PrepareForBackup and the per-server claim, #29).
THEOREM QuietTheorem == Spec => []QuiescedBootStaysQuiet
<1>1. IInv => QuiescedBootStaysQuiet
  <2>1. SUFFICES ASSUME IInv, NEW o \in Ops \ met, pc[o] = "copy", paused[o],
                        server = "up", boot = onBoot[o]
                 PROVE  ~ autosave
    BY DEF QuiescedBootStaysQuiet, QuietCopy
  <2>2. o \in Copies
    BY <2>1 DEF IInv, ClaimInv, Ops, Copies
  <2>3. QED
    BY <2>1, <2>2 DEF IInv, QuietInv, Running
<1>2. QED
  BY BackupInv, <1>1, PTL

\* Once every copy is over and the console read, a server that is up saves on
\* its own again (ResumeSaves, and the undo of PrepareForBackup).
THEOREM AutosaveTheorem == Spec => []AutosaveComesBack
<1>1. IInv => AutosaveComesBack
  BY ReadEnds DEF IInv, TypeOK, BackInv, Owes, AutosaveComesBack, Ops, Copies
<1>2. QED
  BY BackupInv, <1>1, PTL

-----------------------------------------------------------------------------
(***************************************************************************)
(* A restore's swap (swapWorldDirs): it shares no state with the above.    *)
(***************************************************************************)
\* The phases in which the old folders are the ones to keep.
OldRules == {"swap", "place", "unplace", "rollback", "putback", "failed"}

\* cur names a dimension exactly while one is between two renames.
CurInv ==
  /\ phase \in {"swap", "rollback", "cleanup"} => cur = NoDim
  /\ phase \in {"place", "unplace"} => cur \in Dims \ done
  /\ phase = "putback" => cur \in done

\* A completed swap shows the new folder until it is rolled back.
DoneInv ==
  phase \in OldRules => \A d \in done : d # cur => target[d] = "new"

\* The swap has done nothing to a dimension the loop has not come to.
UntouchedInv ==
  phase \in {"swap", "place"} =>
    \A d \in Dims \ done : d # cur => target[d] # "new" /\ aside[d] = "none"

AllNew == \A d \in Dims : target[d] = "new"

OldKept == \A d \in before : target[d] = "old" \/ aside[d] = "old"

\* The old folders go only after every new one is in place.
KeptInv ==
  /\ phase \in OldRules => OldKept
  /\ phase \in {"cleanup", "succeeded"} => AllNew
  /\ phase = "crashed" => OldKept \/ AllNew

SwapInv == RestoreTypeOK /\ CurInv /\ DoneInv /\ UntouchedInv /\ KeptInv

-----------------------------------------------------------------------------
LEMMA SwapInit == RestoreInit => SwapInv
BY SwapAssumption DEF RestoreInit, SwapInv, RestoreTypeOK, CurInv, DoneInv, UntouchedInv, KeptInv,
   RestorePhases, Before, OldRules, OldKept

\* A rollback's rename brings the old folder back or leaves it aside.
LEMMA BringBackKeeps ==
  ASSUME RestoreTypeOK, NEW d \in Dims, TryBringBack(d)
  PROVE  /\ mishap' \in BOOLEAN
         /\ target' \in [Dims -> {"old", "new", "fresh", "none"}]
         /\ aside' \in [Dims -> {"old", "fresh", "none"}]
         /\ \A e \in Dims : e # d => target'[e] = target[e] /\ aside'[e] = aside[e]
         /\ target[d] = "old" \/ aside[d] = "old"
              => target'[d] = "old" \/ aside'[d] = "old"
<1>1. mishap' \in BOOLEAN
  BY DEF RestoreTypeOK, TryBringBack, Dropped
<1>2. CASE UNCHANGED <<target, aside>>
  BY <1>1, <1>2 DEF RestoreTypeOK
<1>3. CASE Put(d, aside[d]) /\ aside' = [aside EXCEPT ![d] = "none"] /\ aside[d] # "none"
           /\ target[d] = "none"
  BY <1>1, <1>3 DEF RestoreTypeOK, Put
<1>4. QED
  BY <1>2, <1>3 DEF TryBringBack, BringBack, Dropped

LEMMA SwapStep == SwapInv /\ [RestoreNext]_restoreVars => SwapInv'
<1> SUFFICES ASSUME SwapInv, [RestoreNext]_restoreVars
             PROVE  SwapInv'
  OBVIOUS
<1> USE SwapAssumption DEF SwapInv, RestoreTypeOK, CurInv, DoneInv, UntouchedInv, KeptInv,
        OldRules, RestorePhases, OldKept, AllNew
<1>1. ASSUME NEW d \in Dims, MoveAside(d)
      PROVE  SwapInv'
  <2>1. target[d] \in {"old", "fresh", "none"} /\ aside[d] = "none"
    BY <1>1 DEF MoveAside
  <2>2. RestoreTypeOK'
    BY <1>1, <2>1 DEF MoveAside, Put
  <2>3. OldKept'
    BY <1>1, <2>1 DEF MoveAside, Put
  <2>4. CurInv' /\ DoneInv' /\ UntouchedInv' /\ KeptInv'
    BY <1>1, <2>3 DEF MoveAside, Put
  <2>5. QED
    BY <2>2, <2>4
<1>2. ASSUME NEW d \in Dims, RollbackRemoves(d)
      PROVE  SwapInv'
  <2>1. OldKept'
    BY <1>2 DEF RollbackRemoves, Put, Dropped
  <2>2. RestoreTypeOK'
    BY <1>2 DEF RollbackRemoves, Put, Dropped
  <2>3. QED
    BY <1>2, <2>1, <2>2 DEF RollbackRemoves, Put, Dropped
<1>3. ASSUME NEW d \in Dims, CleanUp(d)
      PROVE  SwapInv'
  BY <1>3 DEF CleanUp
<1>4. ASSUME NEW d \in Dims, ServerCreates(d)
      PROVE  SwapInv'
  BY <1>4 DEF ServerCreates, Put
<1>5. CASE MoveAsideFails
  BY <1>5 DEF MoveAsideFails
<1>6. CASE PutInPlace
  <2>1. OldKept'
    BY <1>6 DEF PutInPlace, Put
  <2>2. QED
    BY <1>6, <2>1 DEF PutInPlace, Put
<1>7. CASE PutInPlaceFails
  BY <1>7 DEF PutInPlaceFails
<1>8. CASE Unplace
  BY <1>8, BringBackKeeps DEF Unplace
<1>9. CASE RollbackPutsBack
  BY <1>9, BringBackKeeps DEF RollbackPutsBack
<1>10. CASE FailureReported
  BY <1>10 DEF FailureReported
<1>11. CASE AllInPlace
  BY <1>11 DEF AllInPlace
<1>12. CASE SuccessReported
  BY <1>12 DEF SuccessReported
<1>13. CASE Crash
  BY <1>13 DEF Crash, Over
<1>14. CASE UNCHANGED restoreVars
  BY <1>14 DEF restoreVars
<1>15. QED
  BY <1>1, <1>2, <1>3, <1>4, <1>5, <1>6, <1>7, <1>8, <1>9, <1>10, <1>11, <1>12,
     <1>13, <1>14 DEF RestoreNext

LEMMA SwapInductive == RestoreSpec => []SwapInv
BY SwapInit, SwapStep, PTL DEF RestoreSpec

\* The swap's variables keep their types.
THEOREM SwapTypeCorrect == RestoreSpec => []RestoreTypeOK
BY SwapInductive, PTL DEF SwapInv

\* No failure, crash or starting server makes a restore lose an old world
\* before all the new ones are in place.
THEOREM OldWorldTheorem == RestoreSpec => []OldWorldNeverLost
<1>1. SwapInv => OldWorldNeverLost
  BY DEF SwapInv, RestoreTypeOK, KeptInv, OldKept, AllNew, OldWorldNeverLost, RestorePhases,
     OldRules
<1>2. QED
  BY <1>1, SwapInductive, PTL

-----------------------------------------------------------------------------
(***************************************************************************)
(* The swap as long as no error is dropped and no server starts.           *)
(***************************************************************************)
Swapping == phase \in {"swap", "place", "unplace", "rollback", "putback"}

\* The dimension between two renames, if there is one.
MidSwap == IF phase \in {"place", "unplace", "putback"} THEN {cur} ELSE {}

\* While it runs, each dimension is as it was, moved aside, or swapped.
AtomInv ==
  ~ mishap =>
  /\ Swapping =>
       /\ \A d \in (Dims \ done) \ MidSwap : target[d] = Before(d) /\ aside[d] = "none"
       /\ \A d \in MidSwap : target[d] = "none" /\ aside[d] = Before(d)
       /\ \A d \in done \ MidSwap : target[d] = "new" /\ aside[d] = Before(d)
  /\ phase = "failed" => \A d \in Dims : target[d] = Before(d)

LEMMA AtomInit == RestoreInit => AtomInv
BY DEF RestoreInit, AtomInv, Swapping, MidSwap, Before

\* A rename back whose error is not dropped restores what was there.
LEMMA BringBackRestores ==
  ASSUME ~ mishap', RestoreTypeOK, NEW d \in Dims, TryBringBack(d),
         target[d] = "none", aside[d] = Before(d)
  PROVE  /\ target'[d] = Before(d) /\ aside'[d] = "none"
         /\ \A e \in Dims : e # d => target'[e] = target[e] /\ aside'[e] = aside[e]
BY DEF TryBringBack, BringBack, Dropped, Put, RestoreTypeOK, Before

LEMMA AtomStep == SwapInv /\ AtomInv /\ [RestoreNext]_restoreVars => AtomInv'
<1> SUFFICES ASSUME SwapInv, AtomInv, [RestoreNext]_restoreVars
             PROVE  AtomInv'
  OBVIOUS
<1> USE SwapAssumption DEF SwapInv, RestoreTypeOK, CurInv, AtomInv, Swapping, MidSwap,
        Before, RestorePhases
<1>1. ASSUME NEW d \in Dims, MoveAside(d)
      PROVE  AtomInv'
  BY <1>1 DEF MoveAside, Put
<1>2. ASSUME NEW d \in Dims, RollbackRemoves(d)
      PROVE  AtomInv'
  BY <1>2 DEF RollbackRemoves, Put, Dropped
<1>3. ASSUME NEW d \in Dims, CleanUp(d)
      PROVE  AtomInv'
  BY <1>3 DEF CleanUp
<1>4. ASSUME NEW d \in Dims, ServerCreates(d)
      PROVE  AtomInv'
  BY <1>4 DEF ServerCreates
<1>5. CASE MoveAsideFails
  BY <1>5 DEF MoveAsideFails
<1>6. CASE PutInPlace
  BY <1>6 DEF PutInPlace, Put
<1>7. CASE PutInPlaceFails
  BY <1>7 DEF PutInPlaceFails
<1>8. CASE Unplace
  <2> SUFFICES ASSUME ~ mishap' PROVE AtomInv'
    OBVIOUS
  <2>1. ~ mishap /\ cur \in Dims \ done
    BY <1>8 DEF Unplace, TryBringBack, Dropped
  <2>2. target[cur] = "none" /\ aside[cur] = Before(cur)
    BY <1>8, <2>1 DEF Unplace
  <2>3. QED
    BY <1>8, <2>1, <2>2, BringBackRestores DEF Unplace
<1>9. CASE RollbackPutsBack
  <2> SUFFICES ASSUME ~ mishap' PROVE AtomInv'
    OBVIOUS
  <2>1. ~ mishap /\ cur \in done
    BY <1>9 DEF RollbackPutsBack, TryBringBack, Dropped
  <2>2. target[cur] = "none" /\ aside[cur] = Before(cur)
    BY <1>9, <2>1 DEF RollbackPutsBack
  <2>3. QED
    BY <1>9, <2>1, <2>2, BringBackRestores DEF RollbackPutsBack
<1>10. CASE FailureReported
  BY <1>10 DEF FailureReported
<1>11. CASE AllInPlace \/ SuccessReported \/ Crash
  BY <1>11 DEF AllInPlace, SuccessReported, Crash
<1>12. CASE UNCHANGED restoreVars
  BY <1>12 DEF restoreVars
<1>13. QED
  BY <1>1, <1>2, <1>3, <1>4, <1>5, <1>6, <1>7, <1>8, <1>9, <1>10, <1>11, <1>12
     DEF RestoreNext

\* As long as no error is dropped and no server starts, a restore that ends has
\* replaced every dimension or none, for any number of dimensions.
THEOREM AllOrNothingTheorem == RestoreSpec => []AllOrNothing
<1>1. SwapInv /\ AtomInv => AllOrNothing
  BY DEF SwapInv, RestoreTypeOK, KeptInv, AllNew, AtomInv, AllOrNothing
<1>2. QED
  BY <1>1, AtomInit, AtomStep, SwapInit, SwapStep, PTL DEF RestoreSpec
=============================================================================
