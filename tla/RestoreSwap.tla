----------------------------- MODULE RestoreSwap -----------------------------
(***************************************************************************)
(* swapWorldDirs (backend/services/backup.go): a restore puts the folders  *)
(* it extracted in place, one dimension at a time, moving what is there    *)
(* aside first and back again when a rename fails.  A full-server restore  *)
(* is the same with one folder.  Renames and removals may fail, the        *)
(* program may end between any two of them, and, no power gate being held, *)
(* the server may start and create a world folder it does not find.  The   *)
(* order of the dimensions is left open: each has a folder of its own.     *)
(***************************************************************************)
CONSTANTS
  Dims,             \* the dimension folders of the archive
  BestEffortFails,  \* may a step whose error the code drops fail?
  ServerStarts,     \* may the server start during the swap?
  NoDim             \* no dimension

ASSUME SwapAssumption ==
  /\ Dims # {} /\ NoDim \notin Dims
  /\ BestEffortFails \in BOOLEAN /\ ServerStarts \in BOOLEAN

VARIABLES
  before,   \* the dimensions that had a folder when the swap began
  target,   \* target[d]: what is in the world folder
  aside,    \* aside[d]: what is in its .bak folder
  done,     \* the swaps completed and not rolled back
  cur,      \* the dimension being swapped or rolled back, or NoDim
  phase,
  mishap    \* observer: has an error been dropped, or a folder been created?

restoreVars == <<before, target, aside, done, cur, phase, mishap>>

RestorePhases ==
  {"swap", "place", "unplace", "rollback", "putback", "cleanup",
   "succeeded", "failed", "crashed"}

RestoreTypeOK ==
  /\ before \subseteq Dims
  /\ target \in [Dims -> {"old", "new", "fresh", "none"}]
  /\ aside \in [Dims -> {"old", "fresh", "none"}]
  /\ done \subseteq Dims
  /\ cur \in Dims \cup {NoDim}
  /\ phase \in RestorePhases
  /\ mishap \in BOOLEAN

Before(d) == IF d \in before THEN "old" ELSE "none"

RestoreInit ==
  /\ before \in SUBSET Dims
  /\ target = [d \in Dims |-> Before(d)]
  /\ aside = [d \in Dims |-> "none"]
  /\ done = {}
  /\ cur = NoDim
  /\ phase = "swap"
  /\ mishap = FALSE

Put(d, what) == target' = [target EXCEPT ![d] = what]

-----------------------------------------------------------------------------
(***************************************************************************)
(* The loop: move the target aside, rename the staged folder into place.   *)
(***************************************************************************)
\* Mutant: the same dimension twice in the list of swaps.
MoveAsideAgain(d) ==
  /\ phase = "swap"
  /\ aside' = [aside EXCEPT ![d] = target[d]]
  /\ Put(d, "none")
  /\ cur' = d
  /\ phase' = "place"
  /\ UNCHANGED <<before, done, mishap>>

\* A folder that is not there is nothing to preserve.
MoveAside(d) ==
  /\ phase = "swap"
  /\ d \notin done
  /\ aside' = [aside EXCEPT ![d] = target[d]]
  /\ Put(d, "none")
  /\ cur' = d
  /\ phase' = "place"
  /\ UNCHANGED <<before, done, mishap>>

MoveAsideFails ==
  /\ phase = "swap"
  /\ done # Dims
  /\ phase' = "rollback"
  /\ UNCHANGED <<before, target, aside, done, cur, mishap>>

\* A rename onto a folder with files in it fails.
PutInPlace ==
  /\ phase = "place"
  /\ target[cur] = "none"
  /\ Put(cur, "new")
  /\ done' = done \cup {cur}
  /\ cur' = NoDim
  /\ phase' = "swap"
  /\ UNCHANGED <<before, aside, mishap>>

PutInPlaceFails ==
  /\ phase = "place"
  /\ phase' = "unplace"
  /\ UNCHANGED <<before, target, aside, done, cur, mishap>>

\* Mutant: what was moved aside stays there.
LeaveAside(d) == UNCHANGED <<target, aside>>

\* The rename of what was moved aside, if anything was, back to its place.
BringBack(d) ==
  IF aside[d] # "none" /\ target[d] = "none"
    THEN Put(d, aside[d]) /\ aside' = [aside EXCEPT ![d] = "none"]
    ELSE UNCHANGED <<target, aside>>

\* A step whose error the code drops may leave what it was to change.
Dropped(files) == BestEffortFails /\ UNCHANGED files /\ mishap' = TRUE

TryBringBack(d) ==
  \/ BringBack(d) /\ UNCHANGED mishap
  \/ Dropped(<<target, aside>>)

Unplace ==
  /\ phase = "unplace"
  /\ TryBringBack(cur)
  /\ cur' = NoDim
  /\ phase' = "rollback"
  /\ UNCHANGED <<before, done>>

-----------------------------------------------------------------------------
\* rollback: remove each folder put in place, then bring the old one back.
RollbackRemoves(d) ==
  /\ phase = "rollback"
  /\ d \in done
  /\ (Put(d, "none") /\ UNCHANGED mishap) \/ Dropped(target)
  /\ cur' = d
  /\ phase' = "putback"
  /\ UNCHANGED <<before, aside, done>>

RollbackPutsBack ==
  /\ phase = "putback"
  /\ TryBringBack(cur)
  /\ done' = done \ {cur}
  /\ cur' = NoDim
  /\ phase' = "rollback"
  /\ UNCHANGED before

\* failRestore: "swapping files, previous state kept".
FailureReported ==
  /\ phase = "rollback"
  /\ done = {}
  /\ phase' = "failed"
  /\ UNCHANGED <<before, target, aside, done, cur, mishap>>

\* Mutant: each dimension's old folder goes as soon as it was swapped.
CleanUpEarly ==
  /\ phase = "swap"
  /\ phase' = "cleanup"
  /\ UNCHANGED <<before, target, aside, done, cur, mishap>>

\* Only with every folder in place do the old ones go.
AllInPlace ==
  /\ phase = "swap"
  /\ done = Dims
  /\ phase' = "cleanup"
  /\ UNCHANGED <<before, target, aside, done, cur, mishap>>

CleanUp(d) ==
  /\ phase = "cleanup"
  /\ aside[d] # "none"
  /\ aside' = [aside EXCEPT ![d] = "none"]
  /\ UNCHANGED <<before, target, done, cur, phase, mishap>>

\* A folder RemoveAll could not remove stays; the restore succeeded.
SuccessReported ==
  /\ phase = "cleanup"
  /\ BestEffortFails \/ \A d \in Dims : aside[d] = "none"
  /\ phase' = "succeeded"
  /\ UNCHANGED <<before, target, aside, done, cur, mishap>>

-----------------------------------------------------------------------------
Over == phase \in {"succeeded", "failed", "crashed"}

\* The program ends; nothing picks the swap up afterwards.
Crash ==
  /\ ~ Over
  /\ phase' = "crashed"
  /\ UNCHANGED <<before, target, aside, done, cur, mishap>>

\* A starting server makes a new world where it finds none.
ServerCreates(d) ==
  /\ ServerStarts
  /\ target[d] = "none"
  /\ Put(d, "fresh")
  /\ mishap' = TRUE
  /\ UNCHANGED <<before, aside, done, cur, phase>>

RestoreNext ==
  \/ \E d \in Dims : \/ MoveAside(d) \/ RollbackRemoves(d) \/ CleanUp(d)
                     \/ ServerCreates(d)
  \/ MoveAsideFails \/ PutInPlace \/ PutInPlaceFails \/ Unplace
  \/ RollbackPutsBack \/ FailureReported \/ AllInPlace \/ SuccessReported
  \/ Crash

RestoreSpec == RestoreInit /\ [][RestoreNext]_restoreVars

-----------------------------------------------------------------------------
\* Whatever fails, wherever the program ends and whatever a starting server
\* creates, a dimension's old folder is on disk until every new one is in place.
OldWorldNeverLost ==
  \A d \in before : \/ target[d] = "old"
                    \/ aside[d] = "old"
                    \/ \A e \in Dims : target[e] = "new"

\* Known not to hold.  What failRestore reports, "previous state kept": every folder that was there
\* is back in its place.
KeptMeansKept == phase = "failed" => \A d \in before : target[d] = "old"

\* swapWorldDirs' guarantee, as long as no error was dropped and no server
\* started: either every dimension is the restored one, or every dimension is
\* the one that was there before.
AllOrNothing ==
  ~ mishap =>
    /\ phase = "succeeded" => \A d \in Dims : target[d] = "new"
    /\ phase = "failed" => \A d \in Dims : target[d] = Before(d)

=============================================================================
