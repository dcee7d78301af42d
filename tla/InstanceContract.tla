--------------------------- MODULE InstanceContract ---------------------------
(***************************************************************************)
(* What one server instance promises its manager, and all the manager      *)
(* relies on: a running flag, one process, and one exited channel per      *)
(* boot, closed only after that boot is torn down.  ServerManager assumes  *)
(* it of each of its servers; ServerInstance, with every goroutine an      *)
(* instance really has, implements it.                                     *)
(***************************************************************************)
EXTENDS Naturals

VARIABLES running, boot, proc, unclosed

contractVars == <<running, boot, proc, unclosed>>

Init ==
  /\ running = FALSE
  /\ boot = 0
  /\ proc = "none"
  /\ unclosed = {}

Spawn ==
  /\ ~ running
  /\ running' = TRUE
  /\ boot' = boot + 1
  /\ proc' = "alive"
  /\ unclosed' = unclosed \cup {boot + 1}

Kill ==
  /\ proc = "alive"
  /\ proc' = "killed"
  /\ UNCHANGED <<running, boot, unclosed>>

Exit ==
  /\ proc \in {"alive", "killed"}
  /\ proc' = "dead"
  /\ UNCHANGED <<running, boot, unclosed>>

TearDown ==
  /\ proc = "dead"
  /\ running' = FALSE
  /\ proc' = "none"
  /\ UNCHANGED <<boot, unclosed>>

Close(b) ==
  /\ b \in unclosed
  /\ ~ (running /\ boot = b)
  /\ unclosed' = unclosed \ {b}
  /\ UNCHANGED <<running, boot, proc>>

CloseSome == \E b \in unclosed : Close(b)

Next == Spawn \/ Kill \/ Exit \/ TearDown \/ CloseSome

Spec == Init /\ [][Next]_contractVars

\* A killed process dies, and every death is torn down and closed.
FairSpec ==
  /\ Spec
  /\ WF_contractVars(proc = "killed" /\ Exit)
  /\ WF_contractVars(TearDown)
  /\ WF_contractVars(CloseSome)

=============================================================================
