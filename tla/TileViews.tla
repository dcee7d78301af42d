----------------------------- MODULE TileViews ------------------------------
(* The dashboard's fullscreen tile and a remote tab's own view of the        *)
(* servers.  Neither reads the other's state; each has its Init and Next.    *)
EXTENDS Naturals, Sequences, FiniteSets

CONSTANTS
  Tiles, Nil,
  Servers, Methods,
  MaxLookups,                          \* bound on the reads of the active server in flight
  MaxInFlight                          \* bound on the admin calls in flight

VARIABLES
  open,                                \* maximizedId
  closing,                             \* the close animation and its timer run
  queued,                              \* pendingOpenRef
  dirty,                               \* the open tile's guard would veto
  dialog,                              \* the guard's dialog is up
  late,                                \* the open tile was edited while it closed
  desktop,                             \* the desktop's active server
  watched,                             \* state.activeServer; "unset" before the first read
  chosen,                              \* what the tab chose; Nil if it never did
  lookups,                             \* how many GetActiveServerID the desktop has to read
  found,                               \* what the desktop read and the tab has not got
  inFlight,                            \* the admin calls not answered, by number
  shown                                \* client.waiting

(* The dashboard's fullscreen tile (Dashboard.tsx, useUiStore's closeGuard):*)
(* one tile is open at a time, closing takes an animation, a tile asked for *)
(* meanwhile is queued, and a tile with unsaved work may veto a close.      *)
OverlayTypeOK ==
  /\ open \in Tiles \cup {Nil} /\ queued \in Tiles \cup {Nil}
  /\ {closing, dirty, dialog, late} \subseteq BOOLEAN

OverlayInit ==
  /\ open = Nil /\ queued = Nil
  /\ closing = FALSE /\ dirty = FALSE /\ dialog = FALSE /\ late = FALSE

\* closeMaximize, with `next` queued: the guard answers for it, or it begins.
Close(next) ==
  /\ IF dirty THEN dialog' = TRUE /\ queued' = Nil /\ UNCHANGED closing
              ELSE closing' = TRUE /\ queued' = next /\ UNCHANGED dialog
  /\ UNCHANGED <<open, dirty, late>>

\* openMaximize, on an empty dashboard.
Open(t) ==
  /\ open = Nil
  /\ open' = t /\ closing' = FALSE
  /\ UNCHANGED <<queued, dirty, dialog, late>>

\* A tile's icon in the navbar: opens it, closes it, or closes the open one
\* first.
Request(t) ==
  \/ Open(t)
  \/ open = t /\ Close(Nil)
  \/ open \notin {t, Nil} /\ ~closing /\ Close(t)
  \/ /\ open \notin {t, Nil} /\ closing
     /\ queued' = t
     /\ UNCHANGED <<open, closing, dirty, dialog, late>>

\* Escape, the backdrop, the tile's own button, and a utility tile's icon, which
\* asks whatever is open.
AskToClose == Close(queued)

\* The animation's timer: the tile goes, and the queued one takes its place.
Unmount ==
  /\ closing
  /\ open' = queued /\ queued' = Nil /\ closing' = FALSE
  /\ dirty' = FALSE /\ dialog' = FALSE /\ late' = FALSE

Edit ==
  /\ open # Nil /\ ~dialog
  /\ dirty' = TRUE /\ late' = (late \/ closing)
  /\ UNCHANGED <<open, closing, queued, dialog>>

Save ==
  /\ dirty /\ ~dialog
  /\ dirty' = FALSE
  /\ UNCHANGED <<open, closing, queued, dialog, late>>

\* The dialog's answers: going ahead cleans the tile and asks once more.
Discard ==
  /\ dialog
  /\ dialog' = FALSE /\ dirty' = FALSE /\ closing' = TRUE
  /\ UNCHANGED <<open, queued, late>>

Cancel == dialog /\ dialog' = FALSE /\ UNCHANGED <<open, closing, queued, dirty, late>>

OverlayNext ==
  \/ \E t \in Tiles : Request(t)
  \/ AskToClose \/ Unmount \/ Edit \/ Save \/ Discard \/ Cancel

\* A queued tile waits for a close under way and for no later one, so that a
\* cancelled close never jumps to it; and no tile closes over unsaved work but
\* work done while it was closing.
OverlayObeys ==
  /\ queued # Nil => closing /\ open \notin {Nil, queued}
  /\ closing /\ dirty => late
  /\ dialog => dirty

-----------------------------------------------------------------------------
(* What a remote browser's tab keeps for itself (remoteRuntime.ts): the     *)
(* server it watches, which starts as the desktop's and then is its own,    *)
(* and the admin-tier calls it shows as waiting.                            *)
TabTypeOK ==
  /\ desktop \in Servers /\ chosen \in Servers \cup {Nil}
  /\ watched \in Servers \cup {"unset"}
  /\ lookups \in 0 .. MaxLookups /\ found \subseteq Servers
  /\ inFlight \in [Methods -> 0 .. MaxInFlight]
  /\ shown \in Seq(Methods)

TabInit ==
  /\ desktop = (CHOOSE s \in Servers : TRUE) /\ watched = "unset" /\ chosen = Nil
  /\ lookups = 0 /\ found = {}
  /\ inFlight = [m \in Methods |-> 0] /\ shown = <<>>

view == <<desktop, watched, chosen, lookups, found>>
calls == <<inFlight, shown>>

DesktopSwitches(s) ==
  desktop' = s /\ UNCHANGED <<watched, chosen, lookups, found, calls>>

\* GetActiveServerID asks the desktop until one answer is in.
Lookup ==
  /\ watched = "unset" /\ lookups + Cardinality(found) < MaxLookups
  /\ lookups' = lookups + 1
  /\ UNCHANGED <<desktop, watched, chosen, found, calls>>

\* The desktop reads, or the call fails.
Looked ==
  /\ lookups > 0
  /\ lookups' = lookups - 1
  /\ found' \in {found, found \cup {desktop}}
  /\ UNCHANGED <<desktop, watched, chosen, calls>>

\* A choice made while that was in flight wins.
Found(s) ==
  /\ found' = found \ {s}
  /\ watched' = IF watched = "unset" THEN s ELSE watched
  /\ UNCHANGED <<desktop, chosen, lookups, calls>>

\* SetActiveServerID, answered by the tab.
Choose(s) ==
  /\ watched' = s /\ chosen' = s
  /\ UNCHANGED <<desktop, lookups, found, calls>>

AdminCall(m) ==
  /\ Len(shown) < MaxInFlight
  /\ inFlight' = [inFlight EXCEPT ![m] = @ + 1]
  /\ shown' = Append(shown, m)
  /\ UNCHANGED view

\* A call settles, however it did, and takes the first of its name off the list.
Settles(m) ==
  /\ inFlight[m] > 0
  /\ inFlight' = [inFlight EXCEPT ![m] = @ - 1]
  /\ LET at == CHOOSE i \in DOMAIN shown :
                 shown[i] = m /\ \A j \in 1 .. i - 1 : shown[j] # m
     IN shown' = [j \in 1 .. Len(shown) - 1 |->
                    IF j < at THEN shown[j] ELSE shown[j + 1]]
  /\ UNCHANGED view

TabNext ==
  \/ \E s \in Servers : DesktopSwitches(s) \/ Choose(s)
  \/ \E s \in found : Found(s)
  \/ Lookup \/ Looked
  \/ \E m \in Methods : AdminCall(m) \/ Settles(m)

\* The tab watches what it chose, whatever the desktop's late answers say; and
\* it shows as waiting each admin call once for each time it is in flight.
TabIsItsOwn ==
  /\ chosen # Nil => watched = chosen
  /\ \A m \in Methods :
       Cardinality({i \in DOMAIN shown : shown[i] = m}) = inFlight[m]
=============================================================================
