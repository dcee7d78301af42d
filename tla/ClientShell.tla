---------------------------- MODULE ClientShell ----------------------------
(* The parts of the program around its stores: the remote prompts, the      *)
(* sign-in and the tunnel it comes through, the rows of running work, the   *)
(* installer's logs, the fullscreen tile, the config editor, a remote tab's *)
(* own view and the bubbles.  None reads another's state, so a behaviour is *)
(* a behaviour of the one that `part` names.                                *)
EXTENDS Naturals

CONSTANTS Nil, Servers,
          Devices, MaxApprovals, MaxAsks, MaxRefreshes,
          Announced, Unannounced, MaxEvents, MaxTimers,
          Standing, News, Texts, MAX_TOASTS, MaxCount,
          Tiles, Methods, MaxLookups, MaxInFlight,
          TunnelCalls, DesktopCalls, ListenerCalls, Hostnames,
          EditorFiles, MaxEdits, MaxReads,
          Browsers, MaxRequests, MaxPasswords, MAX_PENDING

VARIABLES part,
          asks, waiting, prompts, refreshes, reads, clicks, busy, stale,
          running, events, rows, timers,
          holder, update, ended, output, asking,
          installPhase, installLog, updatePhase, updateLog, overlapped,
          open, closing, queued, dirty, dialog, late,
          desktop, watched, chosen, lookups, found, inFlight, shown,
          toasts, dismissed, unwanted,
          tunnel, attempts, alive, cancelled, callers, named, listening, allowed, happened,
          mounted, pane, held, readings, write, files, upset, spilt,
          page, token, verifying, buckets, password, awaiting, devices, sessions,
          minted, refused, overtaken

Approvals == INSTANCE RemoteApprovals
Work == INSTANCE RunningWork
Views == INSTANCE TileViews
Reach == INSTANCE Tunnel
           WITH Calls <- TunnelCalls, Desktop <- DesktopCalls, Changes <- ListenerCalls,
                Names <- Hostnames
Editor == INSTANCE ConfigEditor WITH Files <- EditorFiles
Auth == INSTANCE RemoteAuth WITH pending <- awaiting

approvalVars == <<asks, waiting, prompts, refreshes, reads, clicks, busy, stale>>
workVars == <<running, events, rows, timers>>
logVars == <<holder, update, ended, output, asking,
             installPhase, installLog, updatePhase, updateLog, overlapped>>
overlayVars == <<open, closing, queued, dirty, dialog, late>>
tabVars == <<desktop, watched, chosen, lookups, found, inFlight, shown>>
bubbleVars == <<toasts, dismissed, unwanted>>
reachVars == <<tunnel, attempts, alive, cancelled, callers, named, listening, allowed,
               happened>>
editorVars == <<mounted, pane, held, readings, write, files, upset, spilt>>
authVars == <<page, token, verifying, buckets, password, awaiting, devices, sessions,
              minted, refused, overtaken>>

ShellInit ==
  /\ part \in {"approvals", "work", "logs", "overlay", "tab", "bubbles",
              "reach", "editor", "auth"}
  /\ Approvals!ApprovalsInit /\ Work!RowsInit /\ Work!LogsInit
  /\ Views!OverlayInit /\ Views!TabInit /\ Work!ToastsInit
  /\ Reach!TunnelInit /\ Editor!EditorInit /\ Auth!AuthInit
  /\ named = Nil \/ part = "reach"

ApprovalsStep ==
  /\ part = "approvals" /\ Approvals!ApprovalsNext
  /\ UNCHANGED <<part, workVars, logVars, overlayVars, tabVars, bubbleVars,
                 reachVars, editorVars, authVars>>

WorkStep ==
  /\ part = "work" /\ Work!RowsNext
  /\ UNCHANGED <<part, approvalVars, logVars, overlayVars, tabVars, bubbleVars,
                 reachVars, editorVars, authVars>>

LogsStep ==
  /\ part = "logs" /\ Work!LogsNext
  /\ UNCHANGED <<part, approvalVars, workVars, overlayVars, tabVars, bubbleVars,
                 reachVars, editorVars, authVars>>

OverlayStep ==
  /\ part = "overlay" /\ Views!OverlayNext
  /\ UNCHANGED <<part, approvalVars, workVars, logVars, tabVars, bubbleVars,
                 reachVars, editorVars, authVars>>

TabStep ==
  /\ part = "tab" /\ Views!TabNext
  /\ UNCHANGED <<part, approvalVars, workVars, logVars, overlayVars, bubbleVars,
                 reachVars, editorVars, authVars>>

BubblesStep ==
  /\ part = "bubbles" /\ Work!ToastsNext
  /\ UNCHANGED <<part, approvalVars, workVars, logVars, overlayVars, tabVars,
                 reachVars, editorVars, authVars>>

ReachStep ==
  /\ part = "reach" /\ Reach!TunnelNext
  /\ UNCHANGED <<part, approvalVars, workVars, logVars, overlayVars, tabVars,
                 bubbleVars, editorVars, authVars>>

EditorStep ==
  /\ part = "editor" /\ Editor!EditorNext
  /\ UNCHANGED <<part, approvalVars, workVars, logVars, overlayVars, tabVars,
                 bubbleVars, reachVars, authVars>>

AuthStep ==
  /\ part = "auth" /\ Auth!AuthNext
  /\ UNCHANGED <<part, approvalVars, workVars, logVars, overlayVars, tabVars,
                 bubbleVars, reachVars, editorVars>>

ShellNext ==
  \/ ApprovalsStep \/ WorkStep \/ LogsStep \/ OverlayStep \/ TabStep \/ BubblesStep
  \/ ReachStep \/ EditorStep \/ AuthStep

ShellTypeOK ==
  /\ part = "approvals" => Approvals!ApprovalsTypeOK
  /\ part = "work" => Work!RowsTypeOK
  /\ part = "logs" => Work!LogsTypeOK
  /\ part = "overlay" => Views!OverlayTypeOK
  /\ part = "tab" => Views!TabTypeOK
  /\ part = "bubbles" => Work!ToastsTypeOK
  /\ part = "reach" => Reach!TunnelTypeOK
  /\ part = "editor" => Editor!EditorTypeOK
  /\ part = "auth" => Auth!AuthTypeOK

\* The promise of the part at work: the others are as they began.
ShellIsSound ==
  /\ part = "approvals" => Approvals!ApprovalsAreSafe
  /\ part = "work" => Work!RowsFollowJobs
  /\ part = "logs" => Work!LogsFollowJobs
  /\ part = "overlay" => Views!OverlayObeys
  /\ part = "tab" => Views!TabIsItsOwn
  /\ part = "bubbles" => Work!StackIsTame
  /\ part = "reach" => Reach!TunnelIsBounded
  /\ part = "editor" => Editor!EditorKeepsText
  /\ part = "auth" => Auth!SignInIsSound
=============================================================================
