---------------------------- MODULE GraphEditor ----------------------------
(***************************************************************************)
(* The scheduler's graph editor on one server: GraphEditor.tsx with its    *)
(* unsaved-changes guard (useDirtyGuard.ts), the store it writes through   *)
(* (useSchedulerStore.ts) and the backend's graphs                         *)
(* (backend/services/scheduler.go).  Calls go out at once and come back    *)
(* later, in any order, while the keyboard and the pointer go on.  A       *)
(* graph's nodes, edges and name are one revision, its enabled switch is   *)
(* kept apart.  The canvas and its undo steps are GraphHistory; here they  *)
(* are the revisions an undo or a redo may bring back.  Runs and previews  *)
(* change no graph.                                                        *)
(***************************************************************************)
EXTENDS Integers, FiniteSets

CONSTANTS
  MaxIds,      \* bound: graph ids, those the backend may mint included
  SavedIds,    \* the graphs 1..SavedIds are there at first
  MaxEdits,    \* bound: new revisions drawn on the canvas
  MaxCalls,    \* bound: calls in flight
  MaxUpset,    \* bound: kinds of trouble in one run, see upset
  Nil          \* graphId null; no graph; no call

ASSUME EditorAssumption ==
  /\ MaxIds \in Nat /\ SavedIds \in 0..MaxIds
  /\ MaxEdits \in Nat /\ MaxCalls \in Nat /\ MaxUpset \in Nat
  /\ Nil \notin Int

VARIABLES
  backend, store,   \* SchedulerService.graphs, useSchedulerStore.graphs
  mounted,          \* is the tile maximized?
  editor,           \* graphId, nodes and edges, graphEnabled, savedSig
  steps,            \* the revisions in its steps, past and future
  held, runAsk,     \* the action behind the unsaved-changes dialog; the run dialog
  saving,
  calls,            \* the calls in flight
  edits,
  lost, upset   \* observers, see Perform and the properties

graphs == <<backend, store>>
dialogs == <<held, runAsk>>
watch == <<lost, upset>>
vars == <<graphs, mounted, editor, steps, dialogs, saving, calls, edits, watch>>

Ids == 1..MaxIds
Blank == 0                       \* graphId '': a new graph
Revs == 0..(MaxIds + MaxEdits)   \* 0 is an empty canvas, g what graph g held at first
Graphs == [rev : Revs, on : BOOLEAN]

Nothing == [do |-> "nothing", id |-> Blank, rev |-> 0, on |-> FALSE]
Load(id, g) == [do |-> "load", id |-> id, rev |-> g.rev, on |-> g.on]
New == [Nothing EXCEPT !.do = "new"]
Close == [Nothing EXCEPT !.do = "close"]
Actions == [do : {"nothing", "load", "new", "close"}, id : Ids \cup {Blank},
            rev : Revs, on : BOOLEAN]

Calls == [op : {"save", "copy", "delete", "enable"}, id : Ids \cup {Blank},
          rev : Revs, on : BOOLEAN,
          proceed : BOOLEAN,               \* Save & continue asked for it
          here : BOOLEAN,                  \* the editor that asked is still mounted
          reply : {"none", "ok", "failed"}]

\* null is no graph and no call.
ASSUME NilAssumption == Nil \notin Graphs /\ Nil \notin Calls

InFlight(cs) == {c \in 1..MaxCalls : cs[c] # Nil}

TypeOK ==
  /\ backend \in [Ids -> Graphs \cup {Nil}] /\ store \in [Ids -> Graphs \cup {Nil}]
  /\ mounted \in BOOLEAN
  /\ editor \in [id : Ids \cup {Blank, Nil}, rev : Revs, on : BOOLEAN, sig : Graphs]
  /\ steps \subseteq Revs
  /\ held \in Actions /\ runAsk \in BOOLEAN
  /\ calls \in [1..MaxCalls -> Calls \cup {Nil}]
  /\ saving \in BOOLEAN
  /\ saving => \E c \in InFlight(calls) : calls[c].here /\ calls[c].op \in {"save", "copy"}
  /\ edits \in 0..MaxEdits
  /\ lost \in BOOLEAN
  /\ upset \subseteq {"crossed", "edited", "failed", "reloaded"}

\* What an editor that was just mounted holds: no graph, an empty canvas.
Mounted == [id |-> Nil, rev |-> 0, on |-> FALSE, sig |-> [rev |-> 0, on |-> FALSE]]

Init ==
  /\ backend = [g \in Ids |-> IF g <= SavedIds THEN [rev |-> g, on |-> FALSE] ELSE Nil]
  /\ store = backend
  /\ mounted = TRUE /\ editor = Mounted
  /\ steps = {}
  /\ held = Nothing /\ runAsk = FALSE /\ saving = FALSE
  /\ calls = [c \in 1..MaxCalls |-> Nil]
  /\ edits = 0
  /\ lost = FALSE /\ upset = {}

-----------------------------------------------------------------------------
(***************************************************************************)
(* What the editor holds, and what replaces it.                            *)
(***************************************************************************)
Signature(ed) == [rev |-> ed.rev, on |-> ed.on]
Dirty(ed) == Signature(ed) # ed.sig
\* Work that reads as unsaved and is in no graph of the backend.
Unsaved(ed) ==
  /\ ed.rev # ed.sig.rev
  /\ \A g \in Ids : backend[g] = Nil \/ backend[g].rev # ed.rev

LoadGraph(a) == [id |-> a.id, rev |-> a.rev, on |-> a.on, sig |-> [rev |-> a.rev, on |-> a.on]]
HandleNew == [Mounted EXCEPT !.id = Blank]

After(a, ed) == CASE a.do = "load" -> LoadGraph(a)
                  [] a.do = "new" -> HandleNew
                  [] a.do = "close" -> Mounted
                  [] a.do = "nothing" -> ed

\* An observer: what happened that a property excuses.
Upset(kinds) == upset' = upset \cup kinds /\ Cardinality(upset') <= MaxUpset

\* Replacing the editor by a crosses a call that will change it when it returns,
\* or what it shows: any but the switch of another graph.
Crosses(a, cs) ==
  a.do # "nothing" /\ \E c \in InFlight(cs) : cs[c].op # "enable" \/ cs[c].id = a.id

\* The action a on the editor ed, with the calls cs in flight and the Save button
\* busy or not; asked tells whether the user agreed to lose the unsaved work it
\* replaces.  A close unmounts the editor: its calls come back to nobody.
Perform(a, ed, cs, busy, asked) ==
  LET closes == a.do = "close" IN
    /\ editor' = After(a, ed)
    /\ steps' = IF a.do = "nothing" THEN steps ELSE {}
    /\ mounted' = (mounted /\ ~ closes)
    /\ saving' = (busy /\ ~ closes)
    /\ runAsk' = (runAsk /\ ~ closes)
    /\ calls' = [c \in 1..MaxCalls |->
         IF closes /\ cs[c] # Nil THEN [cs[c] EXCEPT !.here = FALSE] ELSE cs[c]]
    /\ lost' = (lost \/ (~ asked /\ a.do # "nothing" /\ Unsaved(ed)))
    /\ Upset({t \in {"crossed", "reloaded"} :
               IF t = "crossed" THEN Crosses(a, cs)
               ELSE a.do = "load" /\ store'[a.id] # [rev |-> a.rev, on |-> a.on]})

Modal == held # Nothing \/ runAsk

\* The auto-load effect runs before the next key or click.
Ready == mounted /\ (editor.id # Nil \/ \A g \in Ids : store[g] = Nil)

\* Mutant: a request that only asks when a graph is already named.
GuardNamed(a) ==
  IF Dirty(editor) /\ editor.id \in Ids
    THEN held' = a /\ UNCHANGED <<mounted, editor, steps, saving, runAsk, calls, watch>>
    ELSE Perform(a, editor, calls, saving, FALSE) /\ UNCHANGED held

\* confirm.guard, and the close guard's veto: run it, or hold it if dirty.
Guard(a) ==
  IF Dirty(editor)
    THEN held' = a /\ UNCHANGED <<mounted, editor, steps, saving, runAsk, calls, watch>>
    ELSE Perform(a, editor, calls, saving, FALSE) /\ UNCHANGED held

Ask(a) ==
  /\ Ready /\ ~ Modal
  /\ UNCHANGED store
  /\ Guard(a)
  /\ UNCHANGED <<backend, edits>>

\* The graph menu, the active graph's own row included; new; a close.
AskLoad(g) == store[g] # Nil /\ Ask(Load(g, store[g]))
AskNew == Ask(New)
AskClose == Ask(Close)

\* The effect that loads a graph of the list when the editor has none.
AutoLoad(g) ==
  /\ mounted /\ editor.id = Nil
  /\ store[g] # Nil
  /\ UNCHANGED store
  /\ Perform(Load(g, store[g]), editor, calls, saving, FALSE)
  /\ UNCHANGED <<backend, held, edits>>

Maximize ==
  /\ ~ mounted
  /\ mounted' = TRUE
  /\ UNCHANGED <<graphs, editor, steps, dialogs, saving, calls, edits, watch>>

\* cancel, by its button or by Escape: also while its own save is in flight.
Cancel ==
  /\ Ready /\ held # Nothing
  /\ held' = Nothing
  /\ UNCHANGED <<graphs, mounted, editor, steps, runAsk, saving, calls, edits, watch>>

\* Marked clean first, then the held action.
Discard ==
  /\ Ready /\ held # Nothing
  /\ UNCHANGED store
  /\ Perform(held, editor, calls, saving, TRUE)
  /\ held' = Nothing
  /\ UNCHANGED <<backend, edits>>

-----------------------------------------------------------------------------
(***************************************************************************)
(* The canvas.  The keyboard reaches it under a dialog too.                *)
(***************************************************************************)
\* The canvas changes while a call that will replace it is in flight.
Replaces(call) == call.op \in {"copy", "delete"} \/ call.proceed
Touched ==
  /\ Upset(IF \E c \in InFlight(calls) : Replaces(calls[c]) THEN {"edited"} ELSE {})
  /\ steps' = steps \cup {editor.rev}
  /\ UNCHANGED <<graphs, mounted, dialogs, saving, calls, lost>>

\* Any of the edits of GraphHistory, or a rename.
Edit ==
  /\ Ready
  /\ edits < MaxEdits
  /\ edits' = edits + 1
  /\ editor' = [editor EXCEPT !.rev = MaxIds + edits']
  /\ Touched

\* An undo or a redo.  After a rename it brings back the blocks and keeps the
\* name: that is a new revision, as after an Edit.
Retrace ==
  /\ Ready
  /\ \E rev \in steps : editor' = [editor EXCEPT !.rev = rev]
  /\ UNCHANGED edits
  /\ Touched

-----------------------------------------------------------------------------
(***************************************************************************)
(* The calls.                                                              *)
(***************************************************************************)
\* A call goes out beside those in flight, carrying what its closure captured.
Send(op, id, rev, on, proceed) ==
  /\ InFlight(calls) # 1..MaxCalls
  /\ LET c == CHOOSE c \in 1..MaxCalls : calls[c] = Nil IN
       calls' = [calls EXCEPT ![c] =
         [op |-> op, id |-> id, rev |-> rev, on |-> on, proceed |-> proceed,
          here |-> TRUE, reply |-> "none"]]
  /\ Upset(IF \E c \in InFlight(calls) : calls[c].id = id \/ calls[c].op # "enable"
              THEN {"crossed"} ELSE {})
  /\ UNCHANGED <<graphs, mounted, steps, edits, lost>>

Mintable == \E g \in Ids : backend[g] = Nil

\* graphId null and '' both reach the backend as ''.
HandleSave(proceed) ==
  LET id == IF editor.id \in Ids THEN editor.id ELSE Blank IN
    /\ id = Blank => Mintable
    /\ saving' = TRUE
    /\ Send("save", id, editor.rev, editor.on, proceed)
    /\ UNCHANGED editor

Save == Ready /\ ~ Modal /\ ~ saving /\ HandleSave(FALSE) /\ UNCHANGED dialogs

SaveAndContinue ==
  Ready /\ held # Nothing /\ ~ saving /\ HandleSave(TRUE) /\ UNCHANGED dialogs

\* requestRun: a dirty graph asks first, a clean one is saved all the same.
RequestRun ==
  /\ Ready /\ ~ Modal /\ editor.id \in Ids
  /\ IF Dirty(editor)
       THEN /\ runAsk' = TRUE
            /\ UNCHANGED <<graphs, mounted, editor, steps, held, saving, calls, edits, watch>>
       ELSE HandleSave(FALSE) /\ UNCHANGED dialogs

SaveAndRun ==
  /\ Ready /\ runAsk /\ ~ saving
  /\ runAsk' = FALSE
  /\ HandleSave(FALSE)
  /\ UNCHANGED held

CancelRun ==
  /\ Ready /\ runAsk
  /\ runAsk' = FALSE
  /\ UNCHANGED <<graphs, mounted, editor, steps, held, saving, calls, edits, watch>>

\* Save as copy: a blank id, switched off.
HandleDuplicateGraph ==
  /\ Ready /\ ~ Modal /\ editor.id \in Ids /\ ~ saving
  /\ Mintable
  /\ saving' = TRUE
  /\ Send("copy", Blank, editor.rev, FALSE, FALSE)
  /\ UNCHANGED <<editor, dialogs>>

\* The switch flips at once.
HandleToggleEnabled ==
  /\ Ready /\ ~ Modal /\ editor.id \in Ids
  /\ editor' = [editor EXCEPT !.on = ~ @]
  /\ Send("enable", editor.id, 0, ~ editor.on, FALSE)
  /\ UNCHANGED <<saving, dialogs>>

HandleDelete ==
  /\ Ready /\ ~ Modal /\ editor.id \in Ids
  /\ Send("delete", editor.id, editor.rev, FALSE, FALSE)
  /\ UNCHANGED <<editor, saving, dialogs>>

-----------------------------------------------------------------------------
\* The backend: the graphs in memory change first, then a write may fail.
SaveGraph(id, call) ==
  /\ backend' = [backend EXCEPT ![id] = [rev |-> call.rev, on |-> call.on]]

DeleteGraph(id) == backend' = [backend EXCEPT ![id] = Nil]

SetGraphEnabled(id, on) ==
  backend' = IF backend[id] = Nil THEN backend ELSE [backend EXCEPT ![id].on = on]

Serve(c) ==
  /\ calls[c] # Nil /\ calls[c].reply = "none"
  /\ \E id \in Ids :
       /\ IF calls[c].id = Blank THEN backend[id] = Nil ELSE id = calls[c].id
       /\ CASE calls[c].op \in {"save", "copy"} -> SaveGraph(id, calls[c])
            [] calls[c].op = "delete" -> DeleteGraph(id)
            [] calls[c].op = "enable" -> SetGraphEnabled(id, calls[c].on)
       /\ \/ /\ calls' = [calls EXCEPT ![c].reply = "ok", ![c].id = id]
             /\ UNCHANGED upset
          \/ /\ calls' = [calls EXCEPT ![c].reply = "failed"]
             /\ Upset({"failed"})
  /\ UNCHANGED <<store, mounted, editor, steps, dialogs, saving, edits, lost>>

\* What a reply leaves in the store: useSchedulerStore's three writes.
Stored(call) ==
  IF call.reply = "failed" THEN store
  ELSE CASE call.op \in {"save", "copy"} ->
              [store EXCEPT ![call.id] = [rev |-> call.rev, on |-> call.on]]
         [] call.op = "delete" -> [store EXCEPT ![call.id] = Nil]
         [] call.op = "enable" ->
              IF store[call.id] = Nil THEN store ELSE [store EXCEPT ![call.id].on = call.on]

\* Mutant: clean is what the canvas holds now, not what was sent.
MarkSavedNow(call) == [editor EXCEPT !.id = call.id, !.sig = Signature(editor)]

\* handleSave's reply: the id, and clean is what was sent.
MarkSaved(call) ==
  [editor EXCEPT !.id = call.id, !.sig = [rev |-> call.rev, on |-> call.on]]

\* Mutant: the button is freed by a save that worked only.
SettledOk(call) == saving /\ (call.op \notin {"save", "copy"} \/ call.reply = "failed")

\* The Save button is free again once a save or a copy is back, whatever it says.
Settled(call) == saving /\ call.op \notin {"save", "copy"}

\* The reply to a call of this editor: what it does next, from which editor,
\* how any work it replaces is lost, and what the dialog holds then.
Answer(call, rest) ==
  CASE call.op = "save" /\ call.reply = "ok" /\ call.proceed ->
         /\ Perform(held, MarkSaved(call), rest, Settled(call), FALSE) /\ held' = Nothing
    [] call.op = "save" /\ call.reply = "ok" /\ ~ call.proceed ->
         /\ Perform(Nothing, MarkSaved(call), rest, Settled(call), FALSE) /\ UNCHANGED held
    [] call.op = "save" /\ call.reply = "failed" ->
         /\ Perform(Nothing, editor, rest, Settled(call), FALSE)
         /\ held' = IF call.proceed THEN Nothing ELSE held
    [] call.op = "copy" /\ call.reply = "ok" ->
         /\ Perform(Load(call.id, [rev |-> call.rev, on |-> call.on]), editor, rest,
                    Settled(call), FALSE)
         /\ UNCHANGED held
    [] call.op = "delete" /\ call.reply = "ok" ->
         /\ Perform(New, editor, rest, Settled(call), editor.rev = call.rev)
         /\ UNCHANGED held
    [] call.op = "enable" /\ call.reply = "failed" ->
         /\ Perform(Nothing, [editor EXCEPT !.on = ~ call.on], rest, Settled(call), FALSE)
         /\ UNCHANGED held
    [] OTHER ->
         /\ Perform(Nothing, editor, rest, Settled(call), FALSE) /\ UNCHANGED held

Replies(c) ==
  /\ calls[c] # Nil /\ calls[c].reply # "none"
  /\ LET call == calls[c]
         rest == [calls EXCEPT ![c] = Nil]
     IN  /\ store' = Stored(call)
         /\ IF call.here
              THEN Answer(call, rest)
              ELSE /\ calls' = rest
                   /\ UNCHANGED <<mounted, editor, steps, dialogs, saving, watch>>
  /\ UNCHANGED <<backend, edits>>

-----------------------------------------------------------------------------
Next ==
  \/ \E g \in Ids : AskLoad(g) \/ AutoLoad(g)
  \/ AskNew \/ AskClose \/ Maximize \/ Cancel \/ Discard
  \/ Edit \/ Retrace
  \/ Save \/ SaveAndContinue \/ RequestRun \/ SaveAndRun \/ CancelRun
  \/ HandleDuplicateGraph \/ HandleToggleEnabled \/ HandleDelete
  \/ \E c \in 1..MaxCalls : Serve(c) \/ Replies(c)

Spec == Init /\ [][Next]_vars

-----------------------------------------------------------------------------
\* No unsaved work is replaced that the user did not agree to lose, as long as
\* no call crossed another or a change of graph, and the canvas was not edited
\* under a call that replaces it.
NothingLostUnasked == upset \cap {"crossed", "edited"} = {} => ~ lost

Quiet == mounted /\ editor.id \in Ids /\ InFlight(calls) = {}

\* A clean editor with nothing in flight shows what the backend holds, as long
\* as no call crossed another or a change of graph, no write failed and no
\* graph older than the list's was loaded.
CleanIsSaved ==
  Quiet /\ upset = {} /\ ~ Dirty(editor) => backend[editor.id] = Signature(editor)

\* graphMapping.ts: savedSig is "a last-saved snapshot", so a clean editor shows
\* what was saved last: one call at a time, with no write failing.  Known not to
\* hold: choosing the graph's own row loads it as the list had it before the save.
CleanIsLastSaved ==
  Quiet /\ upset \subseteq {"reloaded"} /\ ~ Dirty(editor) =>
    backend[editor.id] = Signature(editor)

=============================================================================
