---------------------------- MODULE GraphHistory ----------------------------
(* The scheduler editor's undo history (frontend graphHistory.ts) as        *)
(* GraphEditor.tsx feeds it.  A snapshot is the number of the revision it    *)
(* holds; revisions are numbered in the order they were first drawn.         *)
EXTENDS Naturals, SequencesExt

CONSTANTS Tags,          \* config fields, whose keystrokes coalesce
          Nil,
          MAX_HISTORY,
          MaxRevisions   \* bound on the revisions drawn

VARIABLES canvas,        \* the revision on the canvas
          drawn,         \* the newest revision
          past, future, lastTag,
          drag,          \* the snapshot of the drag under way, or Nil
          meddled        \* the canvas was edited under a drag

Revisions == 0 .. MaxRevisions

HistoryTypeOK ==
  /\ {canvas, drawn} \subseteq Revisions
  /\ past \in BoundedSeq(Revisions, MAX_HISTORY)
  /\ future \in BoundedSeq(Revisions, MAX_HISTORY)
  /\ lastTag \in Tags \cup {Nil} /\ drag \in Revisions \cup {Nil}
  /\ meddled \in BOOLEAN

HistoryInit ==
  /\ canvas = 0 /\ drawn = 0 /\ past = <<>> /\ future = <<>>
  /\ lastTag = Nil /\ drag = Nil /\ meddled = FALSE

\* Mutant: nothing falls out.
PushedUnbounded(snap) == Append(past, snap)

\* A snapshot goes on top of the past; the oldest falls out when it is full.
Pushed(snap) ==
  LET longer == Append(past, snap)
  IN  IF Len(longer) > MAX_HISTORY THEN Tail(longer) ELSE longer

\* record(): a burst of keystrokes in one field keeps its first snapshot, and
\* any other change ends the redo line.
Record(snap, tag) ==
  IF tag # Nil /\ tag = lastTag
    THEN UNCHANGED <<past, future, lastTag>>
    ELSE past' = Pushed(snap) /\ future' = <<>> /\ lastTag' = tag

Redrawn ==
  /\ drawn < MaxRevisions
  /\ drawn' = drawn + 1 /\ canvas' = drawn + 1

\* A change outside a drag's own gesture.
Touched == meddled' = (meddled \/ drag # Nil)

\* onConnect, addBlock, deleting or pasting (tag Nil), a config field's edit.
Change(tag) ==
  /\ Redrawn
  /\ Record(canvas, tag)
  /\ Touched
  /\ UNCHANGED drag

\* The Delete key on a node with wires: nodes and edges are reported removed
\* one after the other, and each report records.
DeleteKey ==
  /\ Redrawn
  /\ past' = LET longer == past \o <<canvas, canvas>>
             IN  SubSeq(longer, 1 + (IF Len(longer) > MAX_HISTORY
                                       THEN Len(longer) - MAX_HISTORY ELSE 0), Len(longer))
  /\ future' = <<>> /\ lastTag' = Nil
  /\ Touched
  /\ UNCHANGED drag

\* A drag begins; with Alt the node is duplicated at once.
DragStart ==
  /\ drag = Nil
  /\ drag' = canvas
  /\ Redrawn \/ UNCHANGED <<canvas, drawn>>
  /\ UNCHANGED <<past, future, lastTag, meddled>>

\* It ends: one entry, with the canvas as it was before, if anything changed.
DragStop ==
  /\ drag # Nil
  /\ drag' = Nil
  /\ Redrawn \/ UNCHANGED <<canvas, drawn>>
  /\ IF canvas' = drag THEN UNCHANGED <<past, future, lastTag>>
                       ELSE Record(drag, Nil)
  /\ UNCHANGED meddled

Undo ==
  /\ past # <<>>
  /\ canvas' = Last(past)
  /\ past' = Front(past) /\ future' = Append(future, canvas)
  /\ lastTag' = Nil
  /\ Touched
  /\ UNCHANGED <<drawn, drag>>

Redo ==
  /\ future # <<>>
  /\ canvas' = Last(future)
  /\ future' = Front(future) /\ past' = Pushed(canvas)
  /\ lastTag' = Nil
  /\ Touched
  /\ UNCHANGED <<drawn, drag>>

\* Another graph is loaded: its history starts empty.
Load ==
  /\ drag = Nil
  /\ Redrawn
  /\ past' = <<>> /\ future' = <<>> /\ lastTag' = Nil
  /\ meddled' = FALSE
  /\ UNCHANGED drag

HistoryNext ==
  \/ \E tag \in Tags \cup {Nil} : Change(tag)
  \/ DeleteKey \/ DragStart \/ DragStop \/ Undo \/ Redo \/ Load

\* Undo goes back in time and redo forward: what can be undone, what is on the
\* canvas and what can be redone are in the order they were drawn, between drags
\* and unless the canvas was changed under one.
Chronological ==
  LET timeline == past \o <<canvas>> \o Reverse(future)
  IN  drag = Nil /\ ~meddled =>
        \A i, j \in DOMAIN timeline : i < j => timeline[i] <= timeline[j]
=============================================================================
