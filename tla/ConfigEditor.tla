---------------------------- MODULE ConfigEditor ----------------------------
(* The config editor (useConfigEditor, tiles/config/index.tsx) from its     *)
(* mounting to its closing: one text on screen, the guard that asks before  *)
(* unsaved work goes (useDirtyGuard), and reads and writes that come back   *)
(* while the user goes on.  Only the editor writes the files here.          *)
EXTENDS Naturals, Sequences

CONSTANTS Files, Nil,
          MaxEdits,      \* bound on the texts typed
          MaxReads       \* bound on the reads under way

VARIABLES mounted,
          pane,          \* what the editor holds; `marked` is isDirtyRef
          held,          \* the action behind the unsaved-changes dialog
          readings,
          write,         \* the save under way: the Save buttons are off meanwhile
          files,         \* the files on disk
          upset,         \* what the property excuses: the user went on with a write
                         \* under way, or back to a file still being read, or
                         \* cancelled the dialog whose save was under way
          spilt          \* typed text went without the user's leave

Text == [of : Files \cup {Nil}, n : 0 .. MaxEdits]   \* whose text, which version
Blank == [of |-> Nil, n |-> 0]
Close == "close"

EditorTypeOK ==
  /\ mounted \in BOOLEAN
  /\ pane \in [file : Files \cup {Nil}, text : Text, original : Text,
               loading : BOOLEAN, marked : BOOLEAN, edits : 0 .. MaxEdits]
  /\ held \in Files \cup {Close, Nil}
  /\ readings \in Seq([file : Files, text : Text \cup {Nil}, failed : BOOLEAN])
  /\ write \in [file : Files, text : Text, continues : BOOLEAN,
                reply : {"none", "ok", "failed"}] \cup {Nil}
  /\ files \in [Files -> Text]
  /\ upset \subseteq {"crossed", "reopened", "cancelled"} /\ spilt \in BOOLEAN

EditorInit ==
  /\ mounted = TRUE
  /\ pane = [file |-> Nil, text |-> Blank, original |-> Blank,
             loading |-> FALSE, marked |-> FALSE, edits |-> 0]
  /\ held = Nil /\ readings = <<>> /\ write = Nil
  /\ files = [f \in Files |-> [of |-> f, n |-> 0]]
  /\ upset = {} /\ spilt = FALSE

Dirty(p) == p.text # p.original
\* isDirtyRef follows isDirty when that changes, and only then.
Rendered(p) == IF Dirty(p) = Dirty(pane) THEN p ELSE [p EXCEPT !.marked = Dirty(p)]

\* The action `act` on the pane p, with a write under way or not: selectFile, or
\* the tile's closing, which unmounts the editor, or nothing.
Perform(act, p, writing, asked) ==
  /\ spilt' = (spilt \/ (act # Nil /\ ~asked /\ Dirty(p) /\ files[p.file] # p.text))
  /\ upset' = upset \cup {u \in {"crossed", "reopened"} :
                CASE u = "crossed" -> act # Nil /\ writing
                  [] u = "reopened" -> \E i \in DOMAIN readings : readings[i].file = act}
  /\ mounted' = (act # Close)
  /\ IF act \in Files
     THEN /\ pane' = Rendered([p EXCEPT !.file = act, !.loading = TRUE])
          /\ Len(readings) < MaxReads
          /\ readings' = Append(readings, [file |-> act, text |-> Nil, failed |-> FALSE])
     ELSE pane' = Rendered(p) /\ UNCHANGED readings

\* handleSelect and the close guard through confirm.guard: at once, or behind
\* the dialog.
Guard(act) ==
  /\ held = Nil /\ act # pane.file
  /\ IF pane.marked
     THEN held' = act /\ UNCHANGED <<mounted, pane, readings, upset, spilt>>
     ELSE Perform(act, pane, write # Nil, FALSE) /\ UNCHANGED held
  /\ UNCHANGED <<write, files>>

ReadTaken(i) ==
  /\ readings[i].text = Nil /\ ~readings[i].failed
  /\ \/ readings' = [readings EXCEPT ![i].text = files[readings[i].file]]
     \/ readings' = [readings EXCEPT ![i].failed = TRUE]
  /\ UNCHANGED <<mounted, pane, held, write, files, upset, spilt>>

\* loadingFor drops the reply of a file switched away from; a failed read
\* leaves an empty text.
ReadReplies(i) ==
  LET r == readings[i]
      text == IF r.failed THEN Blank ELSE r.text
  IN /\ r.failed \/ r.text # Nil
     /\ readings' = SubSeq(readings, 1, i - 1) \o SubSeq(readings, i + 1, Len(readings))
     /\ IF r.file = pane.file
        THEN /\ pane' = Rendered([pane EXCEPT !.text = text, !.original = text,
                                              !.loading = FALSE])
             /\ spilt' = (spilt \/ Dirty(pane))
        ELSE UNCHANGED <<pane, spilt>>
     /\ UNCHANGED <<mounted, held, write, files, upset>>

Types ==
  /\ pane.file # Nil /\ ~pane.loading /\ held = Nil /\ pane.edits < MaxEdits
  /\ LET n == pane.edits + 1
         of == IF pane.text.of = Nil THEN pane.file ELSE pane.text.of
     IN pane' = Rendered([pane EXCEPT !.text = [of |-> of, n |-> n], !.edits = n])
  /\ UNCHANGED <<mounted, held, readings, write, files, upset, spilt>>

revert ==
  /\ Dirty(pane) /\ held = Nil
  /\ pane' = Rendered([pane EXCEPT !.text = pane.original])
  /\ UNCHANGED <<mounted, held, readings, write, files, upset, spilt>>

\* The write goes out with the file and the text of the click.
save(continues) ==
  /\ pane.file # Nil /\ Dirty(pane) /\ write = Nil
  /\ write' = [file |-> pane.file, text |-> pane.text, continues |-> continues,
               reply |-> "none"]
  /\ UNCHANGED <<mounted, pane, held, readings, files, upset, spilt>>

SaveClick == held = Nil /\ save(FALSE)

\* With nothing left to save it goes on at once.
saveAndContinue ==
  /\ held # Nil
  /\ \/ save(TRUE)
     \/ /\ ~Dirty(pane) /\ write = Nil /\ held' = Nil
        /\ Perform(held, [pane EXCEPT !.marked = FALSE], FALSE, FALSE)
        /\ UNCHANGED <<write, files>>

discardAndContinue ==
  /\ held # Nil /\ held' = Nil
  /\ Perform(held, [pane EXCEPT !.text = pane.original, !.marked = FALSE],
             write # Nil, TRUE)
  /\ UNCHANGED <<write, files>>

\* Also by the Escape key, and while the save the dialog asked for is under way.
Cancel ==
  /\ held # Nil /\ held' = Nil
  /\ upset' = IF write = Nil THEN upset
              ELSE IF write.continues THEN upset \cup {"cancelled"} ELSE upset
  /\ UNCHANGED <<mounted, pane, readings, write, files, spilt>>

SaveTaken ==
  /\ write # Nil /\ write.reply = "none"
  /\ \/ /\ write' = [write EXCEPT !.reply = "ok"]
        /\ files' = [files EXCEPT ![write.file] = write.text]
     \/ write' = [write EXCEPT !.reply = "failed"] /\ UNCHANGED files
  /\ UNCHANGED <<mounted, pane, held, readings, upset, spilt>>

\* The saved text becomes the original of whatever is open.  A save that was to
\* continue then runs the action held by now, whether it is the one asked about.
SaveReplies ==
  /\ write # Nil /\ write.reply # "none" /\ write' = Nil
  /\ LET ok == write.reply = "ok"
         goesOn == ok /\ write.continues
         next == [pane EXCEPT !.original = IF ok THEN write.text ELSE @,
                              !.marked = @ /\ ~goesOn]
     IN /\ held' = IF write.continues THEN Nil ELSE held
        /\ Perform(IF goesOn THEN held ELSE Nil, next, FALSE, FALSE)
  /\ UNCHANGED files

\* A behaviour is followed to the first excuse: past it nothing is promised.
EditorNext ==
  /\ mounted /\ upset = {}
  /\ \/ \E act \in Files \cup {Close} : Guard(act)
     \/ \E i \in DOMAIN readings : ReadTaken(i) \/ ReadReplies(i)
     \/ SaveTaken \/ SaveReplies
     \/ Types \/ revert \/ SaveClick
     \/ saveAndContinue \/ discardAndContinue \/ Cancel

\* "Veto a close, a server switch or a file switch while the open file has
\* unsaved edits" (tiles/config/index.tsx:77): no typed text goes unasked.
EditsGoAsked == ~spilt

\* A file only ever gets text typed for it, and what reads as saved is what the
\* file holds, whatever reads are late.
CleanIsTheFile ==
  /\ \A f \in Files : files[f].of \in {f, Nil}
  /\ pane.file # Nil /\ ~pane.loading /\ write = Nil /\ ~Dirty(pane) /\ pane.text # Blank
       => pane.text = files[pane.file]

EditorKeepsText == upset = {} => EditsGoAsked /\ CleanIsTheFile
=============================================================================
