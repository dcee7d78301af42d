------------------------- MODULE GraphEditorProofs -------------------------
(***************************************************************************)
(* Theorems about the scheduler's graph editor, for any number of graphs,  *)
(* edits, calls in flight and kinds of trouble.                            *)
(***************************************************************************)
EXTENDS GraphEditor, TLAPS

\* A switch and a deletion are of a graph that has an id, and Save & continue
\* asks for saves only.
CallsInv ==
  \A c \in InFlight(calls) :
    /\ calls[c].op \in {"enable", "delete"} => calls[c].id \in Ids
    /\ calls[c].proceed => calls[c].op = "save"

\* Nothing happened that excuses lost work.
Sane == upset \cap {"crossed", "edited"} = {}

\* Beside the switches of other graphs, one call is in flight, and the editor
\* that asked for it is still there.
AloneInv ==
  Sane =>
    /\ \A c \in InFlight(calls) : calls[c].op # "enable" => calls[c].here
    /\ \A c, d \in InFlight(calls) :
         calls[c].op # "enable" /\ calls[d].op # "enable" => c = d

\* A call of cs that will replace the canvas carries what the editor ed still
\* shows, and an editor with no graph but with work on its canvas is in no
\* danger of loading one from the list st.
Safe(ed, st, cs) ==
  /\ \A c \in InFlight(cs) : Replaces(cs[c]) => ed.rev = cs[c].rev
  /\ ed.id = Nil /\ ed.rev # ed.sig.rev => \A g \in Ids : st[g] = Nil

\* Nothing is lost, and a save that went well is in the backend.
WorkInv ==
  Sane =>
    /\ ~ lost
    /\ Safe(editor, store, calls)
    /\ \A c \in InFlight(calls) :
         calls[c].op \in {"save", "copy"} /\ calls[c].reply = "ok" =>
           /\ calls[c].id \in Ids /\ backend[calls[c].id] # Nil
           /\ backend[calls[c].id].rev = calls[c].rev

\* Nothing happened at all that excuses a clean editor that is not saved.
Calm == upset = {}

\* Calls are about different graphs, and switches about graphs that exist.
IdsInv ==
  Calm =>
    /\ \A c, d \in InFlight(calls) : c # d => calls[c].id # calls[d].id
    /\ \A c \in InFlight(calls) : calls[c].op = "enable" => backend[calls[c].id] # Nil

\* What a served call leaves in the backend, and its reply in the list st.
Result(st, call) ==
  IF call.op = "delete" THEN Nil
  ELSE IF call.op = "enable" THEN [st[call.id] EXCEPT !.on = call.on]
  ELSE [rev |-> call.rev, on |-> call.on]

\* The list st is the backend less the replies of cs still to come.
Matches(st, cs) ==
  /\ \A g \in Ids : (\A c \in InFlight(cs) : cs[c].reply = "none" \/ cs[c].id # g)
                      => st[g] = backend[g]
  /\ \A c \in InFlight(cs) : cs[c].reply # "none" =>
       /\ cs[c].reply = "ok" /\ cs[c].id \in Ids
       /\ cs[c].op = "enable" => st[cs[c].id] # Nil
       /\ backend[cs[c].id] = Result(st, cs[c])

StoreInv == Calm => Matches(store, calls)

\* A graph with no call of cs is in the backend as it was last saved, with the
\* switch as the editor ed shows it; a save or a switch of cs carries the
\* switch as it shows.
Shows(ed, cs) ==
  /\ ed.id \in Ids =>
       \/ \E c \in InFlight(cs) : cs[c].id = ed.id
       \/ backend[ed.id] = [rev |-> ed.sig.rev, on |-> ed.on]
  /\ \A c \in InFlight(cs) :
       /\ cs[c].op = "save" => cs[c].on = ed.on
       /\ cs[c].op = "enable" /\ cs[c].id = ed.id =>
            cs[c].on = ed.on /\ backend[ed.id].rev = ed.sig.rev

ShownInv == Calm => Shows(editor, calls)

IInv == TypeOK /\ CallsInv /\ AloneInv /\ WorkInv /\ IdsInv /\ StoreInv /\ ShownInv

Editors == [id : Ids \cup {Blank, Nil}, rev : Revs, on : BOOLEAN, sig : Graphs]
Kinds == {"crossed", "edited", "failed", "reloaded"}

\* The same call, whether or not its editor is still there.
Alike(d, e) ==
  /\ d.op = e.op /\ d.id = e.id /\ d.rev = e.rev /\ d.on = e.on
  /\ d.proceed = e.proceed /\ d.reply = e.reply

-----------------------------------------------------------------------------
LEMMA Constants ==
  /\ Blank \notin Ids /\ Nil \notin Ids /\ Nil # Blank /\ Ids \subseteq Int
  /\ 0 \in Revs /\ Revs \subseteq Int /\ Nil \notin Graphs /\ Nil \notin Calls
  /\ \A rev \in Revs, on \in BOOLEAN : [rev |-> rev, on |-> on] \in Graphs
BY EditorAssumption, NilAssumption DEF Blank, Ids, Revs, Graphs

LEMMA CallTypes ==
  ASSUME TypeOK, NEW c \in InFlight(calls)
  PROVE  /\ c \in 1..MaxCalls /\ calls[c] \in Calls /\ calls[c] # Nil
         /\ calls[c].op \in {"save", "copy", "delete", "enable"}
         /\ calls[c].id \in Ids \cup {Blank} /\ calls[c].rev \in Revs
         /\ calls[c].on \in BOOLEAN /\ calls[c].proceed \in BOOLEAN
         /\ calls[c].here \in BOOLEAN /\ calls[c].reply \in {"none", "ok", "failed"}
<1>1. c \in 1..MaxCalls /\ calls[c] \in Calls /\ calls[c] # Nil
  BY DEF InFlight, TypeOK
<1>2. QED
  BY <1>1 DEF Calls

\* What Perform leaves of the editor ed, with the calls cs in flight.
Outcome(a, ed, cs, asked) ==
  /\ mounted' \in BOOLEAN /\ runAsk' \in BOOLEAN /\ lost' \in BOOLEAN
  /\ saving' \in BOOLEAN
  /\ editor' = After(a, ed) /\ editor' \in Editors /\ steps' \subseteq Revs
  /\ upset \subseteq upset' /\ upset' \subseteq Kinds
  /\ calls' \in [1..MaxCalls -> Calls \cup {Nil}] /\ InFlight(calls') = InFlight(cs)
  /\ saving' => \E c \in InFlight(calls') :
                  calls'[c].here /\ calls'[c].op \in {"save", "copy"}
  /\ \A c \in InFlight(cs) : Alike(calls'[c], cs[c])
  /\ a.do # "close" => calls' = cs
  /\ a.do # "nothing" /\ "crossed" \notin upset' =>
       \A c \in InFlight(cs) : cs[c].op = "enable" /\ cs[c].id # a.id
  /\ a.do = "load" /\ "reloaded" \notin upset' =>
       store'[a.id] = [rev |-> a.rev, on |-> a.on]
  /\ lost' => lost \/ (~ asked /\ a.do # "nothing" /\ Unsaved(ed))

\* A save or a copy that keeps the button busy.
Waiting(cs) == \E c \in InFlight(cs) : cs[c].here /\ cs[c].op \in {"save", "copy"}

LEMMA Performed ==
  ASSUME NEW a \in Actions, NEW ed \in Editors, NEW cs \in [1..MaxCalls -> Calls \cup {Nil}],
         NEW busy \in BOOLEAN, NEW asked \in BOOLEAN, TypeOK, busy => Waiting(cs),
         Perform(a, ed, cs, busy, asked)
  PROVE  Outcome(a, ed, cs, asked)
<1> USE Constants
<1>1. /\ a.do \in {"nothing", "load", "new", "close"} /\ a.id \in Ids \cup {Blank}
      /\ a.rev \in Revs /\ a.on \in BOOLEAN
  BY DEF Actions
<1> DEFINE closes == a.do = "close"
           kinds == {t \in {"crossed", "reloaded"} :
               IF t = "crossed" THEN Crosses(a, cs)
               ELSE a.do = "load" /\ store'[a.id] # [rev |-> a.rev, on |-> a.on]}
<1>2. /\ editor' = After(a, ed)
      /\ steps' = IF a.do = "nothing" THEN steps ELSE {}
      /\ mounted' = (mounted /\ ~ closes) /\ saving' = (busy /\ ~ closes)
      /\ runAsk' = (runAsk /\ ~ closes)
      /\ calls' = [c \in 1..MaxCalls |->
           IF closes /\ cs[c] # Nil THEN [cs[c] EXCEPT !.here = FALSE] ELSE cs[c]]
      /\ lost' = (lost \/ (~ asked /\ a.do # "nothing" /\ Unsaved(ed)))
      /\ upset' = upset \cup kinds
  BY DEF Perform, Upset
<1>3. /\ mounted' \in BOOLEAN /\ runAsk' \in BOOLEAN /\ lost' \in BOOLEAN
      /\ saving' \in BOOLEAN /\ steps' \subseteq Revs
      /\ lost' => lost \/ (~ asked /\ a.do # "nothing" /\ Unsaved(ed))
  BY <1>2 DEF TypeOK
<1>4. editor' \in Editors
  BY <1>1, <1>2 DEF After, LoadGraph, HandleNew, Mounted, Editors, Graphs
<1>5. kinds \subseteq Kinds
  BY DEF Kinds
<1>6. a.do # "nothing" /\ "crossed" \notin upset' =>
        \A c \in InFlight(cs) : cs[c].op = "enable" /\ cs[c].id # a.id
  BY <1>2 DEF Crosses
<1>7. a.do = "load" /\ "reloaded" \notin upset' =>
        store'[a.id] = [rev |-> a.rev, on |-> a.on]
  BY <1>2
<1>8. \A c \in 1..MaxCalls : cs[c] # Nil =>
        LET left == [cs[c] EXCEPT !.here = FALSE] IN
          left \in Calls /\ left # Nil /\ Alike(left, cs[c])
  BY DEF Calls, Alike
<1>9. /\ calls' \in [1..MaxCalls -> Calls \cup {Nil}]
      /\ InFlight(calls') = InFlight(cs)
      /\ \A c \in InFlight(cs) : Alike(calls'[c], cs[c])
      /\ a.do # "close" => calls' = cs
  <2>1. CASE closes
    <3>1. \A c \in 1..MaxCalls : calls'[c] = IF cs[c] # Nil
                                            THEN [cs[c] EXCEPT !.here = FALSE] ELSE cs[c]
      BY <1>2, <2>1
    <3>2. calls' = [c \in 1..MaxCalls |-> calls'[c]]
      BY <1>2
    <3>3. QED
      BY <1>8, <2>1, <3>1, <3>2 DEF InFlight
  <2>2. CASE ~ closes
    <3>1. calls' = cs
      BY <1>2, <2>2
    <3>2. QED
      BY <3>1 DEF Alike
  <2>3. QED
    BY <2>1, <2>2
<1>10. saving' => \E c \in InFlight(calls') :
                    calls'[c].here /\ calls'[c].op \in {"save", "copy"}
  BY <1>2, <1>9 DEF Waiting
<1>11. upset \subseteq upset' /\ upset' \subseteq Kinds
  BY <1>2, <1>5 DEF TypeOK, Kinds
<1>12. QED
  BY <1>2, <1>3, <1>4, <1>6, <1>7, <1>9, <1>10, <1>11 DEF Outcome

-----------------------------------------------------------------------------
(***************************************************************************)
(* Steps that make or answer no call.                                      *)
(***************************************************************************)
\* What the user sees changes, and nothing else.
LEMMA DialogKeeps ==
  ASSUME IInv, UNCHANGED <<graphs, editor, steps, saving, calls, edits, watch>>,
         mounted' \in BOOLEAN, held' \in Actions, runAsk' \in BOOLEAN
  PROVE  IInv'
<1> USE DEF graphs, watch
<1>1. TypeOK'
  BY DEF IInv, TypeOK
<1>2. CallsInv' /\ AloneInv' /\ WorkInv'
  BY DEF IInv, CallsInv, AloneInv, WorkInv, Sane, Safe
<1>3. IdsInv' /\ StoreInv' /\ ShownInv'
  BY DEF IInv, IdsInv, StoreInv, ShownInv, Calm, Matches, Shows
<1>4. QED
  BY <1>1, <1>2, <1>3 DEF IInv

\* The editor ed, with the calls cs of those in flight still to come back, is
\* replaced by agreement, or with nothing to lose, or not at all.
MayPerform(a, ed, cs, asked) ==
  /\ InFlight(cs) \subseteq InFlight(calls) /\ \A c \in InFlight(cs) : cs[c] = calls[c]
  /\ Sane => asked \/ a.do = "nothing" \/ ~ Unsaved(ed)
  /\ Calm => Matches(store', cs)
  /\ a.do = "nothing" => (Sane => Safe(ed, store', cs)) /\ (Calm => Shows(ed, cs))

LEMMA PerformKeeps ==
  ASSUME IInv, NEW a \in Actions, NEW ed \in Editors,
         NEW cs \in [1..MaxCalls -> Calls \cup {Nil}],
         NEW busy \in BOOLEAN, NEW asked \in BOOLEAN, busy => Waiting(cs),
         Perform(a, ed, cs, busy, asked),
         UNCHANGED <<backend, edits>>, held' \in Actions,
         store' \in [Ids -> Graphs \cup {Nil}], MayPerform(a, ed, cs, asked)
  PROVE  IInv'
<1> USE Constants DEF MayPerform
<1>1. TypeOK /\ CallsInv /\ AloneInv /\ WorkInv /\ IdsInv /\ StoreInv /\ ShownInv
  BY DEF IInv
<1>2. /\ mounted' \in BOOLEAN /\ runAsk' \in BOOLEAN /\ lost' \in BOOLEAN
      /\ saving' \in BOOLEAN
      /\ editor' = After(a, ed) /\ editor' \in Editors /\ steps' \subseteq Revs
      /\ upset \subseteq upset' /\ upset' \subseteq Kinds
      /\ calls' \in [1..MaxCalls -> Calls \cup {Nil}] /\ InFlight(calls') = InFlight(cs)
      /\ saving' => \E c \in InFlight(calls') :
                      calls'[c].here /\ calls'[c].op \in {"save", "copy"}
      /\ \A c \in InFlight(cs) : Alike(calls'[c], cs[c])
      /\ a.do # "close" => calls' = cs
      /\ a.do # "nothing" /\ "crossed" \notin upset' =>
           \A c \in InFlight(cs) : cs[c].op = "enable" /\ cs[c].id # a.id
      /\ a.do = "load" /\ "reloaded" \notin upset' =>
           store'[a.id] = [rev |-> a.rev, on |-> a.on]
      /\ lost' => lost \/ (~ asked /\ a.do # "nothing" /\ Unsaved(ed))
  <2>1. Outcome(a, ed, cs, asked)
    BY <1>1, Performed
  <2>2. QED
    BY <2>1 DEF Outcome
<1>3. TypeOK'
  BY <1>1, <1>2 DEF TypeOK, Editors, Kinds
<1>4. CallsInv'
  BY <1>1, <1>2 DEF CallsInv, Alike
<1>5. Sane' => Sane /\ "crossed" \notin upset'
  BY <1>2 DEF Sane
<1>6. Calm' => Calm /\ Sane'
  BY <1>2 DEF Calm, Sane
<1>7. Sane' => ~ lost'
  BY <1>1, <1>2, <1>5 DEF WorkInv
<1>8. Calm' => Matches(store, calls)
  BY <1>1, <1>6 DEF StoreInv
<1>9. CASE a.do = "nothing"
  <2>1. editor' = ed /\ calls' = cs
    BY <1>2, <1>9 DEF After
  <2>2. AloneInv'
    BY <1>1, <1>5, <2>1 DEF AloneInv
  <2>3. WorkInv'
    BY <1>1, <1>5, <1>7, <1>9, <2>1 DEF WorkInv
  <2>4. IdsInv'
    BY <1>1, <1>6, <2>1 DEF IdsInv
  <2>5. Calm' => Matches(store', calls') /\ Shows(editor', calls')
    BY <1>6, <1>9, <2>1
  <2>6. StoreInv' /\ ShownInv'
    BY <2>5 DEF StoreInv, ShownInv, Matches, Shows
  <2>7. QED
    BY <1>3, <1>4, <2>2, <2>3, <2>4, <2>6 DEF IInv
<1>10. CASE a.do # "nothing"
  <2>1. ASSUME Sane'
        PROVE  \A c \in InFlight(calls') :
                 /\ c \in InFlight(cs) /\ calls'[c].op = "enable" /\ cs[c].op = "enable"
                 /\ ~ calls'[c].proceed
                 /\ calls'[c].id = cs[c].id /\ cs[c].id # a.id
    BY <1>1, <1>2, <1>5, <1>10, <2>1 DEF Alike, CallsInv
  <2>2. AloneInv'
    BY <2>1 DEF AloneInv
  <2>3. WorkInv'
    <3>1. editor'.id = Nil => editor'.rev = editor'.sig.rev
      BY <1>2, <1>10 DEF After, Mounted, LoadGraph, HandleNew, Actions
    <3>2. QED
      BY <1>7, <2>1, <3>1 DEF WorkInv, Safe, Replaces
  <2>4. IdsInv'
    BY <1>1, <1>2, <1>6, <2>1 DEF IdsInv
  <2>5. StoreInv'
    <3>1. SUFFICES ASSUME Calm'
                   PROVE  Matches(store, calls)'
      BY DEF StoreInv
    <3>2. \A c \in InFlight(cs) : Result(store', calls'[c]) = Result(store', cs[c])
      BY <1>2 DEF Result, Alike
    <3>3. QED
      BY <1>2, <1>6, <3>1, <3>2 DEF Matches, Alike
  <2>6. ShownInv'
    <3>1. SUFFICES ASSUME Calm'
                   PROVE  Shows(editor, calls)'
      BY DEF ShownInv
    <3>2. ASSUME editor'.id \in Ids
          PROVE  /\ backend'[editor'.id] = [rev |-> editor'.sig.rev, on |-> editor'.on]
                 /\ editor'.id = a.id
      <4>1. a.do = "load" /\ editor' = LoadGraph(a)
        BY <1>2, <1>10, <3>2 DEF After, Mounted, HandleNew, Actions
      <4>2. store'[a.id] = [rev |-> a.rev, on |-> a.on]
        BY <1>2, <3>1, <4>1 DEF Calm
      <4>3. store'[a.id] = backend[a.id]
        <5>1. \A c \in InFlight(cs) : cs[c].id # a.id
          BY <1>2, <1>6, <2>1, <3>1
        <5>2. a.id \in Ids
          BY <3>2, <4>1 DEF LoadGraph
        <5>3. QED
          BY <1>6, <3>1, <5>1, <5>2 DEF Matches
      <4>4. QED
        BY <4>1, <4>2, <4>3 DEF LoadGraph
    <3>3. \A c \in InFlight(calls') : calls'[c].op # "save" /\ calls'[c].id # editor'.id
      <4>1. SUFFICES ASSUME NEW c \in InFlight(calls'), calls'[c].id = editor'.id
                     PROVE  FALSE
        BY <1>6, <2>1, <3>1
      <4>2. calls'[c].id \in Ids /\ cs[c].id # a.id /\ calls'[c].id = cs[c].id
        BY <1>4, <1>6, <2>1, <3>1, <4>1 DEF CallsInv
      <4>3. QED
        BY <3>2, <4>1, <4>2
    <3>4. QED
      BY <3>2, <3>3 DEF Shows
  <2>7. QED
    BY <1>3, <1>4, <2>2, <2>3, <2>4, <2>5, <2>6 DEF IInv
<1>11. QED
  BY <1>9, <1>10

\* The same with every call still to come back, and the lists as they are.
LEMMA ReplaceKeeps ==
  ASSUME IInv, NEW a \in Actions, NEW asked \in BOOLEAN,
         Perform(a, editor, calls, saving, asked),
         UNCHANGED <<graphs, edits>>, held' \in Actions,
         Sane => asked \/ ~ Unsaved(editor)
  PROVE  IInv'
<1>1. TypeOK /\ WorkInv /\ StoreInv /\ ShownInv /\ UNCHANGED <<backend, store>>
  BY DEF IInv, graphs
<1>2. /\ editor \in Editors /\ calls \in [1..MaxCalls -> Calls \cup {Nil}]
      /\ saving \in BOOLEAN /\ store' \in [Ids -> Graphs \cup {Nil}]
      /\ saving => Waiting(calls)
  BY <1>1 DEF TypeOK, Editors, Waiting
<1>3. /\ Sane => Safe(editor, store', calls)
      /\ Calm => Matches(store', calls) /\ Shows(editor, calls)
  BY <1>1 DEF WorkInv, StoreInv, ShownInv
<1>4. MayPerform(a, editor, calls, asked)
  BY <1>3 DEF MayPerform
<1>5. QED
  BY <1>1, <1>2, <1>4, PerformKeeps

LEMMA LoadTypes ==
  ASSUME TypeOK, NEW g \in Ids, store[g] # Nil
  PROVE  Load(g, store[g]) \in Actions
<1>1. store[g] \in Graphs
  BY DEF TypeOK
<1>2. QED
  BY <1>1 DEF Load, Nothing, Actions, Graphs

\* A guarded action runs, or is held.
LEMMA AskKeeps ==
  ASSUME IInv, NEW a \in Actions, Ask(a)
  PROVE  IInv'
<1>1. TypeOK
  BY DEF IInv
<1>2. UNCHANGED <<graphs, edits>> /\ Guard(a)
  BY DEF Ask, graphs
<1>3. CASE Dirty(editor)
  <2>1. held' = a /\ UNCHANGED <<mounted, editor, steps, saving, runAsk, calls, watch>>
    BY <1>2, <1>3 DEF Guard
  <2>2. mounted' \in BOOLEAN /\ runAsk' \in BOOLEAN
    BY <1>1, <2>1 DEF TypeOK
  <2>3. QED
    BY <1>2, <2>1, <2>2, DialogKeeps
<1>4. CASE ~ Dirty(editor)
  <2>1. Perform(a, editor, calls, saving, FALSE) /\ UNCHANGED held
    BY <1>2, <1>4 DEF Guard
  <2>2. ~ Unsaved(editor)
    BY <1>4 DEF Unsaved, Dirty, Signature
  <2>3. held' \in Actions /\ FALSE \in BOOLEAN
    BY <1>1, <2>1 DEF TypeOK
  <2>4. QED
    BY <1>2, <2>1, <2>2, <2>3, ReplaceKeeps
<1>5. QED
  BY <1>3, <1>4

LEMMA UserKeeps ==
  ASSUME IInv,
         \/ \E g \in Ids : AskLoad(g) \/ AutoLoad(g)
         \/ AskNew \/ AskClose \/ Maximize \/ Cancel \/ Discard \/ CancelRun
  PROVE  IInv'
<1> USE Constants
<1>1. TypeOK /\ WorkInv
  BY DEF IInv
<1>2. Nothing \in Actions /\ New \in Actions /\ Close \in Actions
  BY DEF Nothing, New, Close, Actions
<1>3. TRUE \in BOOLEAN /\ FALSE \in BOOLEAN /\ held \in Actions /\ runAsk \in BOOLEAN
      /\ mounted \in BOOLEAN
  BY <1>1 DEF TypeOK
<1>4. ASSUME NEW g \in Ids, AskLoad(g)
      PROVE  IInv'
  BY <1>1, <1>4, LoadTypes, AskKeeps DEF AskLoad
<1>5. ASSUME NEW g \in Ids, AutoLoad(g)
      PROVE  IInv'
  <2>1. Sane => ~ Unsaved(editor)
    BY <1>1, <1>5 DEF AutoLoad, WorkInv, Safe, Unsaved
  <2>2. Load(g, store[g]) \in Actions
    BY <1>1, <1>5, LoadTypes DEF AutoLoad
  <2>3. /\ Perform(Load(g, store[g]), editor, calls, saving, FALSE)
        /\ UNCHANGED <<graphs, edits>> /\ held' = held
    BY <1>5 DEF AutoLoad, graphs
  <2>4. QED
    BY <1>3, <2>1, <2>2, <2>3, ReplaceKeeps
<1>6. CASE AskNew \/ AskClose
  BY <1>2, <1>6, AskKeeps DEF AskNew, AskClose
<1>7. CASE Discard
  <2>1. /\ Perform(held, editor, calls, saving, TRUE)
        /\ UNCHANGED <<graphs, edits>> /\ held' = Nothing
    BY <1>7 DEF Discard, graphs
  <2>2. QED
    BY <1>2, <1>3, <2>1, ReplaceKeeps
<1>8. CASE Maximize \/ Cancel \/ CancelRun
  <2>1. UNCHANGED <<graphs, editor, steps, saving, calls, edits, watch>>
    BY <1>8 DEF Maximize, Cancel, CancelRun, dialogs
  <2>2. mounted' \in BOOLEAN /\ runAsk' \in BOOLEAN
    BY <1>3, <1>8 DEF Maximize, Cancel, CancelRun, dialogs
  <2>3. held' \in Actions
    BY <1>2, <1>3, <1>8 DEF Maximize, Cancel, CancelRun, dialogs
  <2>4. QED
    BY <2>1, <2>2, <2>3, DialogKeeps
<1>9. QED
  BY <1>4, <1>5, <1>6, <1>7, <1>8

\* The canvas shows another revision.
LEMMA TouchedKeeps ==
  ASSUME IInv, Edit \/ Retrace
  PROVE  IInv'
<1> USE Constants DEF graphs, dialogs
<1>1. TypeOK /\ CallsInv /\ AloneInv /\ WorkInv /\ IdsInv /\ StoreInv /\ ShownInv
  BY DEF IInv
<1>2. PICK rev \in Revs : editor' = [editor EXCEPT !.rev = rev]
  <2>1. CASE Edit
    <3>1. MaxIds + edits' \in Revs
      BY <1>1, <2>1, EditorAssumption DEF Edit, TypeOK, Revs
    <3>2. QED
      BY <2>1, <3>1 DEF Edit
  <2>2. CASE Retrace
    BY <1>1, <2>2 DEF Retrace, TypeOK
  <2>3. QED
    BY <2>1, <2>2
<1>3. edits' \in 0..MaxEdits
  BY <1>1, EditorAssumption DEF Edit, Retrace, TypeOK
<1>4. /\ Ready /\ Touched
      /\ UNCHANGED <<graphs, mounted, dialogs, saving, calls, lost>>
      /\ steps' = steps \cup {editor.rev}
      /\ upset' = upset \cup (IF \E c \in InFlight(calls) : Replaces(calls[c])
                                THEN {"edited"} ELSE {})
  BY DEF Edit, Retrace, Touched, Upset
<1>5. /\ editor' \in Editors /\ editor \in Editors
      /\ editor'.id = editor.id /\ editor'.on = editor.on /\ editor'.sig = editor.sig
  BY <1>1, <1>2 DEF TypeOK, Editors
<1>6. steps' \subseteq Revs /\ upset' \subseteq Kinds /\ upset \subseteq upset'
  BY <1>1, <1>4, <1>5 DEF TypeOK, Editors, Kinds
<1>7. TypeOK'
  <2>1. mounted' \in BOOLEAN /\ runAsk' \in BOOLEAN /\ lost' \in BOOLEAN /\ saving' \in BOOLEAN
    BY <1>1, <1>4 DEF TypeOK
  <2>2. QED
    BY <1>1, <1>3, <1>4, <1>5, <1>6, <2>1 DEF TypeOK, Editors, Kinds
<1>8. CallsInv'
  BY <1>1, <1>4 DEF CallsInv
<1>9. Sane' => Sane /\ ~ \E c \in InFlight(calls) : Replaces(calls[c])
  BY <1>4 DEF Sane
<1>10. AloneInv'
  BY <1>1, <1>4, <1>9 DEF AloneInv
<1>11. WorkInv'
  <2>1. editor.id = Nil => \A g \in Ids : store[g] = Nil
    BY <1>4 DEF Ready
  <2>2. QED
    BY <1>1, <1>4, <1>5, <1>9, <2>1 DEF WorkInv, Safe
<1>12. Calm' => Calm
  BY <1>6 DEF Calm
<1>13. IdsInv' /\ StoreInv'
  BY <1>1, <1>4, <1>12 DEF IdsInv, StoreInv, Matches
<1>14. ShownInv'
  BY <1>1, <1>4, <1>5, <1>12 DEF ShownInv, Shows
<1>15. QED
  BY <1>7, <1>8, <1>10, <1>11, <1>13, <1>14 DEF IInv

-----------------------------------------------------------------------------
(***************************************************************************)
(* Calls.                                                                  *)
(***************************************************************************)
\* A call goes out, about what the editor shows.
LEMMA SendKeeps ==
  ASSUME IInv, NEW op \in {"save", "copy", "delete", "enable"}, NEW id \in Ids \cup {Blank},
         NEW rev \in Revs, NEW on \in BOOLEAN, NEW proceed \in BOOLEAN,
         Send(op, id, rev, on, proceed),
         held' \in Actions, runAsk' \in BOOLEAN,
         saving' = (saving \/ op \in {"save", "copy"}),
         op \in {"enable", "delete"} => id = editor.id /\ id \in Ids,
         proceed => op = "save",
         op # "enable" => editor' = editor /\ rev = editor.rev,
         op = "enable" => editor' = [editor EXCEPT !.on = on],
         op = "save" => on = editor.on
  PROVE  IInv'
<1> USE Constants DEF graphs
<1>1. TypeOK /\ CallsInv /\ AloneInv /\ WorkInv /\ IdsInv /\ StoreInv /\ ShownInv
  BY DEF IInv
<1> DEFINE new == [op |-> op, id |-> id, rev |-> rev, on |-> on, proceed |-> proceed,
                   here |-> TRUE, reply |-> "none"]
<1>2. new \in Calls /\ new # Nil
  <2>1. "none" \in {"none", "ok", "failed"} /\ TRUE \in BOOLEAN
    OBVIOUS
  <2>2. new \in Calls
    BY <2>1, Zenon DEF Calls
  <2>3. QED
    BY <2>2
<1>3. PICK c \in 1..MaxCalls : calls[c] = Nil /\ calls' = [calls EXCEPT ![c] = new]
  <2>1. \E c \in 1..MaxCalls : calls[c] = Nil
    BY DEF Send, InFlight
  <2>2. QED
    BY <2>1 DEF Send
<1>4. /\ UNCHANGED <<backend, store, mounted, steps, edits, lost>>
      /\ upset' = upset \cup
           (IF \E d \in InFlight(calls) : calls[d].id = id \/ calls[d].op # "enable"
              THEN {"crossed"} ELSE {})
  BY DEF Send, Upset
<1>5. /\ new.op = op /\ new.id = id /\ new.rev = rev /\ new.on = on
      /\ new.proceed = proceed /\ new.here = TRUE /\ new.reply = "none"
  OBVIOUS
<1> HIDE DEF new
<1>6. /\ calls' \in [1..MaxCalls -> Calls \cup {Nil}] /\ calls'[c] = new
      /\ c \notin InFlight(calls) /\ InFlight(calls') = InFlight(calls) \cup {c}
      /\ \A d \in InFlight(calls) : calls'[d] = calls[d]
  BY <1>1, <1>2, <1>3 DEF TypeOK, InFlight
<1>7. /\ editor \in Editors /\ editor' \in Editors
      /\ editor'.id = editor.id /\ editor'.rev = editor.rev /\ editor'.sig = editor.sig
      /\ op # "enable" => editor'.on = editor.on
      /\ op = "enable" => editor'.on = on
  BY <1>1 DEF TypeOK, Editors
<1>8. upset \subseteq upset' /\ upset' \subseteq Kinds
  BY <1>1, <1>4 DEF TypeOK, Kinds
<1>9. TypeOK'
  <2>1. mounted' \in BOOLEAN /\ lost' \in BOOLEAN
    BY <1>1, <1>4 DEF TypeOK
  <2>2. saving' \in BOOLEAN
    BY <1>1 DEF TypeOK
  <2>3. saving' => \E d \in InFlight(calls') : calls'[d].here /\ calls'[d].op \in {"save", "copy"}
    <3>1. CASE op \in {"save", "copy"}
      BY <1>5, <1>6, <3>1
    <3>2. CASE saving
      BY <1>1, <1>6, <3>2 DEF TypeOK
    <3>3. QED
      BY <3>1, <3>2
  <2>4. QED
    BY <1>1, <1>4, <1>6, <1>7, <1>8, <2>1, <2>2, <2>3 DEF TypeOK, Editors, Kinds
<1>10. CallsInv'
  BY <1>1, <1>5, <1>6 DEF CallsInv
<1>11. Sane' => /\ Sane
                /\ \A d \in InFlight(calls) :
                     calls[d].op = "enable" /\ calls[d].id # id /\ ~ calls[d].proceed
  BY <1>1, <1>4 DEF Sane, CallsInv
<1>12. AloneInv'
  BY <1>1, <1>5, <1>6, <1>11 DEF AloneInv
<1>13. WorkInv'
  <2>1. Replaces(new) => editor'.rev = new.rev
    BY <1>5, <1>7 DEF Replaces
  <2>2. QED
    BY <1>1, <1>4, <1>5, <1>6, <1>7, <1>11, <2>1 DEF WorkInv, Safe, Replaces
<1>14. Calm' => Calm /\ Sane'
  BY <1>8 DEF Calm, Sane
<1>15. Calm' /\ editor.id \in Ids /\ editor.id = id =>
         backend[id] = [rev |-> editor.sig.rev, on |-> editor.on]
  BY <1>1, <1>11, <1>14 DEF ShownInv, Shows
<1>16. IdsInv'
  <2>1. [rev |-> editor.sig.rev, on |-> editor.on] \in Graphs
    BY <1>7 DEF Editors, Graphs
  <2>2. Calm' /\ op = "enable" => backend[id] # Nil
    BY <1>15, <2>1
  <2>3. QED
    BY <1>1, <1>4, <1>5, <1>6, <1>11, <1>14, <2>2 DEF IdsInv
<1>17. StoreInv'
  <2>1. SUFFICES ASSUME Calm'
                 PROVE  Matches(store, calls)'
    BY DEF StoreInv
  <2>2. Matches(store, calls)
    BY <1>1, <1>14, <2>1 DEF StoreInv
  <2>3. QED
    BY <1>4, <1>5, <1>6, <2>2 DEF Matches
<1>18. ShownInv'
  <2>1. SUFFICES ASSUME Calm'
                 PROVE  Shows(editor, calls)'
    BY DEF ShownInv
  <2>2. Shows(editor, calls)
    BY <1>1, <1>14, <2>1 DEF ShownInv
  <2>3. ASSUME editor'.id \in Ids
        PROVE  \/ \E d \in InFlight(calls') : calls'[d].id = editor'.id
               \/ backend'[editor'.id] = [rev |-> editor'.sig.rev, on |-> editor'.on]
    <3>1. CASE op = "enable"
      BY <1>5, <1>6, <1>7, <3>1
    <3>2. CASE op # "enable"
      BY <1>4, <1>6, <1>7, <2>2, <2>3, <3>2 DEF Shows
    <3>3. QED
      BY <3>1, <3>2
  <2>4. ASSUME NEW d \in InFlight(calls')
        PROVE  /\ calls'[d].op = "save" => calls'[d].on = editor'.on
               /\ calls'[d].op = "enable" /\ calls'[d].id = editor'.id =>
                    calls'[d].on = editor'.on /\ backend'[editor'.id].rev = editor'.sig.rev
    <3>1. CASE d = c
      <4>1. op = "save" => on = editor'.on
        BY <1>7
      <4>2. op = "enable" => on = editor'.on /\ backend[id].rev = editor'.sig.rev
        BY <1>7, <1>15, <2>1
      <4>3. QED
        BY <1>4, <1>5, <1>6, <1>7, <3>1, <4>1, <4>2
    <3>2. CASE d # c
      <4>1. d \in InFlight(calls) /\ calls'[d] = calls[d]
            /\ calls[d].op = "enable" /\ calls[d].id # id
        BY <1>6, <1>11, <1>14, <2>1, <2>4, <3>2
      <4>2. calls[d].id = editor.id => op # "enable"
        BY <4>1
      <4>3. QED
        BY <1>4, <1>7, <2>2, <4>1, <4>2 DEF Shows
    <3>3. QED
      BY <3>1, <3>2
  <2>5. QED
    BY <2>3, <2>4 DEF Shows
<1>19. QED
  BY <1>9, <1>10, <1>12, <1>13, <1>16, <1>17, <1>18 DEF IInv

LEMMA RequestsKeep ==
  ASSUME IInv,
         \/ Save \/ SaveAndContinue \/ RequestRun \/ SaveAndRun
         \/ HandleDuplicateGraph \/ HandleToggleEnabled \/ HandleDelete
  PROVE  IInv'
<1> USE Constants
<1>1. TypeOK /\ editor \in Editors
  BY DEF IInv, TypeOK, Editors
<1>2. /\ editor.id \in Ids \cup {Blank, Nil} /\ editor.rev \in Revs
      /\ editor.on \in BOOLEAN /\ (~ editor.on) \in BOOLEAN
      /\ held \in Actions /\ runAsk \in BOOLEAN /\ saving \in BOOLEAN /\ mounted \in BOOLEAN
      /\ TRUE \in BOOLEAN /\ FALSE \in BOOLEAN
  BY <1>1 DEF TypeOK, Editors
<1>3. ASSUME NEW proceed \in BOOLEAN, HandleSave(proceed),
             held' \in Actions, runAsk' \in BOOLEAN
      PROVE  IInv'
  <2> DEFINE id == IF editor.id \in Ids THEN editor.id ELSE Blank
  <2>1. /\ Send("save", id, editor.rev, editor.on, proceed) /\ editor' = editor
        /\ saving' = TRUE
    BY <1>3 DEF HandleSave
  <2>2. id \in Ids \cup {Blank}
    OBVIOUS
  <2>3. saving' = (saving \/ "save" \in {"save", "copy"})
    BY <2>1
  <2> HIDE DEF id
  <2>4. QED
    BY <1>2, <1>3, <2>1, <2>2, <2>3, SendKeeps
<1>4. CASE Save \/ SaveAndContinue
  BY <1>2, <1>3, <1>4 DEF Save, SaveAndContinue, dialogs
<1>5. CASE RequestRun
  <2>1. CASE Dirty(editor)
    BY <1>2, <1>5, <2>1, DialogKeeps DEF RequestRun
  <2>2. CASE ~ Dirty(editor)
    BY <1>2, <1>3, <1>5, <2>2 DEF RequestRun, dialogs
  <2>3. QED
    BY <2>1, <2>2
<1>6. CASE SaveAndRun
  BY <1>2, <1>3, <1>6 DEF SaveAndRun
<1>7. CASE HandleDuplicateGraph
  <2>1. /\ Send("copy", Blank, editor.rev, FALSE, FALSE) /\ editor' = editor
        /\ held' = held /\ runAsk' = runAsk
    BY <1>7 DEF HandleDuplicateGraph, dialogs
  <2>2. saving' = (saving \/ "copy" \in {"save", "copy"})
    BY <1>7 DEF HandleDuplicateGraph
  <2>3. QED
    BY <1>2, <2>1, <2>2, SendKeeps
<1>8. CASE HandleToggleEnabled
  <2> DEFINE flip == ~ editor.on
  <2>1. /\ Send("enable", editor.id, 0, flip, FALSE)
        /\ editor' = [editor EXCEPT !.on = flip] /\ editor.id \in Ids
    BY <1>2, <1>8 DEF HandleToggleEnabled
  <2>2. saving' = (saving \/ "enable" \in {"save", "copy"}) /\ held' = held /\ runAsk' = runAsk
    BY <1>2, <1>8 DEF HandleToggleEnabled, dialogs
  <2>3. flip \in BOOLEAN
    OBVIOUS
  <2> HIDE DEF flip
  <2>4. QED
    BY <1>2, <2>1, <2>2, <2>3, SendKeeps
<1>9. CASE HandleDelete
  <2>1. /\ Send("delete", editor.id, editor.rev, FALSE, FALSE) /\ editor' = editor
        /\ editor.id \in Ids /\ held' = held /\ runAsk' = runAsk
    BY <1>9 DEF HandleDelete, dialogs
  <2>2. saving' = (saving \/ "delete" \in {"save", "copy"})
    BY <1>2, <1>9 DEF HandleDelete
  <2>3. QED
    BY <1>2, <2>1, <2>2, SendKeeps
<1>10. QED
  BY <1>4, <1>5, <1>6, <1>7, <1>8, <1>9

\* The backend takes a call, and its write works or fails.
LEMMA ServeKeeps ==
  ASSUME IInv, NEW c \in 1..MaxCalls, Serve(c)
  PROVE  IInv'
<1> USE Constants
<1>1. TypeOK /\ CallsInv /\ AloneInv /\ WorkInv /\ IdsInv /\ StoreInv /\ ShownInv
  BY DEF IInv
<1>2. PICK id \in Ids :
        /\ IF calls[c].id = Blank THEN backend[id] = Nil ELSE id = calls[c].id
        /\ CASE calls[c].op \in {"save", "copy"} -> SaveGraph(id, calls[c])
             [] calls[c].op = "delete" -> DeleteGraph(id)
             [] calls[c].op = "enable" -> SetGraphEnabled(id, calls[c].on)
        /\ \/ /\ calls' = [calls EXCEPT ![c].reply = "ok", ![c].id = id]
              /\ UNCHANGED upset
           \/ /\ calls' = [calls EXCEPT ![c].reply = "failed"]
              /\ Upset({"failed"})
  BY DEF Serve
<1> DEFINE call == calls[c]
           new == calls'[c]
<1>3. /\ c \in InFlight(calls) /\ call.reply = "none"
      /\ UNCHANGED <<store, mounted, editor, steps, held, runAsk, saving, edits, lost>>
  BY DEF Serve, InFlight, dialogs
<1>4. /\ call \in Calls /\ call.op \in {"save", "copy", "delete", "enable"}
      /\ call.id \in Ids \cup {Blank} /\ call.rev \in Revs /\ call.on \in BOOLEAN
  BY <1>1, <1>3, CallTypes
<1>5. /\ new.op = call.op /\ new.rev = call.rev /\ new.on = call.on
      /\ new.proceed = call.proceed /\ new.here = call.here
      /\ \/ new.reply = "ok" /\ new.id = id /\ upset' = upset
         \/ new.reply = "failed" /\ new.id = call.id /\ upset' = upset \cup {"failed"}
      /\ new \in Calls
      /\ \A d \in 1..MaxCalls : d # c => calls'[d] = calls[d]
      /\ calls' \in [1..MaxCalls -> Calls \cup {Nil}]
  <2>1. CASE calls' = [calls EXCEPT ![c].reply = "ok", ![c].id = id] /\ UNCHANGED upset
    <3>1. calls' = [calls EXCEPT ![c] = [call EXCEPT !.reply = "ok", !.id = id]]
      BY <1>1, <1>4, <2>1 DEF TypeOK
    <3>2. [call EXCEPT !.reply = "ok", !.id = id] \in Calls
      BY <1>4 DEF Calls
    <3>3. QED
      BY <1>1, <1>4, <2>1, <3>1, <3>2 DEF TypeOK, Calls
  <2>2. CASE calls' = [calls EXCEPT ![c].reply = "failed"] /\ Upset({"failed"})
    <3>1. calls' = [calls EXCEPT ![c] = [call EXCEPT !.reply = "failed"]]
      BY <1>1, <1>4, <2>2 DEF TypeOK
    <3>2. [call EXCEPT !.reply = "failed"] \in Calls
      BY <1>4 DEF Calls
    <3>3. QED
      BY <1>1, <1>4, <2>2, <3>1, <3>2 DEF TypeOK, Calls, Upset
  <2>3. QED
    BY <1>2, <2>1, <2>2
<1>6. /\ call.id = Blank => backend[id] = Nil
      /\ call.id # Blank => id = call.id
      /\ call.op \in {"save", "copy"} =>
           backend' = [backend EXCEPT ![id] = [rev |-> call.rev, on |-> call.on]]
      /\ call.op = "delete" => backend' = [backend EXCEPT ![id] = Nil]
      /\ call.op = "enable" =>
           backend' = IF backend[id] = Nil THEN backend
                      ELSE [backend EXCEPT ![id] = [backend[id] EXCEPT !.on = call.on]]
  <2>1. call.op = "enable" => backend' =
          IF backend[id] = Nil THEN backend ELSE [backend EXCEPT ![id].on = call.on]
    BY <1>2, <1>4 DEF SetGraphEnabled
  <2>2. call.op = "enable" => backend' =
          IF backend[id] = Nil THEN backend
          ELSE [backend EXCEPT ![id] = [backend[id] EXCEPT !.on = call.on]]
    BY <2>1
  <2>3. QED
    BY <1>2, <1>4, <2>2 DEF SaveGraph, DeleteGraph
<1>7. /\ InFlight(calls') = InFlight(calls)
      /\ \A d \in InFlight(calls) : d # c => calls'[d] = calls[d] /\ d \in 1..MaxCalls
  BY <1>3, <1>5 DEF InFlight
<1>8. backend[id] # Nil => backend[id] \in Graphs
  BY <1>1 DEF TypeOK
<1>9. /\ backend' \in [Ids -> Graphs \cup {Nil}]
      /\ \A g \in Ids : g # id => backend'[g] = backend[g]
      /\ call.op \in {"save", "copy"} => backend'[id] = [rev |-> call.rev, on |-> call.on]
      /\ call.op = "delete" => backend'[id] = Nil
      /\ call.op = "enable" /\ backend[id] # Nil =>
           backend'[id] = [backend[id] EXCEPT !.on = call.on]
  <2>1. backend[id] # Nil => [backend[id] EXCEPT !.on = call.on] \in Graphs
    BY <1>4, <1>8 DEF Graphs
  <2>2. [rev |-> call.rev, on |-> call.on] \in Graphs
    BY <1>4 DEF Graphs
  <2>3. CASE call.op \in {"save", "copy"}
    BY <1>1, <1>6, <2>2, <2>3 DEF TypeOK
  <2>4. CASE call.op = "delete"
    BY <1>1, <1>6, <2>4 DEF TypeOK
  <2>5. CASE call.op = "enable"
    BY <1>1, <1>6, <2>1, <2>5, SMTT(20) DEF TypeOK
  <2>6. QED
    BY <1>4, <2>3, <2>4, <2>5
<1>10. call.op = "enable" => \A g \in Ids : backend[g] # Nil =>
         backend'[g] # Nil /\ backend'[g].rev = backend[g].rev
  <2>1. ASSUME call.op = "enable", backend[id] # Nil
        PROVE  backend'[id] # Nil /\ backend'[id].rev = backend[id].rev
    <3>1. backend[id] \in Graphs /\ [backend[id] EXCEPT !.on = call.on] \in Graphs
          /\ [backend[id] EXCEPT !.on = call.on].rev = backend[id].rev
      BY <1>4, <1>8, <2>1 DEF Graphs
    <3>2. QED
      BY <1>9, <2>1, <3>1
  <2>2. QED
    BY <1>9, <2>1
<1> HIDE DEF call, new
<1>11. TypeOK'
  <2>1. mounted' \in BOOLEAN /\ runAsk' \in BOOLEAN /\ lost' \in BOOLEAN /\ saving' \in BOOLEAN
    BY <1>1, <1>3 DEF TypeOK
  <2>2. \A d \in InFlight(calls) : calls'[d].here = calls[d].here /\ calls'[d].op = calls[d].op
    BY <1>5, <1>7 DEF call, new
  <2>3. saving' => \E d \in InFlight(calls') : calls'[d].here /\ calls'[d].op \in {"save", "copy"}
    BY <1>1, <1>3, <1>7, <2>2 DEF TypeOK
  <2>4. upset' \subseteq Kinds
    BY <1>1, <1>5 DEF TypeOK, Kinds
  <2>5. QED
    BY <1>1, <1>3, <1>5, <1>9, <2>1, <2>3, <2>4 DEF TypeOK, Kinds
<1>12. CallsInv'
  BY <1>1, <1>3, <1>5, <1>7 DEF CallsInv, call, new
<1>13. Sane' => Sane
  BY <1>5 DEF Sane
<1>14. AloneInv'
  BY <1>1, <1>5, <1>7, <1>13 DEF AloneInv, call, new
<1>15. WorkInv'
  <2>1. SUFFICES ASSUME Sane'
                 PROVE  WorkInv'
    BY DEF WorkInv
  <2>2. ~ lost' /\ Safe(editor, store, calls)'
    BY <1>1, <1>3, <1>5, <1>7, <1>13, <2>1 DEF WorkInv, Safe, Replaces, call, new
  <2>3. ASSUME NEW d \in InFlight(calls'), calls'[d].op \in {"save", "copy"},
               calls'[d].reply = "ok"
        PROVE  /\ calls'[d].id \in Ids /\ backend'[calls'[d].id] # Nil
               /\ backend'[calls'[d].id].rev = calls'[d].rev
    <3>1. CASE d = c
      <4>1. calls'[d].id = id /\ call.op \in {"save", "copy"}
        BY <1>5, <2>3, <3>1 DEF new
      <4>2. backend'[id] = [rev |-> call.rev, on |-> call.on]
            /\ [rev |-> call.rev, on |-> call.on] \in Graphs
        BY <1>4, <1>9, <4>1
      <4>3. QED
        BY <1>5, <3>1, <4>1, <4>2 DEF new
    <3>2. CASE d # c
      <4>1. d \in InFlight(calls) /\ calls'[d] = calls[d] /\ call.op = "enable"
        BY <1>1, <1>3, <1>4, <1>7, <1>13, <2>1, <2>3, <3>2 DEF AloneInv, call
      <4>2. /\ calls[d].id \in Ids /\ backend[calls[d].id] # Nil
            /\ backend[calls[d].id].rev = calls[d].rev
        BY <1>1, <1>13, <2>1, <2>3, <4>1 DEF WorkInv
      <4>3. QED
        BY <1>10, <4>1, <4>2
    <3>3. QED
      BY <3>1, <3>2
  <2>4. QED
    BY <2>2, <2>3 DEF WorkInv
<1>16. Calm' => Calm /\ Sane' /\ Sane /\ new.reply = "ok" /\ new.id = id
  BY <1>5 DEF Calm, Sane
<1>17. ASSUME Calm', NEW d \in InFlight(calls), d # c
       PROVE  calls[d].id # id
  <2>1. CASE call.id = Blank
    <3>1. backend[id] = Nil /\ call.op # "enable"
      BY <1>1, <1>3, <1>6, <2>1 DEF CallsInv, call
    <3>2. calls[d].op = "enable"
      BY <1>1, <1>3, <1>16, <1>17, <3>1 DEF AloneInv, call
    <3>3. QED
      BY <1>1, <1>16, <1>17, <3>1, <3>2 DEF IdsInv
  <2>2. CASE call.id # Blank
    BY <1>1, <1>3, <1>6, <1>16, <1>17, <2>2 DEF IdsInv, call
  <2>3. QED
    BY <2>1, <2>2
<1>18. Calm' /\ call.op = "enable" => backend[id] # Nil /\ id = call.id
  BY <1>1, <1>3, <1>6, <1>16 DEF IdsInv, CallsInv, call
<1>19. IdsInv'
  <2>1. SUFFICES ASSUME Calm'
                 PROVE  IdsInv'
    BY DEF IdsInv
  <2>2. ASSUME NEW d \in InFlight(calls'), NEW e \in InFlight(calls'), d # e
        PROVE  calls'[d].id # calls'[e].id
    <3>1. \A x \in InFlight(calls) \ {c} : calls'[x] = calls[x] /\ calls[x].id # id
      BY <1>7, <1>17, <2>1
    <3>2. QED
      BY <1>1, <1>7, <1>16, <2>1, <2>2, <3>1 DEF IdsInv, new
  <2>3. ASSUME NEW d \in InFlight(calls'), calls'[d].op = "enable"
        PROVE  backend'[calls'[d].id] # Nil
    <3>1. CASE d = c
      BY <1>5, <1>10, <1>16, <1>18, <2>1, <2>3, <3>1 DEF new
    <3>2. CASE d # c
      <4>1. d \in InFlight(calls) /\ calls'[d] = calls[d] /\ calls[d].id # id
            /\ calls[d].id \in Ids
        BY <1>1, <1>7, <1>17, <2>1, <2>3, <3>2 DEF CallsInv
      <4>2. QED
        BY <1>1, <1>9, <1>16, <2>1, <2>3, <4>1 DEF IdsInv
    <3>3. QED
      BY <3>1, <3>2
  <2>4. QED
    BY <2>2, <2>3 DEF IdsInv
<1>20. StoreInv'
  <2>1. SUFFICES ASSUME Calm'
                 PROVE  Matches(store, calls)'
    BY DEF StoreInv
  <2>2. Matches(store, calls) /\ store' = store
    BY <1>1, <1>3, <1>16, <2>1 DEF StoreInv
  <2>3. ASSUME NEW g \in Ids,
               \A d \in InFlight(calls') : calls'[d].reply = "none" \/ calls'[d].id # g
        PROVE  store[g] = backend'[g]
    <3>1. g # id
      BY <1>3, <1>7, <1>16, <2>1, <2>3 DEF new
    <3>2. \A d \in InFlight(calls) : calls[d].reply = "none" \/ calls[d].id # g
      BY <1>3, <1>7, <2>3 DEF call
    <3>3. QED
      BY <1>9, <2>2, <2>3, <3>1, <3>2 DEF Matches
  <2>4. call.op = "enable" => store[id] = backend[id]
    <3>1. ASSUME call.op = "enable"
          PROVE  \A d \in InFlight(calls) : calls[d].reply = "none" \/ calls[d].id # id
      BY <1>3, <1>17, <2>1 DEF call
    <3>2. QED
      BY <2>2, <3>1 DEF Matches
  <2>5. ASSUME NEW d \in InFlight(calls'), calls'[d].reply # "none"
        PROVE  /\ calls'[d].reply = "ok" /\ calls'[d].id \in Ids
               /\ calls'[d].op = "enable" => store[calls'[d].id] # Nil
               /\ backend'[calls'[d].id] = Result(store, calls'[d])
    <3>1. CASE d = c
      <4>1. calls'[d] = new /\ new.reply = "ok" /\ new.id = id
        BY <1>16, <2>1, <3>1 DEF new
      <4>2. new.op = "enable" => store[id] # Nil
        BY <1>5, <1>18, <2>1, <2>4
      <4>3. backend'[id] = Result(store, new)
        <5>1. CASE call.op = "enable"
          BY <1>5, <1>9, <1>18, <2>1, <2>4, <4>1, <5>1 DEF Result
        <5>2. CASE call.op # "enable"
          BY <1>4, <1>5, <1>9, <5>2 DEF Result
        <5>3. QED
          BY <5>1, <5>2
      <4>4. QED
        BY <4>1, <4>2, <4>3
    <3>2. CASE d # c
      <4>1. d \in InFlight(calls) /\ calls'[d] = calls[d] /\ calls[d].id # id
        BY <1>7, <1>17, <2>1, <2>5, <3>2
      <4>2. QED
        BY <1>9, <2>2, <2>5, <4>1 DEF Matches
    <3>3. QED
      BY <3>1, <3>2
  <2>6. QED
    BY <2>2, <2>3, <2>5 DEF Matches
<1>21. ShownInv'
  <2>1. SUFFICES ASSUME Calm'
                 PROVE  Shows(editor, calls)'
    BY DEF ShownInv
  <2>2. Shows(editor, calls) /\ editor' = editor
    BY <1>1, <1>3, <1>16, <2>1 DEF ShownInv
  <2>3. editor \in Editors
    BY <1>1 DEF TypeOK, Editors
  <2>4. ASSUME editor.id \in Ids
        PROVE  \/ \E d \in InFlight(calls') : calls'[d].id = editor.id
               \/ backend'[editor.id] = [rev |-> editor.sig.rev, on |-> editor.on]
    <3>1. CASE \E d \in InFlight(calls) : calls[d].id = editor.id
      <4>1. PICK d \in InFlight(calls) : calls[d].id = editor.id
        BY <3>1
      <4>2. calls'[d].id = editor.id
        BY <1>6, <1>7, <1>16, <2>1, <2>4, <4>1 DEF call, new
      <4>3. QED
        BY <1>7, <4>1, <4>2
    <3>2. CASE ~ \E d \in InFlight(calls) : calls[d].id = editor.id
      <4>1. backend[editor.id] = [rev |-> editor.sig.rev, on |-> editor.on]
        BY <2>2, <2>4, <3>2 DEF Shows
      <4>2. [rev |-> editor.sig.rev, on |-> editor.on] \in Graphs
        BY <2>3 DEF Editors, Graphs
      <4>3. editor.id # id
        BY <1>3, <1>6, <3>2, <4>1, <4>2 DEF call
      <4>4. QED
        BY <1>9, <2>4, <4>1, <4>3
    <3>3. QED
      BY <3>1, <3>2
  <2>5. ASSUME NEW d \in InFlight(calls')
        PROVE  /\ calls'[d].op = "save" => calls'[d].on = editor.on
               /\ calls'[d].op = "enable" /\ calls'[d].id = editor.id =>
                    calls'[d].on = editor.on /\ backend'[editor.id].rev = editor.sig.rev
    <3>1. calls'[d].op = calls[d].op /\ calls'[d].on = calls[d].on /\ d \in InFlight(calls)
      BY <1>5, <1>7 DEF call, new
    <3>2. ASSUME calls'[d].op = "enable", calls'[d].id = editor.id
          PROVE  calls'[d].on = editor.on /\ backend'[editor.id].rev = editor.sig.rev
      <4>1. calls[d].id = editor.id
        BY <1>5, <1>7, <1>16, <1>18, <2>1, <3>1, <3>2 DEF call, new
      <4>2. calls[d].on = editor.on /\ backend[editor.id].rev = editor.sig.rev
            /\ editor.id \in Ids
        BY <1>1, <2>2, <3>1, <3>2, <4>1 DEF Shows, CallsInv
      <4>3. CASE d = c
        BY <1>10, <1>18, <2>1, <3>1, <3>2, <4>1, <4>2, <4>3 DEF call
      <4>4. CASE d # c
        BY <1>9, <1>17, <2>1, <3>1, <4>1, <4>2, <4>4
      <4>5. QED
        BY <4>3, <4>4
    <3>3. QED
      BY <2>2, <3>1, <3>2 DEF Shows
  <2>6. QED
    BY <2>2, <2>4, <2>5 DEF Shows
<1>22. QED
  BY <1>11, <1>12, <1>14, <1>15, <1>19, <1>20, <1>21 DEF IInv

\* What the store holds once the call c is answered, and the calls that are left.
LEMMA Answered ==
  ASSUME IInv, NEW c \in InFlight(calls), calls[c].reply # "none"
  PROVE  LET call == calls[c]
             rest == [calls EXCEPT ![c] = Nil]
             list == Stored(call)
         IN  /\ rest \in [1..MaxCalls -> Calls \cup {Nil}]
             /\ InFlight(rest) = InFlight(calls) \ {c}
             /\ \A d \in InFlight(rest) : rest[d] = calls[d]
             /\ Settled(call) \in BOOLEAN /\ (Settled(call) => Waiting(rest))
             /\ list \in [Ids -> Graphs \cup {Nil}]
             /\ call.op \notin {"save", "copy"} \/ call.reply = "failed" =>
                  \A g \in Ids : store[g] = Nil => list[g] = Nil
             /\ Calm => Matches(list, rest)
             /\ Calm /\ call.op = "enable" => Shows(editor, rest)
<1> USE Constants
<1>1. TypeOK /\ CallsInv /\ AloneInv /\ WorkInv /\ IdsInv /\ StoreInv /\ ShownInv
  BY DEF IInv
<1> DEFINE call == calls[c]
           rest == [calls EXCEPT ![c] = Nil]
           list == Stored(call)
<1>2. /\ c \in 1..MaxCalls /\ call \in Calls
      /\ call.op \in {"save", "copy", "delete", "enable"}
      /\ call.id \in Ids \cup {Blank} /\ call.rev \in Revs
      /\ call.on \in BOOLEAN /\ call.reply \in {"ok", "failed"}
      /\ call.op \in {"enable", "delete"} => call.id \in Ids
  BY <1>1, CallTypes DEF CallsInv
<1>3. /\ rest \in [1..MaxCalls -> Calls \cup {Nil}]
      /\ InFlight(rest) = InFlight(calls) \ {c}
      /\ \A d \in InFlight(rest) : rest[d] = calls[d]
  BY <1>1, <1>2 DEF TypeOK, InFlight
<1> HIDE DEF rest
<1>4. Settled(call) \in BOOLEAN /\ (Settled(call) => Waiting(rest))
  <2>1. Settled(call) \in BOOLEAN
    BY <1>1 DEF TypeOK, Settled
  <2>2. ASSUME Settled(call)
        PROVE  Waiting(rest)
    <3>1. saving /\ call.op \notin {"save", "copy"}
      BY <2>2 DEF Settled
    <3>2. PICK d \in InFlight(calls) : calls[d].here /\ calls[d].op \in {"save", "copy"}
      BY <1>1, <3>1 DEF TypeOK
    <3>3. QED
      BY <1>3, <3>1, <3>2 DEF Waiting
  <2>3. QED
    BY <2>1, <2>2
<1>5. [rev |-> call.rev, on |-> call.on] \in Graphs
  BY <1>2 DEF Graphs
<1>6. /\ call.reply = "failed" => list = store
      /\ call.reply = "ok" /\ call.op \in {"save", "copy"} =>
           list = [store EXCEPT ![call.id] = [rev |-> call.rev, on |-> call.on]]
      /\ call.reply = "ok" /\ call.op = "delete" => list = [store EXCEPT ![call.id] = Nil]
      /\ call.reply = "ok" /\ call.op = "enable" =>
           list = IF store[call.id] = Nil THEN store
                  ELSE [store EXCEPT ![call.id] = [store[call.id] EXCEPT !.on = call.on]]
  <2>1. call.reply = "ok" /\ call.op = "enable" =>
          list = IF store[call.id] = Nil THEN store
                 ELSE [store EXCEPT ![call.id].on = call.on]
    BY <1>2 DEF Stored
  <2>2. call.reply = "ok" /\ call.op = "enable" =>
          list = IF store[call.id] = Nil THEN store
                 ELSE [store EXCEPT ![call.id] = [store[call.id] EXCEPT !.on = call.on]]
    BY <2>1
  <2>3. QED
    BY <1>2, <2>2 DEF Stored
<1> HIDE DEF list
<1>7. ASSUME call.op = "enable", store[call.id] # Nil
      PROVE  store[call.id] \in Graphs /\ [store[call.id] EXCEPT !.on = call.on] \in Graphs
  <2>1. store[call.id] \in Graphs
    BY <1>1, <1>2, <1>7 DEF TypeOK
  <2>2. QED
    BY <1>2, <2>1 DEF Graphs
<1>8. /\ list \in [Ids -> Graphs \cup {Nil}]
      /\ \A g \in Ids : g # call.id => list[g] = store[g]
      /\ call.reply = "ok" /\ call.op \in {"save", "copy"} /\ call.id \in Ids =>
           list[call.id] = [rev |-> call.rev, on |-> call.on]
      /\ call.reply = "ok" /\ call.op = "delete" => list[call.id] = Nil
      /\ call.reply = "ok" /\ call.op = "enable" /\ store[call.id] # Nil =>
           list[call.id] = [store[call.id] EXCEPT !.on = call.on]
  <2>1. CASE call.reply = "failed"
    BY <1>1, <1>6, <2>1 DEF TypeOK
  <2>2. CASE call.reply = "ok" /\ call.op \in {"save", "copy"}
    <3> DEFINE value == [rev |-> call.rev, on |-> call.on]
    <3>1. list = [store EXCEPT ![call.id] = value] /\ value \in Graphs
          /\ store \in [Ids -> Graphs \cup {Nil}]
      BY <1>1, <1>5, <1>6, <2>2 DEF TypeOK
    <3> HIDE DEF value
    <3>2. QED
      BY <2>2, <3>1 DEF value
  <2>3. CASE call.reply = "ok" /\ call.op = "delete"
    <3>1. store \in [Ids -> Graphs \cup {Nil}] /\ list = [store EXCEPT ![call.id] = Nil]
      BY <1>1, <1>6, <2>3 DEF TypeOK
    <3>2. QED
      BY <1>2, <2>3, <3>1
  <2>4. CASE call.reply = "ok" /\ call.op = "enable"
    <3>1. store \in [Ids -> Graphs \cup {Nil}] /\ call.id \in Ids
      BY <1>1, <1>2, <2>4 DEF TypeOK
    <3>2. CASE store[call.id] = Nil
      <4>1. list = store
        BY <1>6, <2>4, <3>2
      <4>2. QED
        BY <2>4, <3>1, <3>2, <4>1
    <3>3. CASE store[call.id] # Nil
      <4> DEFINE value == [store[call.id] EXCEPT !.on = call.on]
      <4>1. list = [store EXCEPT ![call.id] = value] /\ value \in Graphs
        BY <1>6, <1>7, <2>4, <3>3
      <4> HIDE DEF value
      <4>2. QED
        BY <2>4, <3>1, <3>3, <4>1 DEF value
    <3>4. QED
      BY <3>2, <3>3
  <2>5. QED
    BY <1>2, <2>1, <2>2, <2>3, <2>4
<1>9. call.op \notin {"save", "copy"} \/ call.reply = "failed" =>
        \A g \in Ids : store[g] = Nil => list[g] = Nil
  <2>1. CASE call.reply = "failed"
    BY <1>6, <2>1
  <2>2. CASE call.reply = "ok" /\ call.op = "delete"
    BY <1>8, <2>2
  <2>3. CASE call.reply = "ok" /\ call.op = "enable"
    BY <1>6, <1>8, <2>3
  <2>4. QED
    BY <1>2, <2>1, <2>2, <2>3
<1>10. Calm => Matches(list, rest)
  <2>1. SUFFICES ASSUME Calm
                 PROVE  Matches(list, rest)
    OBVIOUS
  <2>2. Matches(store, calls) /\ Sane
    BY <1>1, <2>1 DEF StoreInv, Calm, Sane
  <2>3. /\ call.reply = "ok" /\ call.id \in Ids
        /\ call.op = "enable" => store[call.id] # Nil
        /\ backend[call.id] = Result(store, call)
    BY <1>2, <2>2 DEF Matches
  <2>4. list[call.id] = backend[call.id]
    <3>1. CASE call.op = "enable"
      BY <1>8, <2>3, <3>1 DEF Result
    <3>2. CASE call.op # "enable"
      BY <1>2, <1>8, <2>3, <3>2 DEF Result
    <3>3. QED
      BY <3>1, <3>2
  <2>5. ASSUME NEW g \in Ids,
               \A d \in InFlight(rest) : rest[d].reply = "none" \/ rest[d].id # g
        PROVE  list[g] = backend[g]
    <3>1. CASE g = call.id
      BY <2>4, <3>1
    <3>2. CASE g # call.id
      <4>1. \A d \in InFlight(calls) : calls[d].reply = "none" \/ calls[d].id # g
        BY <1>3, <2>5, <3>2
      <4>2. QED
        BY <1>8, <2>2, <2>5, <3>2, <4>1 DEF Matches
    <3>3. QED
      BY <3>1, <3>2
  <2>6. ASSUME NEW d \in InFlight(rest), rest[d].reply # "none"
        PROVE  /\ rest[d].reply = "ok" /\ rest[d].id \in Ids
               /\ rest[d].op = "enable" => list[rest[d].id] # Nil
               /\ backend[rest[d].id] = Result(list, rest[d])
    <3>1. d \in InFlight(calls) /\ rest[d] = calls[d] /\ d # c
      BY <1>3, <2>6
    <3>2. calls[d].id # call.id
      BY <1>1, <2>1, <3>1 DEF IdsInv
    <3>3. /\ calls[d].reply = "ok" /\ calls[d].id \in Ids
          /\ calls[d].op = "enable" => store[calls[d].id] # Nil
          /\ backend[calls[d].id] = Result(store, calls[d])
      BY <2>2, <2>6, <3>1 DEF Matches
    <3>4. list[calls[d].id] = store[calls[d].id]
      BY <1>8, <3>2, <3>3
    <3>5. QED
      BY <3>1, <3>3, <3>4 DEF Result
  <2>7. QED
    BY <2>5, <2>6 DEF Matches
<1>11. Calm /\ call.op = "enable" => Shows(editor, rest)
  <2>1. SUFFICES ASSUME Calm, call.op = "enable"
                 PROVE  Shows(editor, rest)
    OBVIOUS
  <2>2. Shows(editor, calls) /\ Matches(store, calls) /\ editor \in Editors
    BY <1>1, <2>1 DEF ShownInv, StoreInv, TypeOK, Editors
  <2>3. ASSUME editor.id = call.id
        PROVE  backend[editor.id] = [rev |-> editor.sig.rev, on |-> editor.on]
    <3>1. call.on = editor.on /\ backend[call.id].rev = editor.sig.rev
      BY <2>1, <2>2, <2>3 DEF Shows
    <3>2. store[call.id] # Nil /\ backend[call.id] = [store[call.id] EXCEPT !.on = call.on]
      BY <1>2, <2>1, <2>2 DEF Matches, Result
    <3>3. store[call.id] \in Graphs
      BY <1>7, <2>1, <3>2
    <3>4. backend[call.id] = [rev |-> backend[call.id].rev, on |-> call.on]
      BY <3>2, <3>3 DEF Graphs
    <3>5. QED
      BY <2>3, <3>1, <3>4
  <2>4. QED
    BY <1>3, <2>2, <2>3 DEF Shows
<1>12. QED
  BY <1>3, <1>4, <1>8, <1>9, <1>10, <1>11 DEF rest, list

\* A call comes back to the editor that asked for it, or to nobody.
LEMMA RepliesKeep ==
  ASSUME IInv, NEW c \in 1..MaxCalls, Replies(c)
  PROVE  IInv'
<1> USE Constants
<1>1. TypeOK /\ CallsInv /\ AloneInv /\ WorkInv /\ IdsInv /\ StoreInv /\ ShownInv
  BY DEF IInv
<1> DEFINE call == calls[c]
           rest == [calls EXCEPT ![c] = Nil]
<1>2. /\ c \in InFlight(calls) /\ call.reply # "none"
      /\ UNCHANGED <<backend, edits>> /\ store' = Stored(call)
      /\ call.here => Answer(call, rest)
      /\ ~ call.here => /\ calls' = rest
                        /\ UNCHANGED <<mounted, editor, steps, dialogs, saving, watch>>
  BY DEF Replies, InFlight
<1>3. /\ rest \in [1..MaxCalls -> Calls \cup {Nil}]
      /\ InFlight(rest) = InFlight(calls) \ {c}
      /\ \A d \in InFlight(rest) : rest[d] = calls[d]
      /\ Settled(call) \in BOOLEAN /\ (Settled(call) => Waiting(rest))
      /\ store' \in [Ids -> Graphs \cup {Nil}]
      /\ call.op \notin {"save", "copy"} \/ call.reply = "failed" =>
           \A g \in Ids : store[g] = Nil => store'[g] = Nil
      /\ Calm => Matches(store', rest)
      /\ Calm /\ call.op = "enable" => Shows(editor, rest)
  BY <1>2, Answered
<1>4. /\ call \in Calls /\ call.op \in {"save", "copy", "delete", "enable"}
      /\ call.id \in Ids \cup {Blank} /\ call.rev \in Revs
      /\ call.on \in BOOLEAN /\ call.reply \in {"ok", "failed"} /\ call.proceed \in BOOLEAN
      /\ call.here \in BOOLEAN
  BY <1>1, <1>2, CallTypes
<1>5. Calm => Sane /\ call.reply = "ok" /\ call.id \in Ids
  BY <1>1, <1>2 DEF Calm, Sane, StoreInv, Matches
<1>6. Sane /\ call.op # "enable" =>
        /\ call.here
        /\ \A d \in InFlight(rest) : rest[d].op = "enable" /\ ~ Replaces(rest[d])
  BY <1>1, <1>2, <1>3 DEF AloneInv, CallsInv, Replaces
<1>7. ASSUME Sane, call.op \notin {"save", "copy"} \/ call.reply = "failed"
      PROVE  Safe(editor, store', rest)
  BY <1>1, <1>3, <1>7 DEF WorkInv, Safe
<1>8. editor \in Editors /\ held \in Actions /\ Nothing \in Actions /\ New \in Actions
      /\ TRUE \in BOOLEAN /\ FALSE \in BOOLEAN
  BY <1>1 DEF TypeOK, Editors, Nothing, New, Actions
<1> HIDE DEF call, rest
<1>9. CASE ~ call.here
  <2>1. calls' = rest /\ UNCHANGED <<mounted, editor, steps, held, runAsk, saving, lost, upset>>
    BY <1>2, <1>9 DEF dialogs, watch
  <2>2. TypeOK'
    <3>1. mounted' \in BOOLEAN /\ runAsk' \in BOOLEAN /\ lost' \in BOOLEAN /\ saving' \in BOOLEAN
      BY <1>1, <2>1 DEF TypeOK
    <3>2. saving' => \E d \in InFlight(calls') : calls'[d].here /\ calls'[d].op \in {"save", "copy"}
      BY <1>1, <1>3, <1>9, <2>1 DEF TypeOK, call
    <3>3. QED
      BY <1>1, <1>2, <1>3, <2>1, <3>1, <3>2 DEF TypeOK
  <2>3. CallsInv' /\ AloneInv' /\ IdsInv'
    BY <1>1, <1>2, <1>3, <2>1 DEF CallsInv, AloneInv, IdsInv, Sane, Calm
  <2>4. Sane => call.op = "enable"
    BY <1>6, <1>9
  <2>5. WorkInv'
    <3>1. Sane => Safe(editor, store', rest)
      BY <1>7, <2>4
    <3>2. Sane' => Safe(editor, store, calls)'
      BY <2>1, <3>1 DEF Sane, Safe
    <3>3. QED
      BY <1>1, <1>2, <1>3, <2>1, <3>2 DEF WorkInv, Sane
  <2>6. StoreInv'
    BY <1>2, <1>3, <2>1 DEF StoreInv, Calm, Matches
  <2>7. ShownInv'
    BY <1>2, <1>3, <1>5, <2>1, <2>4 DEF ShownInv, Calm, Shows
  <2>8. QED
    BY <2>2, <2>3, <2>5, <2>6, <2>7 DEF IInv
<1>10. CASE call.here
  <2>1. ASSUME NEW a \in Actions, NEW ed \in Editors, NEW asked \in BOOLEAN,
               Perform(a, ed, rest, Settled(call), asked), held' \in Actions,
               Sane => asked \/ a.do = "nothing" \/ ~ Unsaved(ed),
               a.do = "nothing" => (Sane => Safe(ed, store', rest)) /\ (Calm => Shows(ed, rest))
        PROVE  IInv'
    <3>1. InFlight(rest) \subseteq InFlight(calls)
      BY <1>3
    <3>2. Calm => Matches(store', rest)
      BY <1>3
    <3>3. QED
      <4> DEFINE busy == Settled(call)
      <4>1. busy \in BOOLEAN /\ (busy => Waiting(rest)) /\ rest \in [1..MaxCalls -> Calls \cup {Nil}]
            /\ store' \in [Ids -> Graphs \cup {Nil}] /\ \A d \in InFlight(rest) : rest[d] = calls[d]
        BY <1>3
      <4>2. Perform(a, ed, rest, busy, asked) /\ held' \in Actions
        BY <2>1
      <4>3. UNCHANGED <<backend, edits>>
        BY <1>2
      <4>4. MayPerform(a, ed, rest, asked)
        BY <2>1, <3>1, <3>2, <4>1 DEF MayPerform
      <4> HIDE DEF busy
      <4>5. QED
        BY <4>1, <4>2, <4>3, <4>4, PerformKeeps
  <2>2. Answer(call, rest)
    BY <1>2, <1>10
  <2>3. CASE call.op = "save" /\ call.reply = "ok"
    <3> DEFINE ed == MarkSaved(call)
    <3>1. /\ ed \in Editors /\ ed.id = call.id /\ ed.rev = editor.rev /\ ed.on = editor.on
          /\ ed.sig = [rev |-> call.rev, on |-> call.on] /\ ed.sig.rev = call.rev
      BY <1>4, <1>8 DEF MarkSaved, Editors, Graphs
    <3> HIDE DEF ed
    <3>2. Sane => Safe(ed, store', rest)
      BY <1>1, <1>2, <1>6, <2>3, <3>1 DEF Safe, WorkInv, call
    <3>3. Calm => Shows(ed, rest)
      <4>1. SUFFICES ASSUME Calm
                     PROVE  Shows(ed, rest)
        OBVIOUS
      <4>2. call.on = editor.on
        BY <1>1, <1>2, <2>3, <4>1 DEF ShownInv, Shows, call
      <4>3. backend[call.id] = [rev |-> call.rev, on |-> call.on]
        BY <1>1, <1>2, <2>3, <4>1 DEF StoreInv, Matches, Result, call
      <4>4. \A d \in InFlight(rest) : rest[d].op = "enable" /\ rest[d].id # call.id
        <5>1. SUFFICES ASSUME NEW d \in InFlight(rest)
                       PROVE  rest[d].op = "enable" /\ rest[d].id # call.id
          OBVIOUS
        <5>2. d \in InFlight(calls) /\ d # c /\ rest[d] = calls[d]
          BY <1>3
        <5>3. calls[d].id # call.id
          BY <1>1, <1>2, <4>1, <5>2 DEF IdsInv, call
        <5>4. rest[d].op = "enable"
          BY <1>5, <1>6, <2>3, <4>1
        <5>5. QED
          BY <5>2, <5>3, <5>4
      <4>5. QED
        BY <3>1, <4>2, <4>3, <4>4 DEF Shows
    <3>4. CASE call.proceed
      <4>1. Perform(held, ed, rest, Settled(call), FALSE) /\ held' = Nothing
        BY <2>2, <2>3, <3>4 DEF Answer, ed
      <4>2. Sane => ~ Unsaved(ed)
        BY <1>1, <1>2, <3>1, <3>4 DEF WorkInv, Safe, Replaces, Unsaved, call
      <4>3. QED
        BY <1>8, <2>1, <3>1, <3>2, <3>3, <4>1, <4>2
    <3>5. CASE ~ call.proceed
      <4>1. Perform(Nothing, ed, rest, Settled(call), FALSE) /\ held' = held
        BY <2>2, <2>3, <3>5 DEF Answer, ed
      <4>2. Nothing.do = "nothing"
        BY DEF Nothing
      <4>3. QED
        BY <1>8, <2>1, <3>1, <3>2, <3>3, <4>1, <4>2
    <3>6. QED
      BY <3>4, <3>5
  <2>4. CASE call.op = "copy" /\ call.reply = "ok"
    <3> DEFINE a == Load(call.id, [rev |-> call.rev, on |-> call.on])
    <3>1. Perform(a, editor, rest, Settled(call), FALSE) /\ held' = held
      BY <2>2, <2>4 DEF Answer
    <3>2. a \in Actions /\ a.do # "nothing"
      BY <1>4 DEF Load, Nothing, Actions
    <3>3. Sane => ~ Unsaved(editor)
      <4>1. Sane => editor.rev = call.rev /\ call.id \in Ids /\ backend[call.id] # Nil
                    /\ backend[call.id].rev = call.rev
        BY <1>1, <1>2, <2>4 DEF WorkInv, Safe, Replaces, call
      <4>2. QED
        BY <4>1 DEF Unsaved
    <3> HIDE DEF a
    <3>4. QED
      BY <1>8, <2>1, <3>1, <3>2, <3>3
  <2>5. CASE call.op = "delete" /\ call.reply = "ok"
    <3> DEFINE asked == editor.rev = call.rev
    <3>1. Perform(New, editor, rest, Settled(call), asked) /\ held' = held
      BY <2>2, <2>5 DEF Answer
    <3>2. New.do # "nothing" /\ asked \in BOOLEAN
      BY DEF New, Nothing
    <3>3. Sane => asked
      BY <1>1, <1>2, <2>5 DEF WorkInv, Safe, Replaces, call
    <3> HIDE DEF asked
    <3>4. QED
      BY <1>8, <2>1, <3>1, <3>2, <3>3
  <2>6. CASE call.op = "enable" \/ call.reply = "failed"
    <3>1. PICK ed \in {editor, [editor EXCEPT !.on = ~ call.on]} :
            /\ Perform(Nothing, ed, rest, Settled(call), FALSE)
            /\ call.reply = "ok" => ed = editor
            /\ held' \in Actions
      <4>1. CASE call.op = "save" /\ call.reply = "failed"
        BY <1>8, <2>2, <4>1 DEF Answer
      <4>2. CASE call.op = "enable" /\ call.reply = "failed"
        BY <1>8, <2>2, <4>2 DEF Answer
      <4>3. CASE call.op = "enable" /\ call.reply = "ok"
        BY <1>8, <2>2, <4>3 DEF Answer
      <4>4. CASE call.op \in {"copy", "delete"} /\ call.reply = "failed"
        BY <1>8, <2>2, <4>4 DEF Answer
      <4>5. QED
        BY <1>4, <2>6, <4>1, <4>2, <4>3, <4>4
    <3>2. ed \in Editors /\ ed.id = editor.id /\ ed.rev = editor.rev /\ ed.sig = editor.sig
      BY <1>4, <1>8, <3>1 DEF Editors
    <3>3. Sane => Safe(ed, store', rest)
      BY <1>7, <2>6, <3>2 DEF Safe
    <3>4. Calm => Shows(ed, rest)
      BY <1>3, <1>5, <2>6, <3>1
    <3>5. Nothing.do = "nothing"
      BY DEF Nothing
    <3>6. QED
      BY <1>8, <2>1, <3>1, <3>2, <3>3, <3>4, <3>5
  <2>7. QED
    BY <1>4, <2>3, <2>4, <2>5, <2>6
<1>11. QED
  BY <1>9, <1>10

-----------------------------------------------------------------------------
LEMMA EditorInit == Init => IInv
<1> SUFFICES ASSUME Init
             PROVE  IInv
  OBVIOUS
<1> USE Constants, EditorAssumption DEF Init
<1>1. InFlight(calls) = {} /\ calls \in [1..MaxCalls -> Calls \cup {Nil}]
  BY DEF InFlight
<1>2. backend \in [Ids -> Graphs \cup {Nil}]
  <2>1. \A g \in Ids : [rev |-> g, on |-> FALSE] \in Graphs
    <3>1. Ids \subseteq Revs /\ FALSE \in BOOLEAN
      BY DEF Ids, Revs
    <3>2. QED
      BY <3>1
  <2>2. QED
    BY <2>1
<1>3. editor \in Editors /\ editor.rev = editor.sig.rev /\ editor.id = Nil
  BY DEF Mounted, Editors
<1>4. Nothing \in Actions
  BY DEF Nothing, Actions
<1>5. TypeOK
  <2>1. mounted \in BOOLEAN /\ runAsk \in BOOLEAN /\ saving \in BOOLEAN /\ lost \in BOOLEAN
    OBVIOUS
  <2>2. edits \in 0..MaxEdits
    OBVIOUS
  <2>3. QED
    BY <1>1, <1>2, <1>3, <1>4, <2>1, <2>2 DEF TypeOK, Editors
<1>6. CallsInv /\ AloneInv /\ WorkInv
  BY <1>1, <1>3 DEF CallsInv, AloneInv, WorkInv, Safe
<1>7. IdsInv /\ StoreInv /\ ShownInv
  BY <1>1, <1>3 DEF IdsInv, StoreInv, ShownInv, Matches, Shows
<1>8. QED
  BY <1>5, <1>6, <1>7 DEF IInv

LEMMA EditorStep == IInv /\ [Next]_vars => IInv'
<1> SUFFICES ASSUME IInv, [Next]_vars
             PROVE  IInv'
  OBVIOUS
<1>1. CASE UNCHANGED vars
  <2>1. mounted' \in BOOLEAN /\ held' \in Actions /\ runAsk' \in BOOLEAN
    BY <1>1 DEF vars, dialogs, IInv, TypeOK
  <2>2. UNCHANGED <<graphs, editor, steps, saving, calls, edits, watch>>
    BY <1>1 DEF vars
  <2>3. QED
    BY <2>1, <2>2, DialogKeeps
<1>2. CASE \/ \E g \in Ids : AskLoad(g) \/ AutoLoad(g)
           \/ AskNew \/ AskClose \/ Maximize \/ Cancel \/ Discard \/ CancelRun
  BY <1>2, UserKeeps
<1>3. CASE Edit \/ Retrace
  BY <1>3, TouchedKeeps
<1>4. CASE \/ Save \/ SaveAndContinue \/ RequestRun \/ SaveAndRun
           \/ HandleDuplicateGraph \/ HandleToggleEnabled \/ HandleDelete
  BY <1>4, RequestsKeep
<1>5. CASE \E c \in 1..MaxCalls : Serve(c) \/ Replies(c)
  BY <1>5, ServeKeeps, RepliesKeep
<1>6. QED
  BY <1>1, <1>2, <1>3, <1>4, <1>5 DEF Next

LEMMA EditorInv == Spec => []IInv
<1>1. Init => IInv
  BY EditorInit
<1>2. IInv /\ [Next]_vars => IInv'
  BY EditorStep
<1>3. QED
  BY <1>1, <1>2, PTL DEF Spec

\* Every variable of the editor, the store and the backend keeps its type, and
\* the Save button is never stuck: it is busy only while a save or a copy of an
\* editor that is still there is in flight (GraphEditor.tsx's saving).
THEOREM EditorTypeCorrect == Spec => []TypeOK
<1>1. IInv => TypeOK
  BY DEF IInv
<1>2. QED
  BY <1>1, EditorInv, PTL

\* Whatever is clicked and typed, and however many calls are in flight and in
\* whatever order they come back: work that was not saved is replaced only with
\* the user's agreement, unless a call crossed another or a change of graph, or
\* the canvas was edited under a call that replaces it.
THEOREM WorkTheorem == Spec => []NothingLostUnasked
<1>1. IInv => NothingLostUnasked
  BY DEF IInv, WorkInv, Sane, NothingLostUnasked
<1>2. QED
  BY <1>1, EditorInv, PTL

\* With nothing that crossed, failed or was stale, a clean editor at rest shows
\* what the backend holds: savedSig is marked from what was sent, the switch
\* included, and never from what the canvas has become since.
THEOREM CleanTheorem == Spec => []CleanIsSaved
<1>1. IInv => CleanIsSaved
  <2>1. SUFFICES ASSUME IInv, Quiet, upset = {}, ~ Dirty(editor)
                 PROVE  backend[editor.id] = Signature(editor)
    BY DEF CleanIsSaved
  <2>2. backend[editor.id] = [rev |-> editor.sig.rev, on |-> editor.on]
    BY <2>1 DEF IInv, ShownInv, Calm, Shows, Quiet
  <2>3. editor.sig = [rev |-> editor.rev, on |-> editor.on]
    BY <2>1 DEF Dirty, Signature
  <2>4. QED
    BY <2>2, <2>3 DEF Signature
<1>2. QED
  BY <1>1, EditorInv, PTL

=============================================================================
