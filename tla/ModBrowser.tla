----------------------------- MODULE ModBrowser -----------------------------
(* The mods pane (tiles/mods, modrinth.go): the search and its page of       *)
(* results, the dependencies an install brings along, and the panel of one   *)
(* mod.  None reads another's state; each has its Init and Next.             *)
EXTENDS Naturals, Sequences, SequencesExt

CONSTANTS
  Nil,
  MaxSearches,                         \* bound on the searches made
  Others,                              \* the projects that are dependencies, in the order they are named
  Root,                                \* the project whose install was clicked
  Mods,
  MaxClicks                            \* bound on the questions and installs asked for

VARIABLES
  typed,                               \* the debounce of a new query, category or sort is running
  sent,                                \* how many searches were sent
  unanswered,                          \* those not answered
  hits,                                \* what the hook holds, and whether it says it is loading
  searching,
  grid,                                \* what the tiles show
  turn,                                \* the page turn: under way, its tiles out, what it will show
  timer,                               \* the turn's one timer: "exit", then "idle"
  frames,                              \* the new page's first two frames are still to come
  phase,                               \* "idle", "exit" or "enter"
  seen,                                \* gridVisible: the tiles are not hidden
  appearing,                           \* the timer that shows the first results
  panel,                               \* the detail panel: open, its layout, its slide, its frames
  lateSearches,                        \* what went wrong: "overtaken", "dropped", "cut", "unshown"
  needs,                               \* of each project, how its version names each other one
  present,                             \* projects already on the server
  rotten,                              \* projects of which no build can be had
  sided,                               \* the version clicked does not load on a server
  walk,                                \* the walk: its queue, what it has seen, where it ended
  required,                            \* the dependencies it found: whether required
  ticked,                              \* the optional ones chosen
  picked,                              \* the projects installed, or Nil
  demoted,                             \* projects that were needed after they had been offered
  view,                                \* "library" or "browse"
  shownMod,                            \* the mod the panel is of, or Nil
  detailsOf,                           \* detail answers on their way
  versionsOf,                          \* the versions the hook holds: a mod's, or Nil for none
  fetchesOf,                           \* version answers on their way
  fetchingV,                           \* versionsLoading
  vtab,                                \* the panel's versions tab is up
  confirming,                          \* the mod whose version the dialog would install, or Nil
  job,                                 \* the install under way, or the look before it: of what, under whose panel
  clicksMade,
  strays                               \* answers and lists that another mod's panel was left with

(* The mod browser's grid (useMods.search, BrowsePanel, useGridPageAnimation): *)
(* searches answered in any order, and a page turn that holds the old page  *)
(* until its tiles have left and the new results are in.  A search stands    *)
(* for its results; 0 is the empty list, a failed search's too.  Beside it   *)
(* slides the detail panel, and the tiles hide while either moves.           *)
gridVars == <<sent, unanswered, hits, searching, grid, turn, timer, frames, phase, lateSearches>>
searchVars == <<typed, gridVars, seen, appearing, panel>>

Searches == 1 .. MaxSearches
NoTurn == [on |-> FALSE, out |-> FALSE, got |-> Nil]

SearchTypeOK ==
  /\ typed \in BOOLEAN /\ sent \in 0 .. MaxSearches /\ unanswered \subseteq Searches
  /\ hits \in 0 .. MaxSearches /\ grid \in 0 .. MaxSearches /\ searching \in BOOLEAN
  /\ turn \in [on : BOOLEAN, out : BOOLEAN, got : 0 .. MaxSearches \cup {Nil}]
  /\ timer \in {"exit", "idle", Nil} /\ frames \in BOOLEAN
  /\ phase \in {"idle", "exit", "enter"}
  /\ seen \in BOOLEAN /\ appearing \in BOOLEAN
  /\ panel \in [open : BOOLEAN, layout : BOOLEAN, frames : BOOLEAN,
                slide : {"rest", "opening", "closing", "hiding"}]
  /\ lateSearches \subseteq {"overtaken", "dropped", "cut", "unshown"}

SearchInit ==
  /\ typed = TRUE /\ sent = 0 /\ unanswered = {} /\ hits = 0 /\ searching = FALSE /\ grid = 0
  /\ turn = NoTurn /\ timer = Nil /\ frames = FALSE /\ phase = "idle"
  /\ seen = FALSE /\ appearing = FALSE /\ lateSearches = {}
  /\ panel = [open |-> FALSE, layout |-> FALSE, frames |-> FALSE, slide |-> "rest"]

-----------------------------------------------------------------------------
Type ==
  /\ ~typed /\ sent < MaxSearches /\ typed' = TRUE
  /\ UNCHANGED <<gridVars, seen, appearing, panel>>

Send ==
  /\ sent < MaxSearches
  /\ sent' = sent + 1 /\ unanswered' = unanswered \cup {sent + 1} /\ searching' = TRUE

\* 300 ms after the last change.
Search ==
  /\ typed /\ typed' = FALSE /\ Send
  /\ UNCHANGED <<hits, grid, turn, timer, frames, phase, lateSearches, seen, appearing, panel>>

\* The first results appear by a timer; results of another number take it away.
Shows(found) ==
  /\ grid' = found
  /\ IF grid = 0 \/ found = 0
     THEN appearing' = IF grid = found THEN appearing
                       ELSE grid = 0 /\ ~panel.open /\ phase = "idle"
     ELSE appearing' \in {appearing, FALSE}
Unshown == IF appearing /\ ~appearing' /\ ~seen /\ ~frames' THEN {"unshown"} ELSE {}
Overtaken(s) ==
  IF \E q \in Searches : q > s /\ q <= sent /\ q \notin unanswered THEN {"overtaken"} ELSE {}

\* Both the tiles' exit and the results are in: the new page enters.
Enters(found) ==
  /\ turn' = NoTurn /\ Shows(found) /\ phase' = "enter" /\ seen' = FALSE /\ frames' = TRUE

\* handlePage, which also stops the timer of the turn before.
TurnPage ==
  /\ grid # 0 /\ Send
  /\ turn' = [NoTurn EXCEPT !.on = TRUE] /\ timer' = "exit" /\ phase' = "exit"
  /\ UNCHANGED <<typed, hits, grid, frames, lateSearches, seen, appearing, panel>>

\* An answer, late ones too; the effect on it buffers a turn's results, and has no
\* ears for an answer that comes when nothing is said to load.
Answer(s) ==
  /\ s \in unanswered /\ unanswered' = unanswered \ {s} /\ searching' = FALSE
  /\ \E found \in {s, 0} :
       /\ hits' = found
       /\ CASE turn.on /\ searching /\ turn.out ->
                 Enters(found) /\ lateSearches' = lateSearches \cup Overtaken(s) /\ UNCHANGED timer
            [] turn.on /\ searching /\ ~turn.out ->
                 /\ turn' = [turn EXCEPT !.got = found] /\ lateSearches' = lateSearches \cup Overtaken(s)
                 /\ UNCHANGED <<grid, timer, frames, phase, seen, appearing>>
            [] turn.on /\ ~searching ->
                 /\ lateSearches' = lateSearches \cup {"dropped"}
                 /\ UNCHANGED <<turn, grid, timer, frames, phase, seen, appearing>>
            [] ~turn.on ->
                 /\ UNCHANGED <<turn, timer, frames, phase, seen>>
                 /\ Shows(found) /\ lateSearches' = lateSearches \cup Overtaken(s) \cup Unshown
  /\ UNCHANGED <<typed, sent, panel>>

\* The tiles are out.
ExitEnds ==
  /\ timer = "exit" /\ timer' = Nil
  /\ IF turn.got = Nil
     THEN turn' = [turn EXCEPT !.out = TRUE] /\ UNCHANGED <<grid, frames, phase, seen, appearing, lateSearches>>
     ELSE Enters(turn.got) /\ UNCHANGED lateSearches
  /\ UNCHANGED <<typed, sent, unanswered, hits, searching, panel>>

\* Two frames into the new page; they take whatever timer there is, the exit of a page
\* turned meanwhile too.
EnterBegins ==
  /\ frames /\ frames' = FALSE /\ seen' = TRUE /\ timer' = "idle"
  /\ lateSearches' = IF timer = "exit" THEN lateSearches \cup {"cut"} ELSE lateSearches
  /\ UNCHANGED <<typed, sent, unanswered, hits, searching, grid, turn, phase, appearing, panel>>

EnterEnds ==
  /\ timer = "idle" /\ timer' = Nil /\ phase' = "idle"
  /\ UNCHANGED <<typed, sent, unanswered, hits, searching, grid, turn, frames, lateSearches, seen,
                 appearing, panel>>

Appear ==
  /\ appearing /\ appearing' = FALSE /\ seen' = TRUE
  /\ UNCHANGED <<typed, gridVars, panel>>

-----------------------------------------------------------------------------
\* The panel's effect stops the slide under way, whichever it is.
OpenPanel ==
  /\ grid # 0 /\ ~panel.open /\ seen' = FALSE
  /\ panel' = [panel EXCEPT !.open = TRUE, !.slide = "opening"]
  /\ UNCHANGED <<typed, gridVars, appearing>>

ClosePanel ==
  /\ panel.open /\ panel' = [panel EXCEPT !.open = FALSE, !.slide = "closing"]
  /\ UNCHANGED <<typed, gridVars, seen, appearing>>

PanelSlides ==
  /\ panel.slide # "rest"
  /\ panel' = CASE panel.slide = "closing" -> [panel EXCEPT !.slide = "hiding"]
                [] OTHER -> [panel EXCEPT !.slide = "rest", !.frames = TRUE,
                                          !.layout = panel.slide = "opening"]
  /\ seen' = IF panel.slide = "closing" THEN FALSE ELSE seen
  /\ UNCHANGED <<typed, gridVars, appearing>>

\* Two frames after its layout, the tiles are back.
PanelSettles ==
  /\ panel.frames /\ panel' = [panel EXCEPT !.frames = FALSE] /\ seen' = TRUE
  /\ UNCHANGED <<typed, gridVars, appearing>>

SearchNext ==
  \/ Type \/ Search \/ TurnPage \/ ExitEnds \/ EnterBegins \/ EnterEnds \/ Appear
  \/ OpenPanel \/ ClosePanel \/ PanelSlides \/ PanelSettles
  \/ \E s \in Searches : Answer(s)

-----------------------------------------------------------------------------
Quiet == unanswered = {} /\ timer = Nil /\ ~frames

(* A page turn ends, and the tiles show what the hook holds, unless an answer *)
(* fell between two searches of one turn or a page was turned within the two  *)
(* frames of the one before (useGridPageAnimation.ts:200-267).                *)
GridShowsHits ==
  Quiet /\ "dropped" \notin lateSearches /\ "cut" \notin lateSearches =>
    grid = hits /\ ~turn.on /\ phase = "idle"

(* The hook holds the last search's results, unless one was answered late:   *)
(* nothing ties an answer to the query on screen (useMods.ts:250-267).        *)
LastSearchWins ==
  unanswered = {} /\ {"overtaken", "dropped"} \cap lateSearches = {} => hits \in {sent, 0} /\ ~searching

(* Whatever hid the tiles shows them again, and the layout follows the panel *)
(* (useGridPageAnimation.ts:269-341).                                         *)
TilesComeBack ==
  Quiet /\ panel.slide = "rest" /\ ~panel.frames /\ ~appearing =>
    /\ panel.layout = panel.open
    /\ grid # 0 /\ {"cut", "dropped", "unshown"} \cap lateSearches = {} => seen

BrowserSettles == GridShowsHits /\ LastSearchWins /\ TilesComeBack

-----------------------------------------------------------------------------
(* What an install brings along (modrinth.go ResolveDependencies, useMods,   *)
(* DependencyDialog): the walk over what a mod's version names, the dialog   *)
(* that shows what it found, and the versions that are then installed.  A    *)
(* version stands for its project: the newest build, or the one pinned.      *)
depVars == <<needs, present, rotten, sided, walk, required, ticked, picked, demoted>>

Projects == {Root} \cup Range(Others)
Order == <<Root>> \o Others
Naming == {"none", "required", "optional"}

DepsTypeOK ==
  /\ needs \in [Projects -> [Projects -> Naming]]
  /\ present \subseteq Range(Others) /\ rotten \subseteq Range(Others) /\ sided \in BOOLEAN
  /\ walk.at \in {"idle", "walking", "asking", "installing", "refused", "done", "failed"}
  /\ walk.queue \in Seq(Projects) /\ walk.seen \subseteq Projects
  /\ \A p \in DOMAIN required : p \in Projects /\ required[p] \in BOOLEAN
  /\ ticked \subseteq DOMAIN required /\ picked \in SUBSET Projects \cup {Nil}
  /\ demoted \subseteq Projects

NoNeeds == [p \in Projects |-> [q \in Projects |-> "none"]]

DepsInit ==
  /\ needs = NoNeeds /\ present = {} /\ rotten = {} /\ sided = FALSE
  /\ walk = [at |-> "idle", queue |-> <<>>, seen |-> {}]
  /\ required = [p \in {} |-> FALSE] /\ ticked = {} /\ picked = Nil /\ demoted = {}

\* A click on Install, whatever the provider says of the mods and the server has of them.
\* Nothing is said of a mod that names itself, nor of one that would do with the root.
Click ==
  /\ walk.at = "idle" /\ walk' = [at |-> "walking", queue |-> <<Root>>, seen |-> {}]
  /\ needs' \in [Projects -> [Projects -> Naming]]
  /\ \A p \in Projects : needs'[p][p] = "none" /\ needs'[p][Root] # "optional"
  /\ present' \in SUBSET Range(Others) /\ rotten' \in SUBSET Range(Others)
  /\ sided' \in BOOLEAN
  /\ UNCHANGED <<required, ticked, picked, demoted>>

-----------------------------------------------------------------------------
\* One name of one version: what is to be done with it.
Fatal(p, q) == needs[p][q] = "required" /\ q \in rotten /\ q \notin present
Fresh(w, p, q) == needs[p][q] # "none" /\ q \notin w.seen

\* A name met again is passed over, however it is named this time; one that cannot be
\* had ends the walk if it is needed and not there, and is dropped otherwise.
Meet(w, p, q) ==
  IF w.failed \/ ~Fresh(w, p, q) THEN w
  ELSE IF Fatal(p, q) THEN [w EXCEPT !.failed = TRUE]
  ELSE IF q \in rotten THEN [w EXCEPT !.seen = @ \cup {q}]
  ELSE [w EXCEPT !.seen = @ \cup {q},
                 !.rows = (q :> (needs[p][q] = "required")) @@ @,
                 !.queue = IF needs[p][q] = "required" THEN Append(@, q) ELSE @]

Walked(p) ==
  FoldLeft(LAMBDA w, q : Meet(w, p, q),
           [seen |-> walk.seen, queue |-> Tail(walk.queue), rows |-> required, failed |-> FALSE],
           Order)

\* The next version in the queue.
ResolveDependencies ==
  /\ walk.at = "walking" /\ walk.queue # <<>>
  /\ LET p == Head(walk.queue)
         w == Walked(p)
     IN /\ required' = w.rows
        /\ walk' = [at |-> IF w.failed THEN "failed" ELSE "walking",
                    queue |-> w.queue, seen |-> w.seen]
        /\ demoted' = demoted \cup
             {q \in walk.seen \ (present \cap rotten) :
                needs[p][q] = "required" /\ ~(q \in DOMAIN required /\ required[q])}
  /\ UNCHANGED <<needs, present, rotten, sided, ticked, picked>>

\* The provider refuses, or is still busy after the third try.
Unanswered ==
  /\ walk.at = "walking" /\ walk.queue # <<>> /\ walk' = [walk EXCEPT !.at = "failed"]
  /\ UNCHANGED <<needs, present, rotten, sided, required, ticked, picked, demoted>>

\* The walk is over: what is not on the server yet, or does not load on one, is asked about.
WalkEnds ==
  /\ walk.at = "walking" /\ walk.queue = <<>>
  /\ IF sided \/ DOMAIN required \ present # {}
     THEN walk' = [walk EXCEPT !.at = "asking"] /\ UNCHANGED picked
     ELSE walk' = [walk EXCEPT !.at = "installing"] /\ picked' = {Root}
  /\ UNCHANGED <<needs, present, rotten, sided, required, ticked, demoted>>

\* Required and installed ones are locked.
ToggleOptional(p) ==
  /\ walk.at \in {"asking", "refused"} /\ p \in DOMAIN required \ present /\ ~required[p]
  /\ ticked' = IF p \in ticked THEN ticked \ {p} ELSE ticked \cup {p}
  /\ UNCHANGED <<needs, present, rotten, sided, walk, required, picked, demoted>>

HandleConfirm ==
  /\ walk.at \in {"asking", "refused"} /\ walk' = [walk EXCEPT !.at = "installing"]
  /\ picked' = {Root} \cup {p \in DOMAIN required \ present : required[p] \/ p \in ticked}
  /\ UNCHANGED <<needs, present, rotten, sided, required, ticked, demoted>>

Cancel ==
  /\ walk.at \in {"asking", "refused"} /\ walk' = [walk EXCEPT !.at = "done"]
  /\ picked' = Nil
  /\ UNCHANGED <<needs, present, rotten, sided, required, ticked, demoted>>

\* A refused install leaves the dialog, when there is one, for another try.
Installs ==
  /\ walk.at = "installing"
  /\ \/ walk' = [walk EXCEPT !.at = "done"]
     \/ walk' = [walk EXCEPT !.at = IF sided \/ DOMAIN required \ present # {} THEN "refused"
                                    ELSE "failed"]
  /\ UNCHANGED <<needs, present, rotten, sided, required, ticked, picked, demoted>>

DepsNext ==
  \/ Click \/ ResolveDependencies \/ Unanswered \/ WalkEnds \/ HandleConfirm \/ Cancel \/ Installs
  \/ \E p \in Projects : ToggleOptional(p)

-----------------------------------------------------------------------------
\* The least set with the root that needs nothing outside itself.  What is on the server
\* and cannot be had again is not looked into.
Whole(S) == \A p \in S \ (present \cap rotten), q \in Projects : needs[p][q] = "required" => q \in S
Needed == {p \in Projects : \A S \in SUBSET Projects : Root \in S /\ Whole(S) => p \in S}

(* Nothing an install needs is left out: each project some needed version    *)
(* requires is on the server or installed with it.  Known exception: one that *)
(* was offered first is not looked at again when it turns out to be needed    *)
(* (modrinth.go:248-251 against DependencyDialog.tsx:107).                    *)
RequiredComeAlong ==
  walk.at \in {"installing", "refused"} /\ demoted = {} =>
    Needed \subseteq picked \cup present

(* An install brings nothing that nobody needs or ticked.                    *)
NothingUnasked ==
  walk.at = "installing" => picked \subseteq Needed \cup ticked /\ ticked \cap present = {}

(* A needed project that cannot be had fails the click, before anything is   *)
(* installed (modrinth.go:257-269).                                          *)
RottenIsTold ==
  walk.at \in {"asking", "installing", "refused"} /\ demoted = {} =>
    Needed \cap rotten \subseteq present

DependenciesAreMet == RequiredComeAlong /\ NothingUnasked /\ RottenIsTold

-----------------------------------------------------------------------------
(* The panel of one mod, in the browser (ContentDetailPanel) and over the    *)
(* library (ModPreviewDialog): its details and versions, asked for in one    *)
(* hook that both share (useMods), its install and the dialog that asks      *)
(* before one.  A version stands for the mod it is of.                        *)
detailVars == <<view, shownMod, detailsOf, versionsOf, fetchesOf, fetchingV, vtab, confirming,
                job, clicksMade, strays>>

DetailTypeOK ==
  /\ view \in {"library", "browse"} /\ shownMod \in Mods \cup {Nil}
  /\ detailsOf \subseteq Mods /\ fetchesOf \subseteq Mods
  /\ versionsOf \in Mods \cup {Nil} /\ fetchingV \in BOOLEAN /\ vtab \in BOOLEAN
  /\ confirming \in Mods \cup {Nil} /\ clicksMade \in 0 .. MaxClicks
  /\ job \in [at : {"looking", "installing"}, of : Mods, under : Mods \cup {Nil}] \cup {Nil}
  /\ strays \subseteq {"detail", "versions", "kept", "question"}

DetailInit ==
  /\ view = "library" /\ shownMod = Nil /\ detailsOf = {} /\ versionsOf = Nil /\ fetchesOf = {}
  /\ fetchingV = FALSE /\ vtab = FALSE /\ confirming = Nil /\ job = Nil /\ clicksMade = 0
  /\ strays = {}

Clicks == clicksMade < MaxClicks /\ clicksMade' = clicksMade + 1

-----------------------------------------------------------------------------
\* The panel of another mod begins anew; the hook's versions stay as they are.
Shown(m) ==
  /\ shownMod' = m
  /\ IF m = shownMod THEN UNCHANGED <<vtab, confirming>> ELSE vtab' = FALSE /\ confirming' = Nil
Kept(m) == IF m # shownMod /\ (versionsOf \notin {m, Nil} \/ fetchingV) THEN {"kept"} ELSE {}

\* selectProject shows what is known at once and asks for the rest.  Over the library the
\* dialog is in the way of another click.
SelectProject(m) ==
  /\ view = "library" => shownMod = Nil
  /\ Clicks /\ Shown(m) /\ detailsOf' = detailsOf \cup {m} /\ strays' = strays \cup Kept(m)
  /\ UNCHANGED <<view, versionsOf, fetchesOf, fetchingV, job>>

\* The answer is shown whatever is selected by then; the dialog over the library has its
\* mod from elsewhere.
ProjectArrives(m) ==
  /\ m \in detailsOf /\ detailsOf' = detailsOf \ {m}
  /\ IF view = "browse" THEN Shown(m) ELSE UNCHANGED <<shownMod, vtab, confirming>>
  /\ strays' = IF m = shownMod THEN strays ELSE strays \cup {"detail"} \cup Kept(m)
  /\ UNCHANGED <<view, versionsOf, fetchesOf, fetchingV, job, clicksMade>>

\* clearProject, with the panel or with the whole view.
Clear(v) ==
  /\ view' = v /\ shownMod' = Nil /\ versionsOf' = Nil /\ vtab' = FALSE /\ confirming' = Nil
  /\ UNCHANGED <<detailsOf, fetchesOf, fetchingV, job, clicksMade, strays>>
CloseProject == shownMod # Nil /\ Clear(view)
SwitchView == (view = "library" => shownMod = Nil) /\ \E v \in {"library", "browse"} : v # view /\ Clear(v)

\* The versions are fetched on the way to their tab, if there are none and none are coming.
OpenVersions ==
  /\ shownMod # Nil /\ ~vtab /\ vtab' = TRUE
  /\ IF versionsOf = Nil /\ ~fetchingV
     THEN fetchesOf' = fetchesOf \cup {shownMod} /\ fetchingV' = TRUE
     ELSE UNCHANGED <<fetchesOf, fetchingV>>
  /\ UNCHANGED <<view, shownMod, detailsOf, versionsOf, confirming, job, clicksMade, strays>>

LoadAllVersions ==
  /\ shownMod # Nil /\ vtab /\ Clicks /\ fetchesOf' = fetchesOf \cup {shownMod} /\ fetchingV' = TRUE
  /\ UNCHANGED <<view, shownMod, detailsOf, versionsOf, vtab, confirming, job, strays>>

VersionsArrive(m) ==
  /\ m \in fetchesOf /\ fetchesOf' = fetchesOf \ {m} /\ fetchingV' = FALSE
  /\ versionsOf' \in {m, Nil}
  /\ strays' = IF m = shownMod THEN strays ELSE strays \cup {"versions"}
  /\ UNCHANGED <<view, shownMod, detailsOf, vtab, confirming, job, clicksMade>>

-----------------------------------------------------------------------------
\* Every button is off while a job runs; a look that a closed dialog left behind turns none
\* off, and is waited for here.
Idle == shownMod # Nil /\ job = Nil

\* The panel's own button, which looks at the newest version first.
InstallLatest ==
  /\ view = "browse" /\ Idle /\ Clicks
  /\ job' = [at |-> "looking", of |-> shownMod, under |-> shownMod]
  /\ UNCHANGED <<view, shownMod, detailsOf, versionsOf, fetchesOf, fetchingV, vtab, confirming, strays>>

\* A version's row: over the library its dependencies are looked at first, in the browser
\* it is installed, or asked about when it does not load on a server.
InstallVersion ==
  /\ Idle /\ vtab /\ versionsOf # Nil /\ Clicks
  /\ \/ /\ job' = [at |-> IF view = "library" THEN "looking" ELSE "installing",
                   of |-> versionsOf, under |-> shownMod]
        /\ UNCHANGED confirming
     \/ view = "browse" /\ confirming' = versionsOf /\ UNCHANGED job
  /\ UNCHANGED <<view, shownMod, detailsOf, versionsOf, fetchesOf, fetchingV, vtab, strays>>

\* The look ends in a question, in the install or in an error.  A panel that is gone asks
\* nothing; one that is another mod's by now asks all the same.
Looked ==
  /\ job # Nil /\ job.at = "looking"
  /\ \/ /\ job' = Nil /\ confirming' = IF shownMod = Nil THEN Nil ELSE job.of
        /\ strays' = IF shownMod \in {job.under, Nil} THEN strays ELSE strays \cup {"question"}
     \/ job' = [job EXCEPT !.at = "installing"] /\ UNCHANGED <<confirming, strays>>
     \/ job' = Nil /\ UNCHANGED <<confirming, strays>>
  /\ UNCHANGED <<view, shownMod, detailsOf, versionsOf, fetchesOf, fetchingV, vtab, clicksMade>>

DepConfirm ==
  /\ Idle /\ confirming # Nil /\ Clicks
  /\ job' = [at |-> "installing", of |-> confirming, under |-> shownMod]
  /\ UNCHANGED <<view, shownMod, detailsOf, versionsOf, fetchesOf, fetchingV, vtab, confirming, strays>>

DepCancel ==
  /\ confirming # Nil /\ confirming' = Nil
  /\ UNCHANGED <<view, shownMod, detailsOf, versionsOf, fetchesOf, fetchingV, vtab, job, clicksMade,
                 strays>>

\* A refused install leaves the question up; one that lands closes it, and the dialog over
\* the library with it.
InstallEnds ==
  /\ job # Nil /\ job.at = "installing" /\ job' = Nil
  /\ \/ UNCHANGED <<shownMod, versionsOf, vtab, confirming>>
     \/ /\ confirming' = Nil
        /\ IF view = "library" THEN shownMod' = Nil /\ versionsOf' = Nil /\ vtab' = FALSE
           ELSE UNCHANGED <<shownMod, versionsOf, vtab>>
  /\ UNCHANGED <<view, detailsOf, fetchesOf, fetchingV, clicksMade, strays>>

DetailNext ==
  \/ CloseProject \/ SwitchView \/ OpenVersions \/ LoadAllVersions \/ InstallLatest
  \/ InstallVersion \/ Looked \/ DepConfirm \/ DepCancel \/ InstallEnds
  \/ \E m \in Mods : SelectProject(m) \/ ProjectArrives(m) \/ VersionsArrive(m)

-----------------------------------------------------------------------------
(* What is installed is a version of the mod in whose panel it was clicked   *)
(* and confirmed.  Known not to hold once a panel was left with another      *)
(* mod's answer or list: no answer is tied to the mod on screen, and opening *)
(* a mod from another's panel keeps the other's versions (useMods.ts:269-331, *)
(* ContentDetailPanel.tsx:83-88).                                             *)
InstallsWhatIsShown ==
  strays = {} /\ job # Nil /\ job.at = "installing" => job.of = job.under

(* The dialog asks about the mod on screen, and the versions under its title *)
(* are its own.                                                               *)
PanelIsOfOneMod ==
  strays = {} => confirming \in {shownMod, Nil} /\ (versionsOf # Nil => versionsOf = shownMod)

(* The versions tab ends its loading (ContentDetailPanel.tsx:293-307).        *)
LoadingEnds == fetchingV => fetchesOf # {}

DetailIsSound == InstallsWhatIsShown /\ PanelIsOfOneMod /\ LoadingEnds
=============================================================================
