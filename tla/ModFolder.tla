----------------------------- MODULE ModFolder -----------------------------
(* One mod in a server's folder and its rows in Konnekt's manifest           *)
(* (modservice.go, modidentify.go): installs that move the copies they       *)
(* replace aside, toggles, uninstalls, files picked or dropped by hand, the  *)
(* scan that asks what they are, and the cached answer to "any updates?".    *)
(* A file is a name and whether it is switched on; all of them are builds of *)
(* the same mod.  Calls that write hold ModService's lock.                   *)
EXTENDS Naturals, FiniteSets

CONSTANTS Names, Nil,
          Hosted,       \* the builds the provider has, each with the name it serves
          Foreign,      \* builds it has never seen
          MaxCalls,     \* bound on calls and scans
          MaxDrops      \* bound on files put there by hand

VARIABLES jar,          \* of each file, the build it is; Nil if absent
          rows,         \* the manifest on disk
          call,         \* the call that holds the lock, or Nil
          sig,          \* the folder as a scan last saw it, or Nil
          scans,        \* scans that wait for the lock
          check, cache, \* a CheckUpdates under way, and the answer that is kept
          calls, drops,
          told,         \* how the last install ended, in the step it did
          doubt         \* why a row, the cache or a scan's memory may be wrong

Builds == DOMAIN Hosted \cup Foreign
Files == Names \X BOOLEAN            \* <<n, FALSE>> is n.jar.disabled
Contents == Builds \cup {"half", Nil}
Row == [build : DOMAIN Hosted \cup {Nil}, known : BOOLEAN, asked : BOOLEAN]
Folders == [Files -> Contents]
\* Another file under a row's name; a row under another's; a file a scan could not
\* know of, or may take for one it saw; an answer older than its reset.
Doubts == {"rewritten", "misfiled", "overlooked", "outdated"}

ModTypeOK ==
  /\ jar \in Folders /\ rows \in [Files -> Row \cup {Nil}]
  /\ call \in [at : {"downloading", "superseding", "saving"}, build : DOMAIN Hosted,
               file : Files, aside : Folders, off : BOOLEAN, gone : SUBSET Names,
               was : Folders, trouble : BOOLEAN, saved : BOOLEAN]
              \cup [at : {"picked"}] \cup {Nil}
  /\ sig \in Folders \cup {Nil} /\ scans \in 0 .. MaxCalls
  /\ check \in [Files -> DOMAIN Hosted \cup {Nil}] \cup {Nil}
  /\ cache \in [Files -> DOMAIN Hosted \cup {Nil}] \cup {Nil}
  /\ calls \in 0 .. MaxCalls /\ drops \in 0 .. MaxDrops
  /\ told \in [ok : BOOLEAN, file : Files, was : Folders, wasRows : [Files -> Row \cup {Nil}],
               trouble : BOOLEAN] \cup {Nil}
  /\ doubt \subseteq Doubts

Empty == [f \in Files |-> Nil]
Installed(b) == [build |-> b, known |-> TRUE, asked |-> TRUE]

\* An empty folder, or one with an earlier install, switched on or off.
ModInit ==
  /\ \/ jar = Empty /\ rows = Empty
     \/ \E b \in DOMAIN Hosted, on \in BOOLEAN :
          /\ jar = [Empty EXCEPT ![<<Hosted[b], on>>] = b]
          /\ rows = [Empty EXCEPT ![<<Hosted[b], on>>] = Installed(b)]
  /\ call = Nil /\ sig = Nil /\ scans = 0
  /\ check = Nil /\ cache = Nil /\ calls = 0 /\ drops = 0 /\ told = Nil /\ doubt = {}

Present(f) == jar[f] # Nil
Doubting(d) == doubt' = doubt \cup d
When(d, condition) == IF condition THEN {d} ELSE {}
Called == calls < MaxCalls /\ calls' = calls + 1
Quiet == told' = Nil
Under(at) == call # Nil /\ call.at = at

\* clearUpdateCache forgets the answer, not the question under way.
ClearsCache == cache' = Nil /\ Doubting(When("outdated", check # Nil))

\* A scan saw build b under the name n, switched on or off.
Seen(n, b) == sig # Nil /\ \E on \in BOOLEAN : sig[<<n, on>>] = b

\* A file Konnekt writes anew has another time, and no signature matches it.
Rewrites(f) == sig' = IF Present(f) \/ Seen(f[1], jar'[f]) THEN Nil ELSE sig

\* Both names of one jar exist, or a row of one of them is of no file, so a
\* toggle may give a file the row of another.
Twins(n) == \/ \A on \in BOOLEAN : Present(<<n, on>>)
            \/ \E on \in BOOLEAN : rows[<<n, on>>] # Nil /\ ~Present(<<n, on>>)

-----------------------------------------------------------------------------
(* Install *)

Asks(build) ==
  [at |-> "downloading", build |-> build, file |-> <<Hosted[build], TRUE>>, aside |-> Empty,
   off |-> FALSE, gone |-> {}, was |-> jar, trouble |-> FALSE, saved |-> FALSE]

InstallBegins(build) ==
  /\ call = Nil /\ Called /\ call' = Asks(build)
  /\ Quiet /\ UNCHANGED <<jar, rows, sig, scans, check, cache, drops, doubt>>

Returns(ok, trouble) ==
  /\ call' = Nil
  /\ told' = [ok |-> ok, file |-> call.file, was |-> call.was, wasRows |-> rows,
              trouble |-> trouble]

\* Of several builds the earlier ones stay installed, but the cache is not cleared.
InstallFails ==
  /\ Under("downloading") /\ Returns(FALSE, call.trouble)
  /\ Doubting(When("outdated", call.saved))
  /\ UNCHANGED <<jar, rows, sig, scans, check, cache, calls, drops>>

\* The finished download is renamed over a file of its name.
Downloaded ==
  /\ Under("downloading")
  /\ jar' = [jar EXCEPT ![call.file] = call.build]
  /\ call' = [call EXCEPT !.at = "superseding", !.trouble = @ \/ Present(call.file)]
  /\ Rewrites(call.file)
  /\ Quiet /\ UNCHANGED <<rows, scans, check, cache, calls, drops, doubt>>

\* A copy is recognised by its row, the switched-off twin by its name.
Recognised ==
  {n \in Names \ {call.file[1]} : \E on \in BOOLEAN :
     rows[<<n, on>>] # Nil /\ rows[<<n, on>>].known}
Moved ==
  {f \in Files : Present(f) /\ \/ f[1] \in Recognised
                               \/ f = <<call.file[1], FALSE>>}

Supersedes ==
  /\ Under("superseding")
  /\ jar' = [f \in Files |-> IF f \in Moved THEN Nil ELSE jar[f]]
  /\ call' = [call EXCEPT
       !.at = "saving",
       !.aside = [f \in Files |-> IF f \in Moved THEN jar[f] ELSE Nil],
       !.off = \E f \in Moved : ~f[2] /\ \A g \in Moved : ~g[2],
       !.gone = Recognised \cup {f[1] : f \in Moved}]
  /\ Quiet /\ UNCHANGED <<rows, sig, scans, check, cache, calls, drops, doubt>>

\* A copy cannot be moved; one moved before it goes back, if it can be, and the
\* new file stays where it was put.
SupersedeFails ==
  /\ Under("superseding") /\ Moved # {} /\ Returns(FALSE, TRUE)
  /\ \E stuck \in {{}} \cup {{f} : f \in {g \in Moved : Moved # {g}}} :
       /\ jar' = [f \in Files |-> IF f \in stuck THEN Nil ELSE jar[f]]
       /\ Doubting(When("outdated", call.saved)
                   \cup When("rewritten", stuck # {} \/ rows[call.file] # Nil))
  /\ UNCHANGED <<rows, sig, scans, check, cache, calls, drops>>

\* A new file that takes the place of a switched-off one is switched off.
KeepsOff ==
  /\ Under("saving") /\ call.off /\ call.file[2]
  /\ jar' = [jar EXCEPT ![call.file] = Nil, ![<<call.file[1], FALSE>>] = jar[call.file]]
  /\ call' = [call EXCEPT !.file = <<@[1], FALSE>>]
  /\ Quiet /\ UNCHANGED <<rows, sig, scans, check, cache, calls, drops, doubt>>

\* undo: the new file out, those aside back; any of these may fail too.
Undoes ==
  /\ Under("saving")
  /\ \E stuck \in {{}, {call.file}, {f \in Files : call.aside[f] # Nil}} :
       /\ jar' = [f \in Files |->
                    IF f \in stuck THEN jar[f]
                    ELSE IF call.aside[f] # Nil THEN call.aside[f]
                    ELSE IF f = call.file THEN Nil ELSE jar[f]]
       /\ Returns(FALSE, call.trouble \/ stuck # {})
       /\ Doubting(When("outdated", call.saved) \cup When("rewritten", stuck # {}))
  /\ UNCHANGED <<rows, sig, scans, check, cache, calls, drops>>

\* The row is on disk before the old copies are deleted; the next build follows.
Saves ==
  /\ Under("saving") /\ (call.off => ~call.file[2])
  /\ rows' = [f \in Files |-> IF f = call.file THEN Installed(call.build)
                              ELSE IF f[1] \in call.gone THEN Nil ELSE rows[f]]
  /\ \/ Returns(TRUE, call.trouble) /\ ClearsCache
     \/ \E next \in DOMAIN Hosted \ {call.build} :
          call' = [Asks(next) EXCEPT !.saved = TRUE] /\ Quiet /\ UNCHANGED <<cache, doubt>>
  /\ UNCHANGED <<jar, sig, scans, check, calls, drops>>

InstallStep ==
  \/ \E b \in DOMAIN Hosted : InstallBegins(b)
  \/ InstallFails \/ Downloaded \/ Supersedes \/ SupersedeFails
  \/ KeepsOff \/ Undoes \/ Saves

-----------------------------------------------------------------------------
(* Toggling, removing, picking and scanning *)

\* The manifest is written after the rename, and a failure is not reported.
\* Rows of both names become rows of one, and the last of them counts; switching
\* on what is on only does that.
SetEnabled(n, on) ==
  /\ call = Nil /\ Called /\ (Present(<<n, ~on>>) \/ (on /\ Present(<<n, on>>)))
  /\ jar' = IF Present(<<n, ~on>>)
            THEN [jar EXCEPT ![<<n, on>>] = jar[<<n, ~on>>], ![<<n, ~on>>] = Nil] ELSE jar
  /\ \/ /\ \E row \in {rows[<<n, b>>] : b \in BOOLEAN} :
             /\ row = Nil => \A b \in BOOLEAN : rows[<<n, b>>] = Nil
             /\ rows' = [rows EXCEPT ![<<n, on>>] = row, ![<<n, ~on>>] = Nil]
        /\ Doubting(When("misfiled", Twins(n)))
     \/ UNCHANGED rows /\ Doubting({"misfiled"})
  /\ Quiet /\ UNCHANGED <<call, sig, scans, check, cache, drops>>

Uninstall(n) ==
  /\ call = Nil /\ Called /\ \E on \in BOOLEAN : Present(<<n, on>>)
  /\ jar' = [f \in Files |-> IF f[1] = n THEN Nil ELSE jar[f]]
  /\ \E saved \in BOOLEAN :
       /\ rows' = [f \in Files |-> IF saved /\ f[1] = n THEN Nil ELSE rows[f]]
       /\ Doubting(When("misfiled", ~saved) \cup When("outdated", check # Nil))
  /\ cache' = Nil
  /\ Quiet /\ UNCHANGED <<call, sig, scans, check, drops>>

\* InstallLocal replaces no copy but one of its own name; then it asks.
InstallLocal(n, b) ==
  /\ call = Nil /\ Called /\ jar' = [jar EXCEPT ![<<n, TRUE>>] = b]
  /\ \/ /\ rows' = [rows EXCEPT ![<<n, TRUE>>] =
                      [build |-> Nil, known |-> TRUE, asked |-> FALSE]]
        /\ call' = [at |-> "picked"] /\ UNCHANGED doubt
     \/ UNCHANGED <<rows, call>> /\ Doubting(When("rewritten", rows[<<n, TRUE>>] # Nil))
  /\ sig' = Nil /\ Quiet /\ UNCHANGED <<scans, check, cache, drops>>

\* A row that came from an install, or whose bytes were asked about once.
Accounted(f) == rows[f] # Nil /\ (rows[f].build # Nil \/ rows[f].asked)
Unknown == {f \in Files : Present(f) /\ ~Accounted(f)}

Answer(f) ==
  [build |-> IF jar[f] \in DOMAIN Hosted THEN jar[f] ELSE Nil,
   known |-> jar[f] # "half", asked |-> TRUE]

\* identifyUnknownLocked: one question for all; an unreadable jar is passed over,
\* and without an answer nothing is written.
Identifies(asked, clears) ==
  /\ rows' = [f \in Files |-> IF f \in asked THEN Answer(f) ELSE rows[f]]
  /\ cache' = IF clears THEN Nil ELSE cache
  /\ Doubting(When("outdated", clears /\ check # Nil)
              \cup When("overlooked", asked # Unknown)
              \cup When("rewritten", \E f \in asked : jar[f] = "half"))

\* What was picked is asked about if the provider can be reached.
PickEnds ==
  /\ Under("picked") /\ call' = Nil
  /\ \/ \E asked \in SUBSET Unknown : Identifies(asked, TRUE)
     \/ UNCHANGED rows /\ ClearsCache
  /\ Quiet /\ UNCHANGED <<jar, sig, scans, check, calls, drops>>

\* rescanServer: the folder's signature decides whether to ask, before the lock.
ScanLooks ==
  /\ Called /\ sig' = jar
  /\ scans' = IF sig = jar THEN scans ELSE scans + 1
  /\ Quiet /\ UNCHANGED <<jar, rows, call, check, cache, drops, doubt>>

ScanAsks ==
  /\ scans > 0 /\ call = Nil /\ scans' = scans - 1
  /\ \/ UNCHANGED sig /\ \E asked \in SUBSET Unknown : Identifies(asked, asked # {})
     \/ Unknown # {} /\ sig' = Nil /\ UNCHANGED <<rows, cache, doubt>>
  /\ Quiet /\ UNCHANGED <<jar, call, check, calls, drops>>

\* A file manager writes a jar little by little, or over another (a bound: not
\* into an install).
Drops(n, b) ==
  /\ drops < MaxDrops /\ drops' = drops + 1
  /\ \E written \in {b, "half"} : jar' = [jar EXCEPT ![<<n, TRUE>>] = written]
  /\ Doubting(When("rewritten", Present(<<n, TRUE>>) \/ rows[<<n, TRUE>>] # Nil)
              \cup When("overlooked", Seen(n, jar'[<<n, TRUE>>])))
  /\ sig' = IF Present(<<n, TRUE>>) THEN Nil ELSE sig
  /\ (call = Nil \/ Under("picked"))
  /\ Quiet /\ UNCHANGED <<rows, call, scans, check, cache, calls>>

DropEnds(n, b) ==
  /\ jar[<<n, TRUE>>] = "half" /\ jar' = [jar EXCEPT ![<<n, TRUE>>] = b]
  /\ (call = Nil \/ Under("picked")) /\ Doubting(When("overlooked", Seen(n, b)))
  /\ Quiet /\ UNCHANGED <<rows, call, sig, scans, check, cache, calls, drops>>

\* What ListInstalled, which takes no lock, tells of the builds it can name.
Listed == [f \in Files |-> IF Present(f) /\ rows[f] # Nil THEN rows[f].build ELSE Nil]

CheckBegins ==
  /\ check = Nil /\ cache = Nil /\ check' = Listed
  /\ Quiet /\ UNCHANGED <<jar, rows, call, sig, scans, cache, calls, drops, doubt>>

CheckEnds ==
  /\ check # Nil /\ cache' = check /\ check' = Nil
  /\ Quiet /\ UNCHANGED <<jar, rows, call, sig, scans, calls, drops, doubt>>

\* What was moved aside stays aside, and no scan sees it again.
ProgramEnds ==
  /\ call # Nil \/ sig # Nil
  /\ call' = Nil /\ sig' = Nil /\ scans' = 0 /\ check' = Nil /\ cache' = Nil
  /\ Doubting(When("rewritten", call # Nil))
  /\ Quiet /\ UNCHANGED <<jar, rows, calls, drops>>

ModNext ==
  \/ InstallStep
  \/ \E n \in Names, on \in BOOLEAN : SetEnabled(n, on)
  \/ \E n \in Names : Uninstall(n)
  \/ \E n \in Names, b \in Builds : InstallLocal(n, b) \/ Drops(n, b) \/ DropEnds(n, b)
  \/ PickEnds \/ ScanLooks \/ ScanAsks \/ CheckBegins \/ CheckEnds \/ ProgramEnds

-----------------------------------------------------------------------------
\* Without trouble a failed install leaves the folder, which the manifest still
\* describes, as it was; a successful one leaves beside the new file neither its
\* twin nor any copy that a row told of.
InstallIsAllOrNothing ==
  told # Nil =>
    /\ (~told.ok /\ ~told.trouble) => jar = told.was
    /\ told.ok => \A f \in Files : (Present(f) /\ f # told.file) =>
         /\ f[1] # told.file[1]
         /\ \A on \in BOOLEAN : told.wasRows[<<f[1], on>>] = Nil
                               \/ ~told.wasRows[<<f[1], on>>].known

\* A row names the build its file is: nobody put another file there, the
\* manifest could be written, and no toggle met a twin or a row of no file.
RowsAreTrue ==
  (call = Nil /\ doubt \cap {"rewritten", "misfiled"} = {}) =>
    \A f \in Files : (Present(f) /\ rows[f] # Nil /\ rows[f].build # Nil) => jar[f] = rows[f].build

\* A folder a scan will pass over as unchanged has no file nobody asked about.
QuietFolderIsKnown ==
  (sig = jar /\ scans = 0 /\ call = Nil
     /\ doubt \cap {"overlooked", "misfiled"} = {}) => Unknown = {}

\* The answer that is kept is about the builds that are there.
CacheIsCurrent ==
  (cache # Nil /\ call = Nil /\ doubt \cap {"outdated", "misfiled"} = {}) =>
    \A f \in Files : (cache[f] # Nil /\ Present(f) /\ rows[f] # Nil) => rows[f].build = cache[f]

FolderIsTrue == InstallIsAllOrNothing /\ RowsAreTrue /\ QuietFolderIsKnown /\ CacheIsCurrent

\* Known not to hold (modservice.go:358): "one jar, and a manifest that agrees" -
\* a download that took the place of a file of its name leaves none when undone.
FailureKeepsTheJar ==
  (told # Nil /\ ~told.ok) => \A f \in Files : told.was[f] # Nil => Present(f)

\* Known not to hold (modservice.go:481): "one enabled copy is enough to keep it
\* enabled" - the one the download overwrote is not counted.
EnabledStaysEnabled ==
  (told # Nil /\ told.ok) =>
    ((\E f \in Files : f[2] /\ told.was[f] # Nil /\ told.wasRows[f] # Nil /\ told.wasRows[f].known)
       => told.file[2])

\* Known not to hold (modidentify.go:128): a file asked about while it was still
\* being copied is never asked about again.
LocalMeansUnknown ==
  \A f \in Files : (Present(f) /\ rows[f] # Nil /\ rows[f].asked /\ rows[f].build = Nil)
                      => jar[f] \notin DOMAIN Hosted
=============================================================================
