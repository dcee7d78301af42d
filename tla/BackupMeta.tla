----------------------------- MODULE BackupMeta -----------------------------
(* The names and flags of a folder's backups, meta.json, beside the archives *)
(* (backup.go): one backup at a time writes its flag when its archive is     *)
(* done, while the user renames and deletes.  Each reads the whole file,     *)
(* changes one entry and writes it all back, with no lock.                   *)
EXTENDS Naturals, FiniteSets

CONSTANTS Archives, Nil,
          MaxNames,     \* bound on the names given
          MaxCalls      \* bound on the calls under way

VARIABLES made,         \* the archives ever made: a name, with its time, is new
          zips,         \* those in the folder
          lacking,      \* those made without the Distant Horizons databases
          meta,         \* meta.json: of each archive, its entry or Nil
          calls,        \* the calls under way
          given,        \* the names given so far
          wanted,       \* the name the user last gave each archive, 0 for none
          overlapped,   \* two calls have been under way at once
          unwritten     \* archives whose entry or removal could not be written

Entries == [name : 0 .. MaxNames, lods : BOOLEAN]
Files == [Archives -> Entries \cup {Nil}]
Calls == [kind : {"flag", "delete", "rename", "remove"}, on : Archives, name : 0 .. MaxNames,
          read : Files \cup {Nil}]

MetaTypeOK ==
  /\ zips \subseteq made /\ made \subseteq Archives /\ lacking \subseteq Archives
  /\ meta \in Files /\ calls \subseteq Calls
  /\ given \in 0 .. MaxNames /\ wanted \in [Archives -> 0 .. MaxNames]
  /\ overlapped \in BOOLEAN /\ unwritten \subseteq Archives

MetaInit ==
  /\ made = {} /\ zips = {} /\ lacking = {} /\ meta = [a \in Archives |-> Nil] /\ calls = {}
  /\ given = 0 /\ wanted = [a \in Archives |-> 0] /\ overlapped = FALSE /\ unwritten = {}

Entry(file, a) == IF file[a] = Nil THEN [name |-> 0, lods |-> FALSE] ELSE file[a]

Begins(kind, a, name) ==
  /\ Cardinality(calls) < MaxCalls
  /\ calls' = calls \cup {[kind |-> kind, on |-> a, name |-> name, read |-> Nil]}
  /\ overlapped' = (overlapped \/ calls # {})

\* The archive is whole.  finishLods has nothing to do when nothing was left out.
ArchiveMade(a, lods) ==
  /\ a \notin made /\ \A c \in calls : c.kind # "flag"
  /\ made' = made \cup {a} /\ zips' = zips \cup {a}
  /\ lacking' = IF lods THEN lacking \cup {a} ELSE lacking
  /\ IF lods THEN Begins("flag", a, 0) ELSE UNCHANGED <<calls, overlapped>>
  /\ UNCHANGED <<meta, given, wanted, unwritten>>

\* DeleteBackup and UpdateBackupMeta, once findBackupFile has found the archive.
DeleteAsked(a) ==
  /\ a \in zips /\ Begins("delete", a, 0)
  /\ UNCHANGED <<made, zips, lacking, meta, given, wanted, unwritten>>

RenameAsked(a) ==
  /\ a \in zips /\ given < MaxNames /\ given' = given + 1
  /\ Begins("rename", a, given')
  /\ UNCHANGED <<made, zips, lacking, meta, wanted, unwritten>>

Becomes(c, d) == calls' = (calls \ {c}) \cup {d}

\* loadMeta; a rename of an archive that is gone by now fails.
Loads(c) ==
  /\ c.read = Nil /\ c.kind # "remove"
  /\ IF c.kind = "rename" /\ c.on \notin zips
     THEN calls' = calls \ {c}
     ELSE Becomes(c, [c EXCEPT !.read = meta])
  /\ UNCHANGED <<made, zips, lacking, meta, given, wanted, overlapped, unwritten>>

\* What a call makes of the file it read; a rename carries the flag over by hand.
Changed(c) ==
  [c.read EXCEPT ![c.on] =
     CASE c.kind = "flag" -> [Entry(c.read, c.on) EXCEPT !.lods = TRUE]
       [] c.kind = "rename" -> [name |-> c.name, lods |-> Entry(c.read, c.on).lods]
       [] c.kind = "delete" -> Nil]

\* A delete goes on to the archive, whatever became of its entry.
Over(c) ==
  IF c.kind = "delete" THEN Becomes(c, [c EXCEPT !.kind = "remove", !.read = Nil])
  ELSE calls' = calls \ {c}

Saves(c) ==
  /\ c.read # Nil /\ meta' = Changed(c) /\ Over(c)
  /\ wanted' = IF c.kind = "rename" THEN [wanted EXCEPT ![c.on] = c.name] ELSE wanted
  /\ UNCHANGED <<made, zips, lacking, given, overlapped, unwritten>>

\* The read or the write fails; only a rename says so.
SaveFails(c) ==
  /\ c.kind # "remove" /\ Over(c)
  /\ unwritten' = unwritten \cup (IF c.kind = "rename" THEN {} ELSE {c.on})
  /\ UNCHANGED <<made, zips, lacking, meta, given, wanted, overlapped>>

\* The archive is removed last, and may stay.
Removes(c) ==
  /\ c.kind = "remove" /\ calls' = calls \ {c}
  /\ \/ zips' = zips \ {c.on} /\ UNCHANGED unwritten
     \/ unwritten' = unwritten \cup {c.on} /\ UNCHANGED zips
  /\ UNCHANGED <<made, lacking, meta, given, wanted, overlapped>>

MetaNext ==
  \/ \E a \in Archives :
       \/ \E lods \in BOOLEAN : ArchiveMade(a, lods)
       \/ DeleteAsked(a) \/ RenameAsked(a)
  \/ \E c \in calls : Loads(c) \/ Saves(c) \/ SaveFails(c) \/ Removes(c)

Pending(kind) == {c.on : c \in {d \in calls : d.kind = kind}}

\* An archive is flagged when it lacks the databases and only then, and has the
\* name the user gave it last: "a restore and the tile can say so later"
\* (backup.go:397).  Not when two calls overlap, one's write undoing the other's.
EntryIsTrue(a) ==
  /\ a \in Pending("flag") \/ (Entry(meta, a).lods <=> a \in lacking)
  /\ Entry(meta, a).name = wanted[a]

MetaIsTrue == ~overlapped => \A a \in zips \ (unwritten \cup Pending("remove")) : EntryIsTrue(a)

\* Known not to hold: a delete that cannot remove the archive has already
\* forgotten that it lacks the databases, and a flag's write can undo a rename.
MetaIsAlwaysTrue == \A a \in zips \ Pending("remove") : EntryIsTrue(a)
=============================================================================
