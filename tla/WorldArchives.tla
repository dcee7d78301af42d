--------------------------- MODULE WorldArchives ---------------------------
(* The worlds of one server and the archives made of them: ListWorlds,       *)
(* SetActiveWorld, DeleteWorld, RenameWorld and DuplicateWorld (worlds.go),   *)
(* and CreateBackup, CreateWorldBackup, RestoreBackup, DeleteBackup and       *)
(* GetBackupWorlds (backup.go).                                               *)
(*                                                                           *)
(* A world is a folder and, on a Paper server, a nether folder beside it; on  *)
(* a vanilla server the nether is the DIM-1 inside.  The end, kept the same   *)
(* way, is left out.  A folder's data is <<origin, age>>: the world it was    *)
(* generated for and the saves since.  The claim makes one archive at a time, *)
(* BackupSaves has the quiesce, RestoreSwap the renames of a restore and      *)
(* BackupMeta the sidecar, so each of them is one step here.                   *)
(* Bounds: MaxAge saves of a world, MaxRows archives at a time, MaxSteps steps. *)
EXTENDS Naturals, FiniteSets, FiniteSetsExt

CONSTANTS Nil,
  Worlds,    \* the world names
  Default,   \* the one a server without a level-name loads
  Drawn,     \* the archive names reserveBackupFile may draw: five digits and a date
  Older,     \* a name an older version gave the archive of a world
  MaxAge, MaxRows, MaxSteps

Suffixes == {"", "_nether"}
Folders == Worlds \X Suffixes
Extras == {"DIM-1", "lods"}   \* what an overworld may hold besides: a nether, DH's databases

VARIABLES
  folder,     \* [data, level, extra] of each folder in the working directory, or Nil
  levelName,  \* level-name of server.properties, Nil where it has none
  running,
  rows,       \* the archives on disk
  blended,    \* the worlds a documented exception may have mixed
  steps,      \* counted for the bound
  mishap,     \* a delete, a rename or a copy stopped half way
  astray      \* a restore put back something else than the archive was made of

worldVars == <<folder, levelName, running, rows, blended, steps, mishap, astray>>

Over(w) == <<w, "">>
Nether(w) == <<w, "_nether">>
Exists(f) == folder[f] # Nil
\* worldSiblings, existingWorldRoots
Siblings(w) == {<<w, s>> : s \in Suffixes}
Active == IF levelName = Nil THEN Default ELSE levelName

\* requireWorld: a folder that directly holds a level.dat
IsWorld(held, f) == held[f] # Nil /\ held[f].level
RequireWorld(w) == IsWorld(folder, Over(w))

\* The dimensions of a system, for ListWorlds and for a whole server's archive:
\* a nether folder with a level.dat, or a DIM-1 that no such folder shadows.
Dimensions(held, w) ==
  (IF IsWorld(held, Over(w)) THEN {"overworld"} ELSE {})
    \cup (IF IsWorld(held, Nether(w)) THEN {"nether folder"}
          ELSE IF held[Over(w)] # Nil /\ "DIM-1" \in held[Over(w)].extra THEN {"DIM-1"} ELSE {})
Systems(held) == {w \in Worlds : \E f \in Siblings(w) : IsWorld(held, f)}
ListWorlds == [w \in Systems(folder) |-> [dims |-> Dimensions(folder, w), active |-> w = Active]]
WorldsFromServerZip(row) ==
  [w \in Systems(row.held) |-> [dims |-> Dimensions(row.held, w), active |-> w = row.props]]

\* worldFilesAreMultiRoot and stagedLayoutIsMultiRoot: a level.dat at the root is
\* the layout from before the dimensions were archived side by side.
IsMultiRoot(row) == row.layout = "side by side"
\* worldsFromWorldZip: a nether folder counts with or without a level.dat
WorldsFromWorldZip(row) ==
  {"overworld"}
    \cup (IF IsMultiRoot(row) /\ row.held[Nether(row.of)] # Nil THEN {"nether folder"}
          ELSE IF "DIM-1" \in row.held[Over(row.of)].extra THEN {"DIM-1"} ELSE {})

------------------------------------------------------------------------------
\* findBackupFile: server/, then worlds/*/, then the root, where an archive made
\* before the split is the whole server's if its name starts with five digits.
Where(name, d) == {r \in rows : r.name = name /\ r.dir = d}
FindBackupFile(name) ==
  IF Where(name, "server") # {} THEN Where(name, "server")
  ELSE IF \E w \in Worlds : Where(name, w) # {}
       THEN Where(name, CHOOSE w \in Worlds : Where(name, w) # {})
       ELSE Where(name, "root")
IsServerFilename(name) == name \in Drawn
KindOf(row) == IF row.dir = "server" \/ (row.dir = "root" /\ IsServerFilename(row.name)) THEN "server" ELSE "world"
\* scanBackupsInDir, ListBackups: every archive of the three places
ListBackups == {[name |-> r.name, kind |-> KindOf(r), world |-> IF r.dir \in Worlds THEN r.dir ELSE Nil] : r \in rows}

\* backupNameTaken, reserveBackupFile: free in every folder findBackupFile searches
NameTaken(name) == \E r \in rows : r.name = name
\* A bug: only the folder the archive goes to is looked at.
NameTakenHere(name) == \E r \in rows : r.name = name /\ r.dir = "server"

\* writeTreeToZip: regular files but Distant Horizons' databases while the server runs
Archived(f) ==
  IF folder[f] = Nil THEN Nil
  ELSE [folder[f] EXCEPT !.extra = IF running THEN @ \ {"lods"} ELSE @]
Skips(fs) == running /\ \E f \in fs : Exists(f) /\ "lods" \in folder[f].extra
Archive(dir, name, of, fs) ==
  [dir |-> dir, name |-> name, of |-> of, whole |-> TRUE, layout |-> "side by side", props |-> IF of = Nil THEN levelName ELSE Nil,
   held |-> [f \in Folders |-> IF f \in fs THEN Archived(f) ELSE Nil],
   lodsSkipped |-> Skips(fs), was |-> [f \in fs |-> folder[f]],
   listed |-> IF of = Nil THEN ListWorlds ELSE <<>>, blend |-> IF of = Nil THEN blended ELSE blended \cap {of}]

\* CreateBackup; an archive that fails is removed again (failBackup)
CreateBackup ==
  /\ Cardinality(rows) < MaxRows
  /\ \E name \in Drawn :
       /\ ~NameTaken(name)
       /\ rows' = rows \cup {Archive("server", name, Nil, Folders)}
  /\ UNCHANGED <<folder, levelName, running, blended, mishap, astray>>

\* BackupWorld, CreateWorldBackup
CreateWorldBackup(w) ==
  /\ RequireWorld(w) /\ Cardinality(rows) < MaxRows
  /\ \E name \in Drawn :
       /\ ~NameTaken(name)
       /\ rows' = rows \cup {Archive(w, name, w, Siblings(w))}
  /\ UNCHANGED <<folder, levelName, running, blended, mishap, astray>>

\* DeleteBackup: by name, wherever it is found
DeleteBackup(name) ==
  /\ FindBackupFile(name) # {}
  /\ rows' = rows \ FindBackupFile(name)
  /\ UNCHANGED <<folder, levelName, running, blended, mishap, astray>>

\* What a restore owes: each folder the archive was made of as it was then, but
\* for databases the archive says it lacks, and every other folder as it is now;
\* nothing of an archive that cannot be read to its end.
Owed(row, target, f) ==
  IF ~row.whole THEN folder[f]
  ELSE IF row.of = Nil THEN row.was[f]
  ELSE IF f \in Siblings(target) /\ <<row.of, f[2]>> \in DOMAIN row.was /\ row.was[<<row.of, f[2]>>] # Nil
       THEN row.was[<<row.of, f[2]>>] ELSE folder[f]
Same(row, got, owed) ==
  \/ got = owed
  \/ /\ got # Nil /\ owed # Nil /\ row.lodsSkipped
     /\ [got EXCEPT !.extra = @ \cup {"lods"}] = owed

\* RestoreBackup of a whole server: the working directory is the archive's
RestoreServer(row) ==
  /\ folder' = row.held /\ levelName' = row.props
  /\ blended' = row.blend

\* RestoreBackup of a world: each dimension the archive holds, no other
Restored(row, target) ==
  [f \in Folders |->
     IF f \in Siblings(target) /\ row.held[<<row.of, f[2]>>] # Nil
       /\ (f[2] = "" \/ IsMultiRoot(row)) THEN row.held[<<row.of, f[2]>>] ELSE folder[f]]
RestoreWorld(row, target) ==
  /\ folder' = Restored(row, target)
  /\ blended' = IF (row.held[Nether(row.of)] = Nil /\ Exists(Nether(target))) \/ row.of \in row.blend
                THEN blended \cup {target} ELSE blended
  /\ UNCHANGED levelName

\* unzipTo, zipDeclaredTotal: all of it is extracted beside the worlds first, so
\* an archive that is cut short, or declares too much, changes no world.
Unzips(row) == row.whole

RestoreBackup(name) ==
  /\ ~running
  /\ \E row \in FindBackupFile(name) :
       LET target == IF row.dir \in Worlds THEN row.dir ELSE Active IN
       /\ IF ~Unzips(row) THEN UNCHANGED <<folder, levelName, blended>>
          ELSE IF KindOf(row) = "server" THEN RestoreServer(row) ELSE RestoreWorld(row, target)
       /\ astray' = (astray \/ \E f \in Folders : ~Same(row, folder'[f], Owed(row, target, f)))
  /\ UNCHANGED <<running, rows, mishap>>

------------------------------------------------------------------------------
\* SetActiveWorld
SetActiveWorld(w) ==
  /\ ~running /\ RequireWorld(w)
  /\ levelName' = w
  /\ UNCHANGED <<folder, running, rows, blended, mishap, astray>>

\* DeleteWorld: the folder, then its siblings; an error leaves the rest
DeleteWorld(w) ==
  /\ ~running /\ RequireWorld(w) /\ w # Active
  /\ \E half \in BOOLEAN :
       LET gone == IF half THEN {Over(w)} ELSE Siblings(w) IN
       /\ half => Exists(Nether(w))
       /\ folder' = [f \in Folders |-> IF f \in gone THEN Nil ELSE folder[f]]
       /\ mishap' = (mishap \/ half)
       /\ blended' = IF half THEN blended ELSE blended \ {w}
  /\ UNCHANGED <<levelName, running, rows, astray>>

\* RenameWorld: folder by folder, then level-name.  A nether folder is not moved
\* over another, and any step may fail: what was moved stays moved.
RenameWorld(w, n) ==
  /\ ~running /\ w # n /\ RequireWorld(w) /\ ~Exists(Over(n))
  /\ \E fails \in {Nil, "nether", "level-name"} :
       LET moved == {f \in Siblings(w) : Exists(f) /\ (f[2] = "_nether" => fails # "nether")} IN
       /\ (fails = "nether") => Exists(Nether(w))
       /\ (fails # "nether") => ~(Exists(Nether(w)) /\ Exists(Nether(n)))
       /\ (fails = "level-name") => w = Active
       /\ folder' = [f \in Folders |->
            IF f[1] = n /\ <<w, f[2]>> \in moved THEN folder[<<w, f[2]>>]
            ELSE IF f \in moved THEN Nil ELSE folder[f]]
       /\ levelName' = IF fails = Nil /\ w = Active THEN n ELSE levelName
       /\ mishap' = (mishap \/ fails # Nil)
       /\ blended' = IF w \in blended THEN (blended \ {w}) \cup {n} ELSE blended
  /\ UNCHANGED <<running, rows, astray>>

\* DuplicateWorld: also of a running server, then without the databases
DuplicateWorld(w, n) ==
  /\ RequireWorld(w) /\ ~Exists(Over(n))
  /\ \E half \in BOOLEAN :
       LET copied == {f \in Siblings(w) : Exists(f) /\ (half => f[2] = "")} IN
       /\ folder' = [f \in Folders |-> IF f[1] = n /\ <<w, f[2]>> \in copied THEN Archived(<<w, f[2]>>) ELSE folder[f]]
       /\ half => Exists(Nether(w))
       /\ mishap' = (mishap \/ half)
  /\ blended' = IF w \in blended THEN blended \cup {n} ELSE blended
  /\ UNCHANGED <<levelName, running, rows, astray>>

\* External: the server starts, generating the world level-name points at if it
\* is not there, saves both its folders, and stops.
Start ==
  /\ ~running /\ running' = TRUE
  /\ folder' = IF Exists(Over(Active)) THEN folder
               ELSE [folder EXCEPT ![Over(Active)] = [data |-> <<"new", 0>>, level |-> TRUE, extra |-> {}]]
  /\ UNCHANGED <<levelName, rows, blended, mishap, astray>>
Aged(f) == [folder[f] EXCEPT !.data[2] = @ + 1]
Save ==
  /\ running /\ \A f \in Siblings(Active) : Exists(f) => folder[f].data[2] < MaxAge
  /\ folder' = [f \in Folders |-> IF f \in Siblings(Active) /\ Exists(f) THEN Aged(f) ELSE folder[f]]
  /\ UNCHANGED <<levelName, running, rows, blended, mishap, astray>>
Stop == running /\ running' = FALSE /\ UNCHANGED <<folder, levelName, rows, blended, mishap, astray>>

------------------------------------------------------------------------------
\* An archive an older version left: a world's in the root or under its world,
\* the overworld folder itself at the zip's root, or a whole server's in the root.
Legacy(dir, name, of) ==
  [Archive(dir, name, of, IF of = Nil THEN Folders ELSE {Over(of)})
     EXCEPT !.layout = IF of = Nil THEN "side by side" ELSE "overworld at the root"]
LegacyRows ==
  LET drawn == CHOOSE name \in Drawn : TRUE IN
  {{}, {Legacy(Default, drawn, Default)}, {[Legacy(Default, drawn, Default) EXCEPT !.whole = FALSE]},
   {Legacy("root", drawn, Nil)}, {Legacy("root", Older, Default)}}

FirstFolders(w) ==
  [Suffixes -> {Nil} \cup [data : {<<w, 0>>}, level : BOOLEAN, extra : SUBSET Extras]]
\* The databases of one world and a nether without a level.dat in one are enough.
Plausible(w, both) ==
  LET nether == both["_nether"] # Nil \/ (both[""] # Nil /\ "DIM-1" \in both[""].extra) IN
  /\ both[""] = Nil => (w # Default /\ both["_nether"] = Nil)
  /\ both[""] # Nil => both[""].level /\ ("lods" \in both[""].extra <=> w = Default /\ nether)
  /\ both["_nether"] # Nil => /\ both["_nether"].extra = {} /\ "DIM-1" \notin both[""].extra
                              /\ w # Default => both["_nether"].level

\* One state to start from, for a behaviour that is not about worlds.
Bare == /\ rows = {} /\ levelName = Nil
        /\ \A f \in Folders : Exists(f) => f = Over(Default) /\ folder[f].extra = {}

WorldsInit ==
  /\ folder \in {[f \in Folders |-> both[f[1]][f[2]]] :
       both \in {h \in [Worlds -> UNION {FirstFolders(w) : w \in Worlds}] :
                   \A w \in Worlds : h[w] \in FirstFolders(w) /\ Plausible(w, h[w])}}
  /\ levelName \in {Nil, Default}
  /\ running = FALSE /\ steps = 0 /\ blended = {} /\ mishap = FALSE /\ astray = FALSE
  /\ rows \in LegacyRows

WorldsNext ==
  /\ steps < MaxSteps /\ steps' = steps + 1
  /\ \/ CreateBackup \/ Start \/ Save \/ Stop
     \/ \E w \in Worlds : CreateWorldBackup(w) \/ SetActiveWorld(w) \/ DeleteWorld(w)
     \/ \E w, n \in Worlds : RenameWorld(w, n) \/ DuplicateWorld(w, n)
     \/ \E name \in Drawn \cup {Older} : DeleteBackup(name) \/ RestoreBackup(name)

------------------------------------------------------------------------------
Contents == [data : (Worlds \cup {"new"}) \X (0 .. MaxAge), level : BOOLEAN, extra : SUBSET Extras]
WorldsTypeOK ==
  /\ folder \in [Folders -> {Nil} \cup Contents]
  /\ levelName \in {Nil} \cup Worlds /\ running \in BOOLEAN
  /\ \A r \in rows : /\ r.name \in Drawn \cup {Older} /\ r.dir \in Worlds \cup {"server", "root"}
                     /\ r.held \in [Folders -> {Nil} \cup Contents]
  /\ blended \subseteq Worlds /\ steps \in 0 .. MaxSteps /\ mishap \in BOOLEAN /\ astray \in BOOLEAN

\* One archive answers to a name, whichever folder it is in, and it is the one
\* the list shows under that name, of the kind it was made as (backup.go:1382,
\* findBackupFile): restoring or deleting a row acts on that row.
RowsAreReached ==
  /\ \A r \in rows : FindBackupFile(r.name) = {r} /\ (KindOf(r) = "server" <=> r.of = Nil)
  /\ Cardinality(ListBackups) = Cardinality(rows)

\* What an archive is said to hold is what the Worlds tile listed when it was
\* made, dimension by dimension (worldsFromServerZip against ListWorlds), the
\* active world too where level-name was written; and of a world, what a restore
\* puts in place (worldsFromWorldZip against stagedLayoutIsMultiRoot).
ArchivesAreDescribed == \A r \in rows :
  /\ r.of = Nil => \A w \in Worlds :
       /\ w \in DOMAIN WorldsFromServerZip(r) <=> w \in DOMAIN r.listed
       /\ w \in DOMAIN r.listed =>
            /\ WorldsFromServerZip(r)[w].dims = r.listed[w].dims
            /\ r.props # Nil => WorldsFromServerZip(r)[w].active = r.listed[w].active
  /\ r.of # Nil =>
       ("nether folder" \in WorldsFromWorldZip(r) <=> (IsMultiRoot(r) /\ r.held[Nether(r.of)] # Nil))

\* The world the server is set to load is there, and no world's nether is beside
\* another world's overworld, whatever worlds are deleted, renamed, copied and
\* restored, unless a step failed half way or an archive without a nether was
\* restored beside one (RestoreBackup leaves what an archive does not mention).
ActiveIsKept == ~mishap => Exists(Over(Active))
WorldsAreWhole == ~mishap =>
  \A w \in Worlds \ blended : Exists(Over(w)) /\ Exists(Nether(w)) => folder[Over(w)].data[1] = folder[Nether(w)].data[1]
NothingIsStray == ~mishap => \A w \in Worlds \ blended : Exists(Nether(w)) => Exists(Over(w))

WorldsAreSound ==
  /\ RowsAreReached /\ ArchivesAreDescribed
  /\ ~astray /\ ActiveIsKept /\ WorldsAreWhole /\ NothingIsStray

WorldsSpec == WorldsInit /\ [][WorldsNext]_worldVars
=============================================================================
