------------------------ MODULE ClientStoresProofs ------------------------
(***************************************************************************)
(* Theorems about the frontend's stores, and about the parts around them   *)
(* that are no one tile's (ClientShell), for any servers, edits, values    *)
(* and fields, and any number of calls in flight.                          *)
(***************************************************************************)
EXTENDS ClientStores, FiniteSetTheorems, SequenceTheorems, TLAPS

\* A history read that still counts is of the server the effects last ran
\* with, and no line is of a server the user has left for good.
ConsoleInv ==
  /\ ConsoleTypeOK
  /\ lines \cup pending \subseteq {ref, effected, Nil}
  /\ \A r \in replays : r.live => r.of = effected

\* What is being fetched is a server's.
SchedulesInv ==
  /\ StoreTypeOK
  /\ StoreIsOneServers
  /\ fetching => server \in Servers

\* The latest load is one, and about the panel's server.
PanelInv ==
  /\ PanelTypeOK
  /\ SlotIsOneServers
  /\ \A l \in loads : l.status \in {Nil, l.of} /\ (l.latest => l.of = statusFor)
  /\ \A l, m \in loads : l.latest /\ m.latest => l = m

\* The active id names a server of the list, unless the list is empty.
Names(id, list) == IF list = <<>> THEN id = Nil ELSE id \in ServerIds(list)

\* The store and the disk hold the same.
Agree == configs = stored /\ activeId = storedActive

\* What call c leaves to do: the disk is ahead of the store by exactly what
\* the reply will change.
Ahead(c) ==
  CASE c.kind = "load" -> c.phase = "read" => c.read = stored
    [] c.kind = "save" ->
         IF c.phase = "sent" THEN Agree
         ELSE /\ stored = With(configs, c.cfg)
              /\ storedActive = IF activeId = Nil THEN c.cfg.id ELSE activeId
    [] c.kind = "delete" ->
         IF c.phase = "sent" THEN Agree
         ELSE /\ stored = Without(configs, c.id)
              /\ storedActive = IF activeId = c.id THEN First(stored) ELSE activeId
    [] c.kind = "activate" ->
         IF c.phase = "sent" THEN Agree /\ c.id \in ServerIds(stored)
         ELSE stored = configs /\ storedActive = c.id

ConfigsInv ==
  /\ ConfigsTypeOK
  /\ ~ unsure =>
       /\ Names(storedActive, stored)
       /\ calls = {} => Agree
       /\ \A c \in calls : c.phase # "failed" /\ Ahead(c)
       /\ \A c, d \in calls : c = d

\* What is on the screen while write w is under way, and what is on the disk.
Pair(w) ==
  /\ value = IF optimistic THEN w.next ELSE w.prev
  /\ disk = IF w.phase = "done" THEN w.next ELSE w.prev

\* Nothing crossed, so at most one write or one reload is under way.
WrittenInv ==
  /\ WriteTypeOK
  /\ ~ crossed =>
       /\ AtRest => value = disk
       /\ \A w \in writes : Pair(w) /\ reread = "no"
       /\ \A w, x \in writes : w = x
       /\ reread = "answered" => answer = disk

Climbs(s) == \A i, j \in 1 .. Len(s) : i < j => s[i] <= s[j]
Falls(s) == \A i, j \in 1 .. Len(s) : i < j => s[j] <= s[i]
UpTo(s, r) == \A i \in 1 .. Len(s) : s[i] <= r
DownTo(s, r) == \A i \in 1 .. Len(s) : r <= s[i]

\* The past leads up to revision r, and the future on from it.
Around(r) == /\ Climbs(past) /\ UpTo(past, r)
             /\ Falls(future) /\ DownTo(future, r)

\* A field's burst of keystrokes has no redo line, nothing is newer than the
\* newest revision, past and future share the room of one, and the history is
\* in order around the canvas or, during a drag, around what it began with.
HistoryInv ==
  /\ History!HistoryTypeOK
  /\ lastTag # Nil => future = <<>>
  /\ Len(past) + Len(future) <= MAX_HISTORY
  /\ canvas <= drawn /\ (drag # Nil => drag <= drawn)
  /\ UpTo(past, drawn) /\ UpTo(future, drawn)
  /\ ~ meddled => /\ Around(IF drag = Nil THEN canvas ELSE drag)
                  /\ drag # Nil => drag <= canvas

StoresInv ==
  /\ which = "console" => ConsoleInv
  /\ which = "schedules" => SchedulesInv
  /\ which = "panel" => PanelInv
  /\ which = "configs" => ConfigsInv
  /\ which = "written" => WrittenInv
  /\ which = "history" => HistoryInv

-----------------------------------------------------------------------------
\* The console.

\* Every step of the console keeps its history reads and its lines in order.
LEMMA ConsoleKeeps == ConsoleInv /\ ConsoleNext => ConsoleInv'
<1> SUFFICES ASSUME ConsoleInv, ConsoleNext
             PROVE  ConsoleInv'
  OBVIOUS
<1> USE DEF ConsoleInv, ConsoleTypeOK, Ids
<1>1. ASSUME NEW s \in Ids, Render(s)
      PROVE  ConsoleInv'
  BY <1>1 DEF Render
<1>2. ASSUME NEW s \in Ids, HearLine(s)
      PROVE  ConsoleInv'
  BY <1>2 DEF HearLine
<1>3. CASE Switch
  <2>1. /\ Cancelled(replays) \subseteq [of : Servers, live : BOOLEAN]
        /\ \A r \in Cancelled(replays) : ~ r.live
    BY DEF Cancelled
  <2>2. CASE ref = Nil
    BY <1>3, <2>1, <2>2 DEF Switch
  <2>3. CASE ref # Nil
    <3> DEFINE r == [of |-> ref, live |-> TRUE]
    <3>1. r \in [of : Servers, live : BOOLEAN] /\ r.of = ref
      BY <2>3
    <3>2. replays' = Cancelled(replays) \cup {r}
      BY <1>3, <2>3 DEF Switch
    <3> HIDE DEF r
    <3> QED
      BY <1>3, <2>1, <3>1, <3>2 DEF Switch
  <2> QED
    BY <2>2, <2>3
<1>4. CASE Flush
  BY <1>4 DEF Flush
<1>5. ASSUME NEW r \in replays, ReplayLands(r) \/ ReplayFails(r)
      PROVE  ConsoleInv'
  BY <1>5 DEF ReplayLands, ReplayFails
<1> QED
  BY <1>1, <1>2, <1>3, <1>4, <1>5 DEF ConsoleNext

-----------------------------------------------------------------------------
\* The schedules.

\* A hydrate leaves the list, and the answer it waits for, its own server's.
LEMMA HydrateKeeps ==
  ASSUME SchedulesInv, NEW s \in Servers, Mount(s)
  PROVE  SchedulesInv'
<1> USE DEF SchedulesInv, StoreTypeOK, StoreIsOneServers, ListIsOneServers,
            TileHasItsServer, LoadingEnds, StoreIds
<1>1. CASE hydratedFor = s \/ (fetching /\ server = s)
  BY <1>1, StoresAssumption DEF Mount, Hydrate
<1>2. CASE ~ (hydratedFor = s \/ (fetching /\ server = s))
  <2>1. fetches[s] + 1 \in 1 .. MaxCalls
    BY <1>2, StoresAssumption DEF Mount, Hydrate
  <2> QED
    BY <1>2, <2>1 DEF Mount, Hydrate, Kept
<1> QED
  BY <1>1, <1>2

\* Every step of the scheduler's store keeps it to one server.
LEMMA SchedulesKeep == SchedulesInv /\ StoreNext => SchedulesInv'
<1> SUFFICES ASSUME SchedulesInv, StoreNext
             PROVE  SchedulesInv'
  OBVIOUS
<1> USE DEF SchedulesInv, StoreTypeOK, StoreIsOneServers, ListIsOneServers,
            TileHasItsServer, LoadingEnds, StoreIds, Wanted
<1>1. CASE Unmount
  BY <1>1, StoresAssumption DEF Unmount
<1>2. CASE Write
  <2>1. mutations[server] + 1 \in 1 .. MaxCalls
    BY <1>2, StoresAssumption DEF Write
  <2> QED
    BY <1>2, <2>1 DEF Write
<1>3. ASSUME NEW s \in Servers, FetchLands(s)
      PROVE  SchedulesInv'
  <2>1. fetches[s] - 1 \in 0 .. MaxCalls
    BY <1>3, StoresAssumption DEF FetchLands
  <2>2. CASE server = s
    BY <1>3, <2>1, <2>2 DEF FetchLands
  <2>3. CASE server # s
    <3>1. /\ UNCHANGED <<tile, server, graphs, fetching, hydratedFor, mutations>>
          /\ fetches' \in [Servers -> 0 .. MaxCalls]
          /\ \A t \in Servers : t # s => fetches'[t] = fetches[t]
      BY <1>3, <2>1, <2>3 DEF FetchLands
    <3> QED
      BY <2>3, <3>1
  <2> QED
    BY <2>2, <2>3
<1>4. ASSUME NEW s \in Servers, FetchFails(s)
      PROVE  SchedulesInv'
  <2>1. fetches[s] - 1 \in 0 .. MaxCalls
    BY <1>4, StoresAssumption DEF FetchFails
  <2>2. /\ UNCHANGED <<tile, server, graphs, hydratedFor, mutations>>
        /\ fetches' \in [Servers -> 0 .. MaxCalls]
        /\ \A t \in Servers : t # s => fetches'[t] = fetches[t]
        /\ fetching' \in BOOLEAN /\ (fetching' => fetching /\ server # s)
    BY <1>4, <2>1 DEF FetchFails
  <2> QED
    BY <2>2
<1>5. ASSUME NEW s \in Servers, WriteLands(s) \/ WriteFails(s)
      PROVE  SchedulesInv'
  <2>1. mutations[s] - 1 \in 0 .. MaxCalls
    BY <1>5, StoresAssumption DEF WriteLands, WriteFails
  <2> QED
    BY <1>5, <2>1 DEF WriteLands, WriteFails
<1> QED
  BY <1>1, <1>2, <1>3, <1>4, <1>5, HydrateKeeps DEF StoreNext

-----------------------------------------------------------------------------
\* The loader's panel.

\* Every step of the panel keeps its slot to the server it was last asked
\* about.
LEMMA PanelKeeps == PanelInv /\ PanelNext => PanelInv'
<1> SUFFICES ASSUME PanelInv, PanelNext
             PROVE  PanelInv'
  OBVIOUS
<1> DEFINE Loads == [of : Servers, status : PanelIds, phase : {"status", "versions"},
                     latest : BOOLEAN]
<1> USE DEF PanelInv, PanelTypeOK, SlotIsOneServers, PanelIds
<1>1. ASSUME NEW s \in Servers, Load(s)
      PROVE  PanelInv'
  <2>1. /\ Outdated \subseteq Loads
        /\ \A l \in Outdated : ~ l.latest /\ l.status \in {Nil, l.of}
    BY DEF Outdated
  <2> DEFINE l == [of |-> s, status |-> Nil, phase |-> "status", latest |-> TRUE]
  <2>2. l \in Loads /\ l.of = s /\ l.status = Nil /\ l.latest
    OBVIOUS
  <2>3. loads' = Outdated \cup {l}
    BY <1>1 DEF Load
  <2>4. /\ statusFor' = s /\ loading' = TRUE
        /\ {status', versions'} \subseteq {Nil, s}
    BY <1>1 DEF Load
  <2> HIDE DEF l
  <2> QED
    BY <2>1, <2>2, <2>3, <2>4
<1>2. ASSUME NEW l \in loads, Drop(l)
      PROVE  PanelInv'
  BY <1>2 DEF Drop
<1>3. ASSUME NEW l \in loads, StatusLands(l)
      PROVE  PanelInv'
  <2>1. ASSUME NEW st \in {Nil, l.of}, Settles(l, st, Nil)
        PROVE  PanelInv'
    BY <1>3, <2>1 DEF StatusLands, Settles
  <2>2. ASSUME loads' = (loads \ {l})
                          \cup {[l EXCEPT !.status = l.of, !.phase = "versions"]},
               UNCHANGED <<statusFor, status, versions, loading>>
        PROVE  PanelInv'
    <3>1. l \in Loads /\ l.latest
      BY <1>3 DEF StatusLands
    <3> DEFINE m == [l EXCEPT !.status = l.of, !.phase = "versions"]
    <3>2. m \in Loads /\ m.latest /\ m.of = l.of /\ m.status = l.of
      BY <3>1
    <3> HIDE DEF m
    <3> QED
      BY <2>2, <3>1, <3>2 DEF m
  <2> QED
    BY <1>3, <2>1, <2>2 DEF StatusLands
<1>4. ASSUME NEW l \in loads, VersionsLand(l)
      PROVE  PanelInv'
  BY <1>4 DEF VersionsLand, Settles
<1> QED
  BY <1>1, <1>2, <1>3, <1>4 DEF PanelNext

-----------------------------------------------------------------------------
\* What is written through.

\* A change of the user's.
LEMMA ChangeKeeps == WrittenInv /\ Change => WrittenInv'
<1> SUFFICES ASSUME WrittenInv, Change
             PROVE  WrittenInv'
  OBVIOUS
<1> DEFINE w == [next |-> made + 1, prev |-> value, phase |-> "sent"]
<1>1. made + 1 \in Values /\ value \in Values /\ disk \in Values
  BY StoresAssumption DEF WrittenInv, WriteTypeOK, Change, Values
<1>2. w \in [next : Values, prev : Values, phase : {"sent", "done", "refused"}]
  BY <1>1
<1>3. WriteTypeOK'
  BY <1>1, <1>2 DEF WrittenInv, WriteTypeOK, Change
<1>4. ASSUME ~ crossed'
      PROVE  writes' = {w} /\ reread' = "no" /\ disk' = value
    BY <1>4 DEF WrittenInv, WriteTypeOK, Change, AtRest
<1>5. value' = IF optimistic' THEN made + 1 ELSE value
  BY DEF Change
<1>6. w.next = made + 1 /\ w.prev = value /\ w.phase = "sent"
  OBVIOUS
<1> HIDE DEF w
<1>7. ~ crossed' => \A x \in writes' : Pair(x)'
  BY <1>4, <1>5, <1>6 DEF Pair
<1> QED
  BY <1>3, <1>4, <1>7 DEF WrittenInv, AtRest

\* A write is accepted, refused or over.
LEMMA WriteStepKeeps ==
  ASSUME WrittenInv, NEW w \in writes, Accepted(w) \/ Refused(w) \/ WriteEnds(w)
  PROVE  WrittenInv'
<1> DEFINE Kinds == [next : Values, prev : Values, phase : {"sent", "done", "refused"}]
<1>1. w \in Kinds
  BY DEF WrittenInv, WriteTypeOK
<1>2. ASSUME NEW phase \in {"done", "refused"}, WriteBecomes(w, phase)
      PROVE  /\ writes' \subseteq Kinds
             /\ ~ crossed => writes' = {[w EXCEPT !.phase = phase]}
  BY <1>1, <1>2 DEF WrittenInv, WriteTypeOK, WriteBecomes
<1>3. CASE Accepted(w)
  <2>1. /\ WriteBecomes(w, "done") /\ disk' = w.next
        /\ UNCHANGED <<optimistic, value, made, reread, answer, crossed>>
    BY <1>3 DEF Accepted
  <2>2. WriteTypeOK'
    BY <1>1, <1>2, <2>1 DEF WrittenInv, WriteTypeOK
  <2>3. ASSUME ~ crossed
        PROVE  /\ reread = "no" /\ value = IF optimistic THEN w.next ELSE w.prev
               /\ writes' = {[w EXCEPT !.phase = "done"]}
    BY <1>2, <2>1, <2>3 DEF WrittenInv, Pair
  <2> DEFINE v == [w EXCEPT !.phase = "done"]
  <2>4. v.next = w.next /\ v.prev = w.prev /\ v.phase = "done"
    BY <1>1
  <2> HIDE DEF v
  <2>5. ASSUME ~ crossed
        PROVE  /\ writes' = {v} /\ reread' = "no" /\ Pair(v)'
    BY <2>1, <2>3, <2>4, <2>5 DEF Pair, v
  <2> QED
    BY <2>1, <2>2, <2>5 DEF WrittenInv, AtRest
<1>4. CASE Refused(w)
  BY <1>1, <1>2, <1>4 DEF Refused, WrittenInv, WriteTypeOK, AtRest, Pair
<1>5. CASE WriteEnds(w)
  <2>1. After(w) = IF optimistic THEN IF w.phase = "done" THEN value ELSE w.prev
                                 ELSE IF w.phase = "done" THEN w.next ELSE value
    BY <1>1, <1>5 DEF After, WriteEnds, WrittenInv, WriteTypeOK
  <2>2. WriteTypeOK'
    BY <1>1, <1>5, <2>1 DEF WriteEnds, WrittenInv, WriteTypeOK
  <2>3. ~ crossed => writes' = {} /\ value' = disk'
    BY <1>1, <1>5, <2>1 DEF WriteEnds, WrittenInv, Pair
  <2> QED
    BY <1>5, <2>2, <2>3 DEF WriteEnds, WrittenInv, AtRest
<1> QED
  BY <1>3, <1>4, <1>5

\* Every step of a store keeps its one write or reload as it is.
LEMMA WrittenKeeps == WrittenInv /\ WriteNext => WrittenInv'
<1> SUFFICES ASSUME WrittenInv, WriteNext
             PROVE  WrittenInv'
  OBVIOUS
<1>1. CASE PollRewrites
  <2>1. made + 1 \in Values
    BY <1>1, StoresAssumption DEF WrittenInv, WriteTypeOK, PollRewrites, Values
  <2> QED
    BY <1>1, <2>1 DEF WrittenInv, WriteTypeOK, PollRewrites, AtRest
<1>2. CASE ReloadReads
  BY <1>2 DEF WrittenInv, WriteTypeOK, ReloadReads, AtRest, Pair
<1>3. CASE ReloadLands
  BY <1>3 DEF WrittenInv, WriteTypeOK, ReloadLands, AtRest, Pair
<1> QED
  BY <1>1, <1>2, <1>3, ChangeKeeps, WriteStepKeeps DEF WriteNext

-----------------------------------------------------------------------------
\* The server configurations.

\* A list is a sequence of configurations.
LEMMA ListElements ==
  ASSUME NEW cs, IsList(cs)
  PROVE  /\ cs \in Seq(Config) /\ Len(cs) \in Nat /\ DOMAIN cs = 1 .. Len(cs)
         /\ \A i \in DOMAIN cs : cs[i] \in Config /\ cs[i].id \in Servers
<1>1. cs \in Seq(Config)
  BY DEF IsList
<1>2. \A c \in Config : c.id \in Servers
  BY DEF Config
<1>3. \A i \in DOMAIN cs : cs[i] \in Config
  BY <1>1, ElementOfSeq
<1> QED
  BY <1>1, <1>2, <1>3

\* The ids of a list are servers', and its first one names a server of it.
LEMMA FirstNames ==
  ASSUME NEW cs, IsList(cs)
  PROVE  /\ ServerIds(cs) \subseteq Servers
         /\ First(cs) \in Servers \cup {Nil}
         /\ Names(First(cs), cs)
<1>1. \A i \in DOMAIN cs : cs[i] \in Config /\ cs[i].id \in Servers
  BY ListElements
<1>2. cs # <<>> => 1 \in DOMAIN cs
  BY EmptySeq DEF IsList
<1> QED
  BY <1>1, <1>2 DEF First, Names, ServerIds

\* No list is emptier than the empty one.
LEMMA EmptyIsList == IsList(<<>>) /\ ServerIds(<<>>) = {}
  BY EmptySeq DEF IsList, ServerIds

\* An edit changes no ids; a new server is the last of the list.
LEMMA WithIsList ==
  ASSUME NEW cs, IsList(cs), NEW cfg \in Config
  PROVE  /\ IsList(With(cs, cfg))
         /\ ServerIds(With(cs, cfg)) = ServerIds(cs) \cup {cfg.id}
         /\ With(cs, cfg) # <<>>
         /\ cs = <<>> => First(With(cs, cfg)) = cfg.id
<1>1. cs \in Seq(Config) /\ cfg.id \in Servers /\ \A i \in DOMAIN cs : cs[i] \in Config
  BY ListElements DEF Config
<1>2. CASE cfg.id \in ServerIds(cs)
  <2> DEFINE new == [i \in DOMAIN cs |-> IF cs[i].id = cfg.id THEN cfg ELSE cs[i]]
  <2>1. With(cs, cfg) = new
    BY <1>2 DEF With
  <2>2. /\ new \in Seq(Config) /\ Len(new) = Len(cs) /\ DOMAIN new = DOMAIN cs
        /\ \A i \in DOMAIN cs : new[i] = IF cs[i].id = cfg.id THEN cfg ELSE cs[i]
    BY <1>1
  <2> HIDE DEF new
  <2>3. \A i \in DOMAIN cs : new[i].id = cs[i].id
    BY <2>2
  <2>4. IsList(new) /\ ServerIds(new) = ServerIds(cs)
    BY <2>2, <2>3 DEF IsList, ServerIds
  <2>5. cs # <<>> /\ new # <<>>
    <3>1. PICK i \in DOMAIN cs : cs[i].id = cfg.id
      BY <1>2 DEF ServerIds
    <3> QED
      BY <2>2, <3>1
  <2> QED
    BY <1>2, <2>1, <2>4, <2>5
<1>3. CASE cfg.id \notin ServerIds(cs)
  <2> DEFINE new == Append(cs, cfg)
  <2>1. With(cs, cfg) = new
    BY <1>3 DEF With
  <2>2. /\ new \in Seq(Config) /\ Len(new) = Len(cs) + 1 /\ new # <<>>
        /\ \A i \in 1 .. Len(cs) : new[i] = cs[i]
        /\ new[Len(cs) + 1] = cfg
    BY <1>1, AppendProperties
  <2> HIDE DEF new
  <2>3. \A i \in DOMAIN cs : cs[i].id # cfg.id
    BY <1>3 DEF ServerIds
  <2>4. DOMAIN new = DOMAIN cs \cup {Len(cs) + 1} /\ DOMAIN cs = 1 .. Len(cs)
    BY <1>1, <2>2
  <2>5. IsList(new)
    BY <2>2, <2>3, <2>4 DEF IsList
  <2>6. ServerIds(new) = ServerIds(cs) \cup {cfg.id}
    BY <2>2, <2>4 DEF ServerIds
  <2>7. cs = <<>> => new[1] = cfg
    BY <2>2
  <2> QED
    BY <2>1, <2>2, <2>5, <2>6, <2>7 DEF First
<1> QED
  BY <1>2, <1>3

\* Only the server asked for leaves the list.
LEMMA WithoutIsList ==
  ASSUME NEW cs, IsList(cs), NEW id \in Servers
  PROVE  /\ IsList(Without(cs, id))
         /\ ServerIds(Without(cs, id)) = ServerIds(cs) \ {id}
<1>1. CASE id \notin ServerIds(cs)
  BY <1>1 DEF Without
<1>2. CASE id \in ServerIds(cs)
  <2> DEFINE at == CHOOSE i \in DOMAIN cs : cs[i].id = id
             new == RemoveAt(cs, at)
  <2>1. at \in DOMAIN cs /\ cs[at].id = id
    BY <1>2 DEF ServerIds
  <2> HIDE DEF at
  <2>2. Without(cs, id) = new
    BY <1>2 DEF Without, at
  <2>3. cs \in Seq(Config) /\ DOMAIN cs = 1 .. Len(cs) /\ Len(cs) \in Nat
    BY ListElements
  <2> DEFINE left == SubSeq(cs, 1, at - 1)
             right == SubSeq(cs, at + 1, Len(cs))
  <2>4. /\ left \in Seq(Config) /\ Len(left) = at - 1
        /\ \A k \in 1 .. at - 1 : left[k] = cs[k]
    BY <2>1, <2>3, SubSeqProperties
  <2>5. /\ right \in Seq(Config) /\ Len(right) = Len(cs) - at
        /\ \A k \in 1 .. Len(cs) - at : right[k] = cs[at + k]
    BY <2>1, <2>3, SubSeqProperties
  <2>6. new = left \o right
    BY DEF RemoveAt
  <2> HIDE DEF left, right, new
  <2>7. /\ new \in Seq(Config) /\ Len(new) = Len(left) + Len(right)
        /\ \A k \in 1 .. Len(left) + Len(right) :
             new[k] = IF k <= Len(left) THEN left[k] ELSE right[k - Len(left)]
    BY <2>4, <2>5, <2>6, ConcatProperties
  <2>8. Len(new) = Len(cs) - 1 /\ DOMAIN new = 1 .. Len(cs) - 1
    <3>1. Len(new) = Len(cs) - 1
      BY <2>1, <2>3, <2>4, <2>5, <2>7
    <3> QED
      BY <2>7, <3>1, LenProperties
  <2> DEFINE from(k) == IF k < at THEN k ELSE k + 1
  <2>9. ASSUME NEW k \in DOMAIN new
        PROVE  from(k) \in DOMAIN cs /\ from(k) # at /\ new[k] = cs[from(k)]
    <3>1. at \in 1 .. Len(cs) /\ k \in 1 .. Len(cs) - 1
      BY <2>1, <2>3, <2>8
    <3>2. CASE k < at
      <4>1. k \in 1 .. at - 1 /\ k \in 1 .. Len(left) + Len(right) /\ k <= Len(left)
        BY <2>3, <2>4, <2>5, <3>1, <3>2
      <4>2. new[k] = left[k]
        BY <2>7, <4>1
      <4> QED
        BY <2>3, <2>4, <3>1, <3>2, <4>1, <4>2
    <3>3. CASE ~ (k < at)
      <4>1. k - (at - 1) \in 1 .. Len(cs) - at
        BY <2>3, <3>1, <3>3
      <4>2. k \in 1 .. Len(left) + Len(right) /\ ~ (k <= Len(left))
        BY <2>3, <2>4, <2>5, <3>1, <3>3
      <4>3. new[k] = right[k - (at - 1)]
        BY <2>4, <2>7, <4>2
      <4>4. at + (k - (at - 1)) = k + 1
        BY <2>3, <3>1
      <4> QED
        BY <2>3, <2>5, <3>1, <3>3, <4>1, <4>3, <4>4
    <3> QED
      BY <3>2, <3>3
  <2>10. \A i, j \in DOMAIN cs : cs[i].id = cs[j].id => i = j
    BY DEF IsList
  <2>11. IsList(new)
    <3>1. ASSUME NEW i \in DOMAIN new, NEW j \in DOMAIN new, new[i].id = new[j].id
          PROVE  i = j
      <4>1. from(i) = from(j)
        BY <2>9, <2>10, <3>1
      <4> QED
        BY <2>1, <2>3, <2>8, <4>1
    <3> QED
      BY <2>7, <3>1 DEF IsList
  <2>12. ServerIds(new) \subseteq ServerIds(cs) \ {id}
    BY <2>1, <2>9, <2>10 DEF ServerIds
  <2>13. ASSUME NEW s \in ServerIds(cs), s # id
         PROVE  s \in ServerIds(new)
    <3>1. PICK i \in DOMAIN cs : cs[i].id = s
      BY <2>13 DEF ServerIds
    <3>2. i # at
      BY <2>1, <2>13, <3>1
    <3>3. (IF i < at THEN i ELSE i - 1) \in DOMAIN new
      BY <2>1, <2>3, <2>8, <3>1, <3>2
    <3>4. from(IF i < at THEN i ELSE i - 1) = i
      BY <2>1, <2>3, <3>1, <3>2
    <3> QED
      BY <2>9, <3>1, <3>3, <3>4 DEF ServerIds
  <2> QED
    BY <2>2, <2>11, <2>12, <2>13
<1> QED
  BY <1>1, <1>2

\* A call is one of the user's or the load.
LEMMA CallKinds ==
  ASSUME NEW c, c \in Call \/ IsLoad(c)
  PROVE  \/ /\ c.kind = "save" /\ c.phase \in Phase /\ c.cfg \in Config
            /\ c \in [kind : {"save"}, cfg : Config, phase : Phase]
         \/ /\ c.kind \in {"delete", "activate"} /\ c.phase \in Phase
            /\ c.id \in Servers
            /\ c \in [kind : {"delete", "activate"}, id : Servers, phase : Phase]
         \/ /\ c.kind = "load" /\ c.phase \in {"sent", "read"} /\ IsList(c.read)
  BY DEF Call, IsLoad

\* A user's call with its phase moved on is one.
LEMMA PhaseMoves ==
  ASSUME NEW c \in Call, NEW phase \in Phase
  PROVE  LET d == [c EXCEPT !.phase = phase]
         IN  /\ d \in Call /\ d.phase = phase /\ d.kind = c.kind
             /\ c.kind = "save" => d.cfg = c.cfg
             /\ c.kind \in {"delete", "activate"} => d.id = c.id
<1>1. CASE c \in [kind : {"save"}, cfg : Config, phase : Phase]
  BY <1>1 DEF Call
<1>2. CASE c \in [kind : {"delete", "activate"}, id : Servers, phase : Phase]
  BY <1>2 DEF Call
<1> QED
  BY <1>1, <1>2 DEF Call

\* A new call is sent beside none, or nothing is sure any more.
LEMMA SendKeepsConfigs ==
  ASSUME ConfigsInv, NEW c \in Call, Send(c), c.phase = "sent",
         c.kind = "activate" => c.id \in ServerIds(configs)
  PROVE  ConfigsInv'
<1>1. ConfigsTypeOK'
  BY DEF ConfigsInv, ConfigsTypeOK, Send, IsLoad
<1>2. ASSUME ~ unsure'
      PROVE  calls' = {c} /\ ~ unsure /\ Agree
    BY <1>2 DEF ConfigsInv, ConfigsTypeOK, Send
<1>3. UNCHANGED <<stored, storedActive, configs, activeId>>
  BY DEF Send
<1>4. Agree => Ahead(c)
  BY CallKinds DEF Ahead, Agree
<1>5. ~ unsure' => Ahead(c)'
  BY <1>2, <1>3, <1>4 DEF Ahead, Agree
<1>6. c.phase # "failed"
  OBVIOUS
<1> QED
  BY <1>1, <1>2, <1>3, <1>5, <1>6 DEF ConfigsInv, Agree, Names

\* The backend does what the call asks.
LEMMA ServeKeepsConfigs ==
  ASSUME ConfigsInv, NEW c \in calls, Serve(c)
  PROVE  ConfigsInv'
<1>1. c \in Call /\ c.phase = "sent" /\ c.kind # "load"
  BY CallKinds DEF ConfigsInv, ConfigsTypeOK, Serve, IsLoad
<1> DEFINE d == [c EXCEPT !.phase = "done"]
<1>2. /\ d \in Call /\ d.phase = "done" /\ d.kind = c.kind
      /\ c.kind = "save" => d.cfg = c.cfg
      /\ c.kind \in {"delete", "activate"} => d.id = c.id
  BY <1>1, PhaseMoves DEF Phase
<1>3. /\ calls' = (calls \ {c}) \cup {d}
      /\ UNCHANGED <<configs, activeId, unsure>>
  BY DEF Serve, Answered, Becomes
<1> HIDE DEF d
<1>4. IsList(stored) /\ IsList(configs) /\ storedActive \in Servers \cup {Nil}
  BY DEF ConfigsInv, ConfigsTypeOK
<1>5. ~ unsure => Agree /\ Names(storedActive, stored)
  BY <1>1, CallKinds DEF ConfigsInv, Ahead
<1>6. /\ IsList(stored') /\ storedActive' \in Servers \cup {Nil}
      /\ ~ unsure => Names(storedActive', stored') /\ Ahead(d)'
  <2>1. CASE c.kind = "save"
    <3>1. /\ c.cfg \in Config /\ stored' = With(stored, c.cfg)
          /\ storedActive' = IF c.cfg.id \in ServerIds(stored) THEN storedActive
                             ELSE Reconciled(stored', storedActive)
      BY <1>1, <2>1, CallKinds DEF Serve, Writes
    <3>2. /\ IsList(stored') /\ stored' # <<>>
          /\ ServerIds(stored') = ServerIds(stored) \cup {c.cfg.id}
          /\ First(stored') \in Servers \cup {Nil} /\ Names(First(stored'), stored')
          /\ stored = <<>> => First(stored') = c.cfg.id
      BY <1>4, <3>1, WithIsList, FirstNames
    <3>3. storedActive' \in Servers \cup {Nil}
      BY <1>4, <3>1, <3>2 DEF Reconciled
    <3>4. ~ unsure => /\ Names(storedActive', stored')
                      /\ storedActive' = IF activeId = Nil THEN c.cfg.id ELSE activeId
      <4> SUFFICES ASSUME ~ unsure
                   PROVE  /\ Names(storedActive', stored')
                          /\ storedActive' = IF activeId = Nil THEN c.cfg.id
                                                               ELSE activeId
        OBVIOUS
      <4>1. CASE stored = <<>>
        <5>1. ServerIds(stored) = {} /\ storedActive = Nil /\ activeId = Nil
          BY <1>5, <4>1, EmptyIsList DEF Names, Agree
        <5>2. c.cfg.id \in Servers
          BY <3>1 DEF Config
        <5>3. Nil \notin ServerIds(stored')
          BY <3>2, <5>1, <5>2, StoresAssumption
        <5> QED
          BY <3>1, <3>2, <4>1, <5>1, <5>3 DEF Reconciled
      <4>2. CASE stored # <<>>
        <5>1. storedActive \in ServerIds(stored) /\ activeId = storedActive
          BY <1>5, <4>2 DEF Names, Agree
        <5>2. activeId # Nil
          BY <1>4, <5>1, FirstNames, StoresAssumption
        <5> QED
          BY <3>1, <3>2, <5>1, <5>2 DEF Reconciled, Names
      <4> QED
        BY <4>1, <4>2
    <3> QED
      BY <1>2, <1>3, <1>5, <2>1, <3>1, <3>2, <3>3, <3>4 DEF Ahead, Agree
  <2>2. CASE c.kind = "delete"
    <3>1. /\ c.id \in Servers /\ stored' = Without(stored, c.id)
          /\ storedActive' = Reconciled(stored', storedActive)
      BY <1>1, <2>2, CallKinds DEF Serve, Writes
    <3>2. /\ IsList(stored')
          /\ ServerIds(stored') = ServerIds(stored) \ {c.id}
          /\ First(stored') \in Servers \cup {Nil} /\ Names(First(stored'), stored')
      BY <1>4, <3>1, WithoutIsList, FirstNames
    <3>3. storedActive' \in Servers \cup {Nil} /\ Names(storedActive', stored')
      BY <1>4, <3>1, <3>2, EmptyIsList DEF Reconciled, Names
    <3>4. ASSUME ~ unsure
          PROVE  storedActive' = IF activeId = c.id THEN First(stored') ELSE activeId
      <4>1. CASE stored = <<>>
        <5>1. /\ ServerIds(stored) = {} /\ stored' = <<>>
              /\ activeId = Nil /\ storedActive = Nil
          BY <1>5, <3>1, <3>4, <4>1, EmptyIsList DEF Names, Agree, Without
        <5> QED
          BY <3>1, <5>1, StoresAssumption DEF Reconciled, First
      <4>2. CASE stored # <<>>
        BY <1>5, <3>1, <3>2, <3>4, <4>2 DEF Names, Agree, Reconciled
      <4> QED
        BY <4>1, <4>2
    <3> QED
      BY <1>2, <1>3, <1>5, <2>2, <3>1, <3>2, <3>3, <3>4 DEF Ahead, Agree
  <2>3. CASE c.kind = "activate"
    <3>1. /\ c.id \in Servers /\ stored' = stored /\ storedActive' = c.id
      BY <1>1, <2>3, CallKinds DEF Serve, Writes
    <3>2. ~ unsure => c.id \in ServerIds(stored)
      BY <1>1, <2>3 DEF ConfigsInv, Ahead
    <3>3. ~ unsure => stored # <<>>
      BY <3>2, EmptyIsList
    <3> QED
      BY <1>2, <1>3, <1>4, <1>5, <2>3, <3>1, <3>2, <3>3 DEF Ahead, Agree, Names
  <2> QED
    BY <1>1, <2>1, <2>2, <2>3, CallKinds
<1>7. ConfigsTypeOK'
  <2>1. \A e \in calls' : e \in Call \/ IsLoad(e)
    BY <1>2, <1>3 DEF ConfigsInv, ConfigsTypeOK
  <2> QED
    BY <1>3, <1>6, <2>1 DEF ConfigsInv, ConfigsTypeOK, IsLoad
<1>8. ~ unsure => calls' = {d}
  BY <1>3 DEF ConfigsInv
<1> QED
  BY <1>2, <1>3, <1>6, <1>7, <1>8 DEF ConfigsInv

\* A call that failed leaves nothing sure.
LEMMA ServeFailsKeepsConfigs ==
  ASSUME ConfigsInv, NEW c \in calls, ServeFails(c)
  PROVE  ConfigsInv'
<1>1. c \in Call /\ c.phase = "sent" /\ c.kind # "load"
  BY CallKinds DEF ConfigsInv, ConfigsTypeOK, ServeFails, IsLoad
<1> DEFINE d == [c EXCEPT !.phase = "failed"]
<1>2. d \in Call
  BY <1>1, PhaseMoves DEF Phase
<1>3. /\ calls' = (calls \ {c}) \cup {d} /\ unsure' = TRUE
      /\ UNCHANGED <<storedActive, configs, activeId>>
  BY DEF ServeFails, Answered, Becomes
<1>4. IsList(stored')
  <2>1. \/ stored' = stored
        \/ c.kind = "save" /\ stored' = With(stored, c.cfg)
        \/ c.kind = "delete" /\ stored' = Without(stored, c.id)
    BY DEF ServeFails
  <2>2. IsList(stored)
    BY DEF ConfigsInv, ConfigsTypeOK
  <2> QED
    BY <1>1, <2>1, <2>2, CallKinds, WithIsList, WithoutIsList
<1> HIDE DEF d
<1>5. \A e \in calls' : e \in Call \/ IsLoad(e)
  BY <1>2, <1>3 DEF ConfigsInv, ConfigsTypeOK
<1> QED
  BY <1>3, <1>4, <1>5 DEF ConfigsInv, ConfigsTypeOK, IsLoad

\* The reply brings the store to where the disk is.
LEMMA ReplyKeepsConfigs ==
  ASSUME ConfigsInv, NEW c \in calls, Reply(c)
  PROVE  ConfigsInv'
<1>1. c \in Call /\ c.phase \in {"done", "failed"} /\ c.kind # "load"
  BY CallKinds DEF ConfigsInv, ConfigsTypeOK, Reply, IsLoad
<1>2. calls' = calls \ {c} /\ UNCHANGED <<stored, storedActive, unsure>>
  BY DEF Reply
<1>3. /\ IsList(configs) /\ IsList(stored) /\ activeId \in Servers \cup {Nil}
      /\ storedActive \in Servers \cup {Nil} /\ unsure \in BOOLEAN
  BY DEF ConfigsInv, ConfigsTypeOK
<1>4. ~ unsure => c.phase = "done" /\ Ahead(c) /\ calls' = {}
  BY <1>1, <1>2 DEF ConfigsInv
<1>5. /\ IsList(configs') /\ activeId' \in Servers \cup {Nil}
      /\ c.phase = "done" /\ Ahead(c) => Agree'
  <2>1. CASE c.phase # "done"
    BY <1>3, <2>1 DEF Reply
  <2>2. CASE c.phase = "done" /\ c.kind = "save"
    <3>1. /\ c.cfg \in Config /\ configs' = With(configs, c.cfg)
          /\ activeId' = IF activeId = Nil THEN c.cfg.id ELSE activeId
      BY <1>1, <2>2, CallKinds DEF Reply, Applied
    <3>2. IsList(configs') /\ c.cfg.id \in Servers
      BY <1>3, <3>1, WithIsList DEF Config
    <3> QED
      BY <1>2, <1>3, <2>2, <3>1, <3>2 DEF Ahead, Agree
  <2>3. CASE c.phase = "done" /\ c.kind = "delete"
    <3>1. /\ c.id \in Servers /\ configs' = Without(configs, c.id)
          /\ activeId' = IF activeId = c.id THEN First(configs') ELSE activeId
      BY <1>1, <2>3, CallKinds DEF Reply, Applied
    <3>2. IsList(configs') /\ First(configs') \in Servers \cup {Nil}
      BY <1>3, <3>1, WithoutIsList, FirstNames
    <3> QED
      BY <1>2, <1>3, <2>3, <3>1, <3>2 DEF Ahead, Agree
  <2>4. CASE c.phase = "done" /\ c.kind = "activate"
    <3>1. c.id \in Servers /\ configs' = configs /\ activeId' = c.id
      BY <1>1, <2>4, CallKinds DEF Reply, Applied
    <3> QED
      BY <1>2, <1>3, <2>4, <3>1 DEF Ahead, Agree
  <2> QED
    BY <1>1, <2>1, <2>2, <2>3, <2>4, CallKinds
<1>6. ConfigsTypeOK'
  BY <1>2, <1>3, <1>5 DEF ConfigsInv, ConfigsTypeOK, IsLoad
<1> QED
  BY <1>2, <1>4, <1>5, <1>6 DEF ConfigsInv, Names

\* The load reads the list and fills the store with it.
LEMMA LoadKeepsConfigs ==
  ASSUME ConfigsInv, NEW c \in calls, LoadReads(c) \/ LoadLands(c)
  PROVE  ConfigsInv'
<1>1. IsLoad(c) /\ c.kind = "load"
  BY CallKinds DEF ConfigsInv, ConfigsTypeOK, LoadReads, LoadLands, Call
<1>2. /\ IsList(stored) /\ IsList(configs) /\ IsList(c.read)
      /\ storedActive \in Servers \cup {Nil} /\ unsure \in BOOLEAN
  BY <1>1 DEF ConfigsInv, ConfigsTypeOK, IsLoad
<1>3. CASE LoadReads(c)
  <2>1. PICK list \in {stored, <<>>} :
          /\ Becomes(c, Loading(list, "read"))
          /\ (list = stored /\ unsure' = unsure) \/ unsure' = TRUE
    BY <1>3 DEF LoadReads
  <2> DEFINE d == Loading(list, "read")
  <2>2. /\ IsLoad(d) /\ d.kind = "load" /\ d.phase = "read" /\ d.read = list
    <3>1. IsList(list) /\ list \in Seq(Config)
      BY <1>2, EmptyIsList DEF IsList
    <3> QED
      BY <3>1 DEF Loading, IsLoad
  <2>3. calls' = (calls \ {c}) \cup {d}
    BY <2>1 DEF Becomes
  <2> HIDE DEF d
  <2>4. UNCHANGED <<stored, storedActive, configs, activeId>>
    BY <1>3 DEF LoadReads
  <2>5. ConfigsTypeOK'
    <3>1. \A e \in calls' : e \in Call \/ IsLoad(e)
      BY <2>2, <2>3 DEF ConfigsInv, ConfigsTypeOK
    <3> QED
      BY <1>2, <2>1, <2>4, <3>1 DEF ConfigsInv, ConfigsTypeOK, IsLoad
  <2>6. ~ unsure' => ~ unsure /\ calls' = {d} /\ d.read = stored
    BY <2>1, <2>2, <2>3 DEF ConfigsInv
  <2>7. ~ unsure' => Ahead(d)'
    BY <2>2, <2>4, <2>6 DEF Ahead
  <2> QED
    BY <2>2, <2>4, <2>5, <2>6, <2>7 DEF ConfigsInv, Names
<1>4. CASE LoadLands(c)
  <2>1. /\ c.phase = "read" /\ calls' = calls \ {c} /\ configs' = c.read
        /\ UNCHANGED <<stored, storedActive>>
    BY <1>4 DEF LoadLands
  <2>2. PICK got \in {storedActive, Nil} :
          /\ activeId' = IF got \in ServerIds(c.read) THEN got ELSE First(c.read)
          /\ unsure' = (unsure \/ got # storedActive)
    BY <1>4 DEF LoadLands
  <2>3. /\ First(c.read) \in Servers \cup {Nil} /\ ServerIds(c.read) \subseteq Servers
        /\ c.read = <<>> => First(c.read) = Nil
    BY <1>2, FirstNames DEF Names
  <2>4. ConfigsTypeOK'
    BY <1>2, <2>1, <2>2, <2>3 DEF ConfigsInv, ConfigsTypeOK, IsLoad
  <2>5. ASSUME ~ unsure'
        PROVE  calls' = {} /\ Agree' /\ Names(storedActive, stored)
    <3>1. ~ unsure /\ got = storedActive
      BY <1>2, <2>2, <2>5
    <3>2. c.read = stored /\ Names(storedActive, stored) /\ calls' = {}
      BY <1>1, <2>1, <3>1 DEF ConfigsInv, Ahead
    <3> QED
      BY <2>1, <2>2, <2>3, <3>1, <3>2, EmptyIsList DEF Names, Agree
  <2> QED
    BY <2>1, <2>4, <2>5 DEF ConfigsInv, Names
<1> QED
  BY <1>3, <1>4

\* Every step of the configurations keeps the store and the disk together.
LEMMA ConfigsKeep == ConfigsInv /\ ConfigsNext => ConfigsInv'
<1> SUFFICES ASSUME ConfigsInv, ConfigsNext
             PROVE  ConfigsInv'
  OBVIOUS
<1>1. ASSUME NEW cfg \in Config, Save(cfg)
      PROVE  ConfigsInv'
  <2> DEFINE c == [kind |-> "save", cfg |-> cfg, phase |-> "sent"]
  <2>1. c \in Call /\ c.phase = "sent" /\ c.kind = "save"
    BY DEF Call, Phase
  <2>2. Send(c)
    BY <1>1 DEF Save
  <2> HIDE DEF c
  <2> QED
    BY <2>1, <2>2, SendKeepsConfigs
<1>2. ASSUME NEW id \in Servers, Delete(id)
      PROVE  ConfigsInv'
  <2> DEFINE c == [kind |-> "delete", id |-> id, phase |-> "sent"]
  <2>1. c \in Call /\ c.phase = "sent" /\ c.kind = "delete"
    BY DEF Call, Phase
  <2>2. Send(c)
    BY <1>2 DEF Delete
  <2> HIDE DEF c
  <2> QED
    BY <2>1, <2>2, SendKeepsConfigs
<1>3. ASSUME NEW id \in Servers, Activate(id)
      PROVE  ConfigsInv'
  <2> DEFINE c == [kind |-> "activate", id |-> id, phase |-> "sent"]
  <2>1. c \in Call /\ c.phase = "sent" /\ c.id \in ServerIds(configs)
    BY <1>3 DEF Activate, Call, Phase
  <2>2. Send(c)
    BY <1>3 DEF Activate
  <2> HIDE DEF c
  <2> QED
    BY <2>1, <2>2, SendKeepsConfigs
<1> QED
  BY <1>1, <1>2, <1>3, ServeKeepsConfigs, ServeFailsKeepsConfigs, ReplyKeepsConfigs,
     LoadKeepsConfigs DEF ConfigsNext

\* What an earlier healthy session left is in order.
LEMMA ConfigsBegin == ConfigsInit => ConfigsInv
<1> SUFFICES ASSUME ConfigsInit
             PROVE  ConfigsInv
  OBVIOUS
<1>1. /\ IsList(stored) /\ storedActive \in Servers \cup {Nil}
      /\ Names(storedActive, stored)
  <2>1. CASE stored = <<>> /\ storedActive = Nil
    BY <2>1, EmptyIsList DEF Names
  <2>2. ASSUME NEW c \in Config, stored = <<c>>, storedActive = c.id
        PROVE  /\ IsList(stored) /\ storedActive \in Servers \cup {Nil}
               /\ Names(storedActive, stored)
    <3>1. <<c>> \in Seq(Config) /\ c.id \in Servers /\ DOMAIN <<c>> = {1}
      BY DEF Config
    <3> QED
      BY <2>2, <3>1 DEF IsList, Names, ServerIds
  <2> QED
    BY <2>1, <2>2 DEF ConfigsInit
<1> DEFINE c == Loading(<<>>, "sent")
<1>2. IsLoad(c) /\ c.kind = "load" /\ c.phase = "sent"
  BY EmptyIsList DEF Loading, IsLoad, IsList
<1>3. calls = {c} /\ configs = <<>> /\ activeId = Nil /\ unsure = FALSE
  BY DEF ConfigsInit
<1> HIDE DEF c
<1> QED
  BY <1>1, <1>2, <1>3, EmptyIsList DEF ConfigsInv, ConfigsTypeOK, Ahead

-----------------------------------------------------------------------------
\* The editor's history.

Revs == History!Revisions

\* The bounded sequences of the history's types, by length.
LEMMA BoundedHistory ==
  \A s : s \in History!BoundedSeq(Revs, MAX_HISTORY) <=>
           s \in Seq(Revs) /\ Len(s) <= MAX_HISTORY
<1> SUFFICES ASSUME NEW s
             PROVE  s \in History!BoundedSeq(Revs, MAX_HISTORY) <=>
                      s \in Seq(Revs) /\ Len(s) <= MAX_HISTORY
  OBVIOUS
<1>1. ASSUME NEW m \in 0 .. MAX_HISTORY, s \in [1 .. m -> Revs]
      PROVE  s \in Seq(Revs) /\ Len(s) <= MAX_HISTORY
  BY <1>1, HistoryAssumption
<1>2. ASSUME s \in Seq(Revs), Len(s) <= MAX_HISTORY
      PROVE  \E m \in 0 .. MAX_HISTORY : s \in [1 .. m -> Revs]
  <2>1. Len(s) \in 0 .. MAX_HISTORY /\ s \in [1 .. Len(s) -> Revs]
    BY <1>2, HistoryAssumption, LenProperties
  <2> QED
    BY <2>1
<1> QED
  BY <1>1, <1>2 DEF History!BoundedSeq, History!SeqOf

\* The history's types in this state, and in the next.
LEMMA HistoryTypes ==
  History!HistoryTypeOK <=>
    /\ canvas \in Revs /\ drawn \in Revs
    /\ past \in Seq(Revs) /\ Len(past) <= MAX_HISTORY
    /\ future \in Seq(Revs) /\ Len(future) <= MAX_HISTORY
    /\ lastTag \in Tags \cup {Nil} /\ drag \in Revs \cup {Nil}
    /\ meddled \in BOOLEAN
  BY BoundedHistory DEF History!HistoryTypeOK, Revs

LEMMA HistoryTypesNext ==
  History!HistoryTypeOK' <=>
    /\ canvas' \in Revs /\ drawn' \in Revs
    /\ past' \in Seq(Revs) /\ Len(past') <= MAX_HISTORY
    /\ future' \in Seq(Revs) /\ Len(future') <= MAX_HISTORY
    /\ lastTag' \in Tags \cup {Nil} /\ drag' \in Revs \cup {Nil}
    /\ meddled' \in BOOLEAN
  BY BoundedHistory DEF History!HistoryTypeOK, Revs

\* The last revisions of a sequence are in the order they were.
LEMMA EndOfSeq ==
  ASSUME NEW s \in Seq(Revs), NEW k \in 0 .. Len(s)
  PROVE  LET t == SubSeq(s, k + 1, Len(s))
         IN  /\ t \in Seq(Revs) /\ Len(t) = Len(s) - k
             /\ Climbs(s) => Climbs(t)
             /\ \A r \in Nat : UpTo(s, r) => UpTo(t, r)
<1> DEFINE t == SubSeq(s, k + 1, Len(s))
<1>1. Len(s) \in Nat /\ \A i \in k + 1 .. Len(s) : s[i] \in Revs
  BY LenProperties, ElementOfSeq
<1>2. /\ t \in Seq(Revs) /\ Len(t) = IF k + 1 <= Len(s) THEN Len(s) - (k + 1) + 1 ELSE 0
      /\ \A i \in 1 .. Len(s) - (k + 1) + 1 : t[i] = s[k + 1 + i - 1]
  BY <1>1, SubSeqProperties
<1> HIDE DEF t
<1>3. Len(t) = Len(s) - k
  BY <1>1, <1>2
<1>4. \A i \in 1 .. Len(t) : i + k \in 1 .. Len(s) /\ t[i] = s[i + k]
  BY <1>1, <1>2, <1>3
<1>5. ASSUME Climbs(s), NEW i \in 1 .. Len(t), NEW j \in 1 .. Len(t), i < j
      PROVE  t[i] <= t[j]
  <2>1. /\ i + k \in 1 .. Len(s) /\ j + k \in 1 .. Len(s) /\ i + k < j + k
        /\ t[i] = s[i + k] /\ t[j] = s[j + k]
    BY <1>1, <1>3, <1>4, <1>5
  <2> QED
    BY <1>5, <2>1 DEF Climbs
<1>6. ASSUME NEW r \in Nat, UpTo(s, r)
      PROVE  UpTo(t, r)
  BY <1>4, <1>6 DEF UpTo
<1> QED
  BY <1>2, <1>3, <1>5, <1>6 DEF Climbs, t

\* A revision on top of a sequence.
LEMMA OnTop ==
  ASSUME NEW s \in Seq(Revs), NEW c \in Revs
  PROVE  LET t == Append(s, c)
         IN  /\ t \in Seq(Revs) /\ Len(t) = Len(s) + 1
             /\ Climbs(s) /\ UpTo(s, c) => Climbs(t)
             /\ Falls(s) /\ DownTo(s, c) => Falls(t)
             /\ \A r \in Nat : UpTo(s, r) /\ c <= r => UpTo(t, r)
             /\ \A r \in Nat : DownTo(s, r) /\ r <= c => DownTo(t, r)
<1> DEFINE t == Append(s, c)
<1>1. /\ t \in Seq(Revs) /\ Len(t) = Len(s) + 1 /\ Len(s) \in Nat
      /\ \A i \in 1 .. Len(s) : t[i] = s[i]
      /\ t[Len(s) + 1] = c
  BY AppendProperties, LenProperties
<1>2. c \in Nat
  BY HistoryAssumption DEF Revs, History!Revisions
<1> HIDE DEF t
<1>3. Climbs(s) /\ UpTo(s, c) => Climbs(t)
  <2> SUFFICES ASSUME Climbs(s), UpTo(s, c), NEW i \in 1 .. Len(t), NEW j \in 1 .. Len(t),
                      i < j
               PROVE  t[i] <= t[j]
    BY DEF Climbs
  <2>1. i \in 1 .. Len(s) /\ (j \in 1 .. Len(s) \/ j = Len(s) + 1)
    BY <1>1
  <2> QED
    BY <1>1, <2>1 DEF Climbs, UpTo
<1>4. Falls(s) /\ DownTo(s, c) => Falls(t)
  <2> SUFFICES ASSUME Falls(s), DownTo(s, c), NEW i \in 1 .. Len(t), NEW j \in 1 .. Len(t),
                      i < j
               PROVE  t[j] <= t[i]
    BY DEF Falls
  <2>1. i \in 1 .. Len(s) /\ (j \in 1 .. Len(s) \/ j = Len(s) + 1)
    BY <1>1
  <2> QED
    BY <1>1, <2>1 DEF Falls, DownTo
<1>5. \A i \in 1 .. Len(t) : i \in 1 .. Len(s) \/ i = Len(s) + 1
  BY <1>1
<1> QED
  BY <1>1, <1>3, <1>4, <1>5 DEF UpTo, DownTo, t

\* What is left when the top revision is taken off.
LEMMA TopOff ==
  ASSUME NEW s \in Seq(Revs), s # <<>>
  PROVE  LET t == History!Front(s)
             c == History!Last(s)
         IN  /\ t \in Seq(Revs) /\ Len(t) = Len(s) - 1 /\ c \in Revs
             /\ Climbs(s) => Climbs(t) /\ UpTo(t, c)
             /\ Falls(s) => Falls(t) /\ DownTo(t, c)
             /\ \A r \in Nat : UpTo(s, r) => UpTo(t, r) /\ c <= r
             /\ \A r \in Nat : DownTo(s, r) => DownTo(t, r) /\ r <= c
<1> DEFINE t == History!Front(s)
           c == History!Last(s)
<1>1. Len(s) \in Nat \ {0} /\ \A i \in 1 .. Len(s) : s[i] \in Revs
  BY EmptySeq, LenProperties, ElementOfSeq
<1>2. c = s[Len(s)] /\ c \in Revs
  BY <1>1 DEF History!Last
<1>3. /\ t \in Seq(Revs) /\ Len(t) = Len(s) - 1
      /\ \A i \in 1 .. Len(t) : t[i] = s[i]
  <2>1. t = SubSeq(s, 1, Len(s) - 1)
    BY DEF History!Front
  <2>2. \A i \in 1 .. Len(s) - 1 : s[i] \in Revs
    BY <1>1
  <2>3. /\ t \in Seq(Revs) /\ Len(t) = IF 1 <= Len(s) - 1 THEN (Len(s) - 1) - 1 + 1 ELSE 0
        /\ \A i \in 1 .. (Len(s) - 1) - 1 + 1 : t[i] = s[1 + i - 1]
    BY <1>1, <2>1, <2>2, SubSeqProperties
  <2> HIDE DEF t
  <2>4. Len(t) = Len(s) - 1
    <3>1. CASE Len(s) = 1
      BY <2>3, <3>1
    <3>2. CASE Len(s) > 1
      BY <1>1, <2>3, <3>2
    <3>3. Len(s) = 1 \/ Len(s) > 1
      <4>1. PICK n \in Nat \ {0} : Len(s) = n
        BY <1>1
      <4> QED
        BY <4>1
    <3> QED
      BY <3>1, <3>2, <3>3
  <2>5. (Len(s) - 1) - 1 + 1 = Len(s) - 1 /\ \A i \in 1 .. Len(s) - 1 : 1 + i - 1 = i
    BY <1>1
  <2> QED
    BY <2>3, <2>4, <2>5
<1> HIDE DEF t, c
<1>4. \A i \in 1 .. Len(t) : i \in 1 .. Len(s) /\ i < Len(s) /\ Len(s) \in 1 .. Len(s)
  BY <1>1, <1>3
<1>5. Len(s) \in 1 .. Len(s)
  BY <1>1
<1> QED
  BY <1>1, <1>2, <1>3, <1>4, <1>5 DEF Climbs, Falls, UpTo, DownTo, t, c

\* What Pushed makes of the past.
LEMMA PushedPast ==
  ASSUME past \in Seq(Revs), Len(past) <= MAX_HISTORY, NEW c \in Revs
  PROVE  LET t == History!Pushed(c)
         IN  /\ t \in Seq(Revs) /\ Len(t) <= MAX_HISTORY /\ Len(t) <= Len(past) + 1
             /\ Climbs(past) /\ UpTo(past, c) => Climbs(t)
             /\ \A r \in Nat : UpTo(past, r) /\ c <= r => UpTo(t, r)
<1> DEFINE longer == Append(past, c)
<1>1. /\ longer \in Seq(Revs) /\ Len(longer) = Len(past) + 1
      /\ Climbs(past) /\ UpTo(past, c) => Climbs(longer)
      /\ \A r \in Nat : UpTo(past, r) /\ c <= r => UpTo(longer, r)
  BY OnTop
<1>2. Len(past) \in Nat /\ MAX_HISTORY \in Nat \ {0}
  BY LenProperties, HistoryAssumption
<1>3. History!Pushed(c) = IF Len(longer) > MAX_HISTORY THEN Tail(longer) ELSE longer
  BY DEF History!Pushed
<1> HIDE DEF longer
<1>4. CASE Len(longer) > MAX_HISTORY
  <2>1. longer # <<>> /\ 1 \in 0 .. Len(longer)
    BY <1>1, <1>2, EmptySeq
  <2>2. Tail(longer) = SubSeq(longer, 2, Len(longer))
    BY <1>1, <2>1, TailIsSubSeq
  <2> DEFINE t == SubSeq(longer, 1 + 1, Len(longer))
  <2>3. /\ t \in Seq(Revs) /\ Len(t) = Len(longer) - 1
        /\ Climbs(longer) => Climbs(t)
        /\ \A r \in Nat : UpTo(longer, r) => UpTo(t, r)
    BY <1>1, <2>1, EndOfSeq
  <2>4. History!Pushed(c) = t
    BY <1>3, <1>4, <2>2
  <2> HIDE DEF t
  <2> QED
    BY <1>1, <1>2, <2>3, <2>4
<1>5. CASE ~ (Len(longer) > MAX_HISTORY)
  <2>1. History!Pushed(c) = longer
    BY <1>3, <1>5
  <2> QED
    BY <1>1, <1>2, <1>5, <2>1
<1> QED
  BY <1>4, <1>5

\* The numbers among the history's types.
LEMMA HistoryNumbers ==
  ASSUME History!HistoryTypeOK
  PROVE  /\ canvas \in Nat /\ drawn \in Nat /\ (drag # Nil => drag \in Nat)
         /\ Len(past) \in Nat /\ Len(future) \in Nat
         /\ Nil \notin Nat /\ MAX_HISTORY \in Nat \ {0} /\ MaxRevisions \in Nat
         /\ Revs = 0 .. MaxRevisions
<1>1. Revs = 0 .. MaxRevisions
  BY DEF Revs, History!Revisions
<1> QED
  BY <1>1, HistoryTypes, HistoryAssumption, LenProperties

\* Nothing follows the empty sequence.
LEMMA EmptyHistory ==
  /\ <<>> \in Seq(Revs) /\ Len(<<>>) = 0
  /\ Climbs(<<>>) /\ Falls(<<>>)
  /\ \A r : UpTo(<<>>, r) /\ DownTo(<<>>, r)
<1>1. <<>> \in Seq(Revs) /\ Len(<<>>) = 0
  BY EmptySeq
<1> QED
  BY <1>1 DEF Climbs, Falls, UpTo, DownTo

\* A newer revision bounds what an older one does.
LEMMA UpToMonotone ==
  ASSUME NEW s \in Seq(Revs), NEW r \in Nat, NEW m \in Nat, r <= m, UpTo(s, r)
  PROVE  UpTo(s, m)
<1>1. Revs \subseteq Nat
  BY HistoryAssumption DEF Revs, History!Revisions
<1>2. \A i \in 1 .. Len(s) : s[i] \in Nat
  BY <1>1, LenProperties, ElementOfSeq
<1> QED
  BY <1>2 DEF UpTo

\* Something new is drawn and put on record.
LEMMA ChangeKeepsHistory ==
  ASSUME HistoryInv, NEW tag \in Tags \cup {Nil}, History!Change(tag)
  PROVE  HistoryInv'
<1>1. History!HistoryTypeOK
  BY DEF HistoryInv
<1>2. /\ canvas \in Revs /\ drawn \in Revs /\ past \in Seq(Revs) /\ future \in Seq(Revs)
      /\ Len(past) <= MAX_HISTORY /\ Len(future) <= MAX_HISTORY
      /\ lastTag \in Tags \cup {Nil} /\ drag \in Revs \cup {Nil} /\ meddled \in BOOLEAN
  BY <1>1, HistoryTypes
<1>3. /\ drawn < MaxRevisions /\ drawn' = drawn + 1 /\ canvas' = drawn + 1
      /\ meddled' = (meddled \/ drag # Nil) /\ drag' = drag
  BY DEF History!Change, History!Redrawn, History!Touched
<1>4. drawn' \in Revs /\ canvas' \in Revs /\ drawn' \in Nat /\ drawn <= drawn'
  BY <1>1, <1>3, HistoryNumbers
<1>5. /\ UpTo(past, drawn) /\ UpTo(future, drawn) /\ canvas <= drawn
      /\ drag # Nil => drag <= drawn
      /\ Len(past) + Len(future) <= MAX_HISTORY
      /\ ~ meddled' => drag = Nil /\ Climbs(past) /\ UpTo(past, canvas)
  BY <1>2, <1>3 DEF HistoryInv, Around
<1>6. CASE tag # Nil /\ tag = lastTag
  <2>1. UNCHANGED <<past, future, lastTag>>
    BY <1>6 DEF History!Change, History!Record
  <2>2. future = <<>>
    BY <1>6 DEF HistoryInv
  <2>3. History!HistoryTypeOK'
    BY <1>2, <1>3, <1>4, <2>1, HistoryTypesNext
  <2>4. UpTo(past, drawn') /\ UpTo(past, canvas')
    BY <1>1, <1>2, <1>3, <1>4, <1>5, HistoryNumbers, UpToMonotone
  <2> QED
    BY <1>1, <1>2, <1>3, <1>4, <1>5, <2>1, <2>2, <2>3, <2>4, HistoryNumbers, EmptyHistory
    DEF HistoryInv, Around
<1>7. CASE ~ (tag # Nil /\ tag = lastTag)
  <2>1. past' = History!Pushed(canvas) /\ future' = <<>> /\ lastTag' = tag
    BY <1>7 DEF History!Change, History!Record
  <2>2. /\ past' \in Seq(Revs) /\ Len(past') <= MAX_HISTORY
        /\ Climbs(past) /\ UpTo(past, canvas) => Climbs(past')
        /\ UpTo(past', drawn)
    BY <1>1, <1>2, <1>5, <2>1, PushedPast, HistoryNumbers
  <2>3. Len(future') = 0 /\ future' \in Seq(Revs)
    BY <2>1, EmptyHistory
  <2>4. History!HistoryTypeOK'
    <3>1. Len(future') <= MAX_HISTORY
      BY <1>1, <2>3, HistoryNumbers
    <3> QED
      BY <1>2, <1>3, <1>4, <2>1, <2>2, <2>3, <3>1, HistoryTypesNext
  <2>5. UpTo(past', drawn') /\ UpTo(past', canvas')
    BY <1>1, <1>3, <1>4, <2>2, HistoryNumbers, UpToMonotone
  <2>6. Len(past') + Len(future') <= MAX_HISTORY
    BY <2>2, <2>3, LenProperties
  <2> QED
    BY <1>1, <1>2, <1>3, <1>4, <1>5, <2>1, <2>2, <2>4, <2>5, <2>6, HistoryNumbers,
       EmptyHistory DEF HistoryInv, Around
<1> QED
  BY <1>6, <1>7

\* The Delete key draws once and puts the canvas on record twice.
LEMMA DeleteKeyKeepsHistory ==
  ASSUME HistoryInv, History!DeleteKey
  PROVE  HistoryInv'
<1>1. History!HistoryTypeOK
  BY DEF HistoryInv
<1>2. /\ canvas \in Revs /\ drawn \in Revs /\ past \in Seq(Revs) /\ future \in Seq(Revs)
      /\ drag \in Revs \cup {Nil} /\ meddled \in BOOLEAN
  BY <1>1, HistoryTypes
<1>3. /\ drawn < MaxRevisions /\ drawn' = drawn + 1 /\ canvas' = drawn + 1
      /\ meddled' = (meddled \/ drag # Nil) /\ drag' = drag
      /\ future' = <<>> /\ lastTag' = Nil
  BY DEF History!DeleteKey, History!Redrawn, History!Touched
<1>4. drawn' \in Revs /\ canvas' \in Revs /\ drawn' \in Nat /\ drawn <= drawn'
  BY <1>1, <1>3, HistoryNumbers
<1>5. /\ UpTo(past, drawn) /\ canvas <= drawn
      /\ drag # Nil => drag <= drawn
      /\ ~ meddled' => drag = Nil /\ Climbs(past) /\ UpTo(past, canvas)
  BY <1>2, <1>3 DEF HistoryInv, Around
<1> DEFINE once == Append(past, canvas)
           twice == Append(once, canvas)
<1>6. /\ once \in Seq(Revs) /\ twice \in Seq(Revs) /\ Len(twice) = Len(past) + 2
      /\ past \o <<canvas, canvas>> = twice
  <2>1. once \in Seq(Revs) /\ twice \in Seq(Revs)
    BY <1>2, OnTop
  <2> QED
    BY <1>2, <2>1
<1>7. /\ Climbs(past) /\ UpTo(past, canvas) => Climbs(twice)
      /\ UpTo(twice, drawn)
  <2>1. canvas \in Nat /\ drawn \in Nat /\ canvas <= canvas
    BY <1>1, HistoryNumbers
  <2>2. /\ Climbs(past) /\ UpTo(past, canvas) => Climbs(once) /\ UpTo(once, canvas)
        /\ UpTo(once, drawn)
    BY <1>2, <1>5, <2>1, OnTop
  <2> QED
    BY <1>2, <1>5, <1>6, <2>1, <2>2, OnTop
<1> HIDE DEF once, twice
<1> DEFINE k == IF Len(twice) > MAX_HISTORY THEN Len(twice) - MAX_HISTORY ELSE 0
<1>8. past' = SubSeq(twice, k + 1, Len(twice))
  <2>1. past' = SubSeq(twice, 1 + k, Len(twice))
    BY <1>6 DEF History!DeleteKey
  <2>2. 1 + k = k + 1
    BY <1>1, <1>6, HistoryNumbers, LenProperties
  <2> QED
    BY <2>1, <2>2
<1>9. k \in 0 .. Len(twice) /\ Len(twice) - k <= MAX_HISTORY
  BY <1>1, <1>6, HistoryNumbers, LenProperties
<1> HIDE DEF k
<1>10. /\ past' \in Seq(Revs) /\ Len(past') <= MAX_HISTORY
       /\ Climbs(twice) => Climbs(past')
       /\ UpTo(past', drawn)
  BY <1>1, <1>6, <1>7, <1>8, <1>9, EndOfSeq, HistoryNumbers
<1>11. Len(future') = 0 /\ future' \in Seq(Revs) /\ Len(future') <= MAX_HISTORY
  BY <1>1, <1>3, EmptyHistory, HistoryNumbers
<1>12. History!HistoryTypeOK'
  BY <1>2, <1>3, <1>4, <1>10, <1>11, HistoryTypesNext
<1>13. UpTo(past', drawn') /\ UpTo(past', canvas')
  BY <1>1, <1>3, <1>4, <1>10, HistoryNumbers, UpToMonotone
<1>14. Len(past') + Len(future') <= MAX_HISTORY
  BY <1>10, <1>11, LenProperties
<1> QED
  BY <1>1, <1>3, <1>4, <1>5, <1>7, <1>10, <1>12, <1>13, <1>14, HistoryNumbers,
     EmptyHistory DEF HistoryInv, Around

\* A drag begins with what is on the canvas, and may duplicate it.
LEMMA DragStartKeepsHistory ==
  ASSUME HistoryInv, History!DragStart
  PROVE  HistoryInv'
<1>1. History!HistoryTypeOK
  BY DEF HistoryInv
<1>2. /\ canvas \in Revs /\ drawn \in Revs /\ past \in Seq(Revs) /\ future \in Seq(Revs)
      /\ Len(past) <= MAX_HISTORY /\ Len(future) <= MAX_HISTORY
      /\ lastTag \in Tags \cup {Nil} /\ meddled \in BOOLEAN
  BY <1>1, HistoryTypes
<1>3. /\ drag = Nil /\ drag' = canvas
      /\ \/ drawn < MaxRevisions /\ drawn' = drawn + 1 /\ canvas' = drawn + 1
         \/ canvas' = canvas /\ drawn' = drawn
      /\ UNCHANGED <<past, future, lastTag, meddled>>
  BY DEF History!DragStart, History!Redrawn
<1>4. canvas \in Nat /\ drawn \in Nat /\ canvas <= drawn /\ canvas # Nil
  BY <1>1, HistoryNumbers DEF HistoryInv
<1>5. /\ drawn' \in Revs /\ canvas' \in Revs /\ drawn' \in Nat /\ canvas' \in Nat
      /\ drawn <= drawn' /\ canvas <= canvas' /\ canvas' <= drawn'
  <2>1. Revs = 0 .. MaxRevisions /\ MaxRevisions \in Nat
    BY <1>1, HistoryNumbers
  <2>2. CASE drawn < MaxRevisions /\ drawn' = drawn + 1 /\ canvas' = drawn + 1
    BY <1>4, <2>1, <2>2
  <2>3. CASE canvas' = canvas /\ drawn' = drawn
    BY <1>2, <1>4, <2>3
  <2> QED
    BY <1>3, <2>2, <2>3
<1>6. History!HistoryTypeOK'
  BY <1>2, <1>3, <1>5, HistoryTypesNext
<1>7. UpTo(past, drawn') /\ UpTo(future, drawn')
  BY <1>2, <1>4, <1>5, UpToMonotone DEF HistoryInv
<1> QED
  BY <1>3, <1>4, <1>5, <1>6, <1>7 DEF HistoryInv, Around

\* A drag is one entry in the past, if it changed anything.
LEMMA DragStopKeepsHistory ==
  ASSUME HistoryInv, History!DragStop
  PROVE  HistoryInv'
<1>1. History!HistoryTypeOK
  BY DEF HistoryInv
<1>2. /\ canvas \in Revs /\ drawn \in Revs /\ past \in Seq(Revs) /\ future \in Seq(Revs)
      /\ Len(past) <= MAX_HISTORY /\ Len(future) <= MAX_HISTORY
      /\ lastTag \in Tags \cup {Nil} /\ drag \in Revs \cup {Nil} /\ meddled \in BOOLEAN
  BY <1>1, HistoryTypes
<1>3. /\ drag # Nil /\ drag' = Nil /\ meddled' = meddled
      /\ \/ drawn < MaxRevisions /\ drawn' = drawn + 1 /\ canvas' = drawn + 1
         \/ canvas' = canvas /\ drawn' = drawn
  BY DEF History!DragStop, History!Redrawn
<1>4. /\ canvas \in Nat /\ drawn \in Nat /\ canvas <= drawn
      /\ drag \in Revs /\ drag \in Nat /\ drag <= drawn
  BY <1>1, <1>2, <1>3, HistoryNumbers DEF HistoryInv
<1>5. /\ drawn' \in Revs /\ canvas' \in Revs /\ drawn' \in Nat /\ canvas' \in Nat
      /\ drawn <= drawn' /\ canvas' <= drawn'
      /\ ~ meddled => drag <= canvas'
  <2>1. /\ Revs = 0 .. MaxRevisions /\ MaxRevisions \in Nat
        /\ ~ meddled => drag <= canvas
    BY <1>1, <1>3, HistoryNumbers DEF HistoryInv
  <2>2. CASE drawn < MaxRevisions /\ drawn' = drawn + 1 /\ canvas' = drawn + 1
    BY <1>4, <2>1, <2>2
  <2>3. CASE canvas' = canvas /\ drawn' = drawn
    BY <1>2, <1>4, <2>1, <2>3
  <2> QED
    BY <1>3, <2>2, <2>3
<1>6. /\ UpTo(past, drawn) /\ UpTo(future, drawn)
      /\ Len(past) + Len(future) <= MAX_HISTORY
      /\ lastTag # Nil => future = <<>>
      /\ ~ meddled => Around(drag)
  BY <1>3 DEF HistoryInv
<1>7. CASE canvas' = drag
  <2>1. UNCHANGED <<past, future, lastTag>>
    BY <1>7 DEF History!DragStop
  <2>2. History!HistoryTypeOK'
    BY <1>2, <1>3, <1>5, <2>1, HistoryTypesNext
  <2>3. UpTo(past, drawn') /\ UpTo(future, drawn')
    BY <1>2, <1>4, <1>5, <1>6, UpToMonotone
  <2> QED
    BY <1>3, <1>5, <1>6, <1>7, <2>1, <2>2, <2>3 DEF HistoryInv, Around
<1>8. CASE canvas' # drag
  <2>1. past' = History!Pushed(drag) /\ future' = <<>> /\ lastTag' = Nil
    BY <1>8 DEF History!DragStop, History!Record
  <2>2. /\ past' \in Seq(Revs) /\ Len(past') <= MAX_HISTORY
        /\ Climbs(past) /\ UpTo(past, drag) => Climbs(past') /\ UpTo(past', drag)
        /\ UpTo(past', drawn)
    <3>1. drag <= drag
      BY <1>4
    <3> QED
      BY <1>2, <1>4, <1>6, <2>1, <3>1, PushedPast
  <2>3. Len(future') = 0 /\ future' \in Seq(Revs) /\ Len(future') <= MAX_HISTORY
    BY <1>1, <2>1, EmptyHistory, HistoryNumbers
  <2>4. History!HistoryTypeOK'
    BY <1>2, <1>3, <1>5, <2>1, <2>2, <2>3, HistoryTypesNext
  <2>5. /\ UpTo(past', drawn')
        /\ ~ meddled => UpTo(past', canvas') /\ Climbs(past')
    BY <1>4, <1>5, <1>6, <2>2, UpToMonotone DEF Around
  <2>6. Len(past') + Len(future') <= MAX_HISTORY
    BY <2>2, <2>3, LenProperties
  <2> QED
    BY <1>3, <1>5, <2>1, <2>4, <2>5, <2>6, EmptyHistory DEF HistoryInv, Around
<1> QED
  BY <1>7, <1>8

\* Undo goes back to the top of the past.
LEMMA UndoKeepsHistory ==
  ASSUME HistoryInv, History!Undo
  PROVE  HistoryInv'
<1>1. History!HistoryTypeOK
  BY DEF HistoryInv
<1>2. /\ canvas \in Revs /\ drawn \in Revs /\ past \in Seq(Revs) /\ future \in Seq(Revs)
      /\ drag \in Revs \cup {Nil} /\ meddled \in BOOLEAN
      /\ canvas \in Nat /\ drawn \in Nat
  BY <1>1, HistoryTypes, HistoryNumbers
<1>3. /\ past # <<>> /\ canvas' = History!Last(past) /\ past' = History!Front(past)
      /\ future' = Append(future, canvas) /\ lastTag' = Nil
      /\ meddled' = (meddled \/ drag # Nil) /\ drag' = drag /\ drawn' = drawn
  BY DEF History!Undo, History!Touched
<1>4. /\ UpTo(past, drawn) /\ UpTo(future, drawn) /\ canvas <= drawn
      /\ drag # Nil => drag <= drawn
      /\ Len(past) + Len(future) <= MAX_HISTORY
      /\ ~ meddled' => drag = Nil /\ Around(canvas)
  BY <1>2, <1>3 DEF HistoryInv
<1>5. /\ past' \in Seq(Revs) /\ Len(past') = Len(past) - 1 /\ canvas' \in Revs
      /\ Climbs(past) => Climbs(past') /\ UpTo(past', canvas')
      /\ UpTo(past', drawn) /\ canvas' <= drawn
      /\ UpTo(past, canvas) => canvas' <= canvas
  BY <1>2, <1>3, <1>4, TopOff
<1>6. canvas' \in Nat /\ canvas <= canvas
  BY <1>1, <1>2, <1>5, HistoryNumbers
<1>7. /\ future' \in Seq(Revs) /\ Len(future') = Len(future) + 1
      /\ Falls(future) /\ DownTo(future, canvas) => Falls(future') /\ DownTo(future', canvas)
      /\ UpTo(future', drawn)
  BY <1>2, <1>3, <1>4, <1>6, OnTop
<1>8. DownTo(future', canvas) /\ canvas' <= canvas => DownTo(future', canvas')
  <2>1. \A i \in 1 .. Len(future') : future'[i] \in Nat
    BY <1>1, <1>7, ElementOfSeq, HistoryNumbers
  <2> QED
    BY <1>2, <1>6, <2>1 DEF DownTo
<1>9. /\ Len(past') <= MAX_HISTORY /\ Len(future') <= MAX_HISTORY
      /\ Len(past') + Len(future') <= MAX_HISTORY
  <2>1. /\ Len(past) \in Nat /\ Len(future) \in Nat /\ Len(past') \in Nat
        /\ Len(future') \in Nat /\ MAX_HISTORY \in Nat
    BY <1>1, <1>5, <1>7, HistoryNumbers, LenProperties
  <2> QED
    BY <1>4, <1>5, <1>7, <2>1
<1>10. History!HistoryTypeOK'
  BY <1>2, <1>3, <1>5, <1>7, <1>9, HistoryTypesNext
<1> QED
  BY <1>3, <1>4, <1>5, <1>7, <1>8, <1>9, <1>10 DEF HistoryInv, Around

\* Redo goes on to the top of the future.
LEMMA RedoKeepsHistory ==
  ASSUME HistoryInv, History!Redo
  PROVE  HistoryInv'
<1>1. History!HistoryTypeOK
  BY DEF HistoryInv
<1>2. /\ canvas \in Revs /\ drawn \in Revs /\ past \in Seq(Revs) /\ future \in Seq(Revs)
      /\ Len(past) <= MAX_HISTORY
      /\ drag \in Revs \cup {Nil} /\ meddled \in BOOLEAN
      /\ canvas \in Nat /\ drawn \in Nat
  BY <1>1, HistoryTypes, HistoryNumbers
<1>3. /\ future # <<>> /\ canvas' = History!Last(future)
      /\ future' = History!Front(future)
      /\ past' = History!Pushed(canvas) /\ lastTag' = Nil
      /\ meddled' = (meddled \/ drag # Nil) /\ drag' = drag /\ drawn' = drawn
  BY DEF History!Redo, History!Touched
<1>4. /\ UpTo(past, drawn) /\ UpTo(future, drawn) /\ canvas <= drawn
      /\ drag # Nil => drag <= drawn
      /\ Len(past) + Len(future) <= MAX_HISTORY
      /\ ~ meddled' => drag = Nil /\ Around(canvas)
  BY <1>2, <1>3 DEF HistoryInv
<1>5. /\ future' \in Seq(Revs) /\ Len(future') = Len(future) - 1 /\ canvas' \in Revs
      /\ Falls(future) => Falls(future') /\ DownTo(future', canvas')
      /\ UpTo(future', drawn) /\ canvas' <= drawn
      /\ DownTo(future, canvas) => canvas <= canvas'
  BY <1>2, <1>3, <1>4, TopOff
<1>6. canvas' \in Nat /\ canvas <= canvas
  BY <1>1, <1>2, <1>5, HistoryNumbers
<1>7. /\ past' \in Seq(Revs) /\ Len(past') <= MAX_HISTORY /\ Len(past') <= Len(past) + 1
      /\ Climbs(past) /\ UpTo(past, canvas) => Climbs(past') /\ UpTo(past', canvas)
      /\ UpTo(past', drawn)
  BY <1>2, <1>3, <1>4, <1>6, PushedPast
<1>8. UpTo(past', canvas) /\ canvas <= canvas' => UpTo(past', canvas')
  BY <1>2, <1>6, <1>7, UpToMonotone
<1>9. Len(future') <= MAX_HISTORY /\ Len(past') + Len(future') <= MAX_HISTORY
  <2>1. /\ Len(past) \in Nat /\ Len(future) \in Nat /\ Len(past') \in Nat
        /\ Len(future') \in Nat /\ MAX_HISTORY \in Nat
    BY <1>1, <1>5, <1>7, HistoryNumbers, LenProperties
  <2> QED
    BY <1>4, <1>5, <1>7, <2>1
<1>10. History!HistoryTypeOK'
  BY <1>2, <1>3, <1>5, <1>7, <1>9, HistoryTypesNext
<1> QED
  BY <1>3, <1>4, <1>5, <1>7, <1>8, <1>9, <1>10 DEF HistoryInv, Around

\* Another graph's history starts empty.
LEMMA LoadKeepsHistory ==
  ASSUME HistoryInv, History!Load
  PROVE  HistoryInv'
<1>1. History!HistoryTypeOK
  BY DEF HistoryInv
<1>2. /\ drag = Nil /\ drag' = Nil
      /\ drawn < MaxRevisions /\ drawn' = drawn + 1 /\ canvas' = drawn + 1
      /\ past' = <<>> /\ future' = <<>> /\ lastTag' = Nil /\ meddled' = FALSE
  BY DEF History!Load, History!Redrawn
<1>3. drawn' \in Revs /\ canvas' \in Revs /\ drawn' \in Nat
  BY <1>1, <1>2, HistoryNumbers
<1>4. 0 <= MAX_HISTORY /\ 0 + 0 <= MAX_HISTORY
  BY HistoryAssumption
<1>5. History!HistoryTypeOK'
  BY <1>2, <1>3, <1>4, EmptyHistory, HistoryTypesNext
<1> QED
  BY <1>2, <1>3, <1>4, <1>5, EmptyHistory DEF HistoryInv, Around

\* Every step of the editor's history keeps it in order.
LEMMA HistoryKeeps == HistoryInv /\ History!HistoryNext => HistoryInv'
  BY ChangeKeepsHistory, DeleteKeyKeepsHistory, DragStartKeepsHistory,
     DragStopKeepsHistory, UndoKeepsHistory, RedoKeepsHistory, LoadKeepsHistory
  DEF History!HistoryNext

-----------------------------------------------------------------------------
\* The stores together.

\* Every store begins as its invariant has it.
LEMMA ConsoleBegins == ConsoleInit => ConsoleInv
  BY DEF ConsoleInit, ConsoleInv, ConsoleTypeOK, Ids

LEMMA SchedulesBegin == StoreInit => SchedulesInv
<1> SUFFICES ASSUME StoreInit
             PROVE  SchedulesInv
  OBVIOUS
<1>1. 0 \in 0 .. MaxCalls
  BY StoresAssumption
<1>2. StoreTypeOK
  BY <1>1 DEF StoreInit, StoreTypeOK, StoreIds
<1>3. StoreIsOneServers /\ fetching = FALSE
  BY DEF StoreInit, StoreIsOneServers, ListIsOneServers, TileHasItsServer, LoadingEnds
<1> QED
  BY <1>2, <1>3 DEF SchedulesInv

LEMMA PanelBegins == PanelInit => PanelInv
  BY DEF PanelInit, PanelInv, PanelTypeOK, PanelIds, SlotIsOneServers

LEMMA WritesBegin == WriteInit => WrittenInv
<1> SUFFICES ASSUME WriteInit
             PROVE  WrittenInv
  OBVIOUS
<1>1. 0 \in Values
  BY StoresAssumption DEF Values
<1>2. WriteTypeOK
  BY <1>1 DEF WriteInit, WriteTypeOK
<1> QED
  BY <1>2 DEF WriteInit, WrittenInv

LEMMA HistoryBegins == History!HistoryInit => HistoryInv
<1> SUFFICES ASSUME History!HistoryInit
             PROVE  HistoryInv
  OBVIOUS
<1>1. /\ canvas = 0 /\ drawn = 0 /\ past = <<>> /\ future = <<>>
      /\ lastTag = Nil /\ drag = Nil /\ meddled = FALSE
  BY DEF History!HistoryInit
<1>2. 0 \in Revs /\ MAX_HISTORY \in Nat
  BY HistoryAssumption DEF Revs, History!Revisions
<1>3. /\ past \in Seq(Revs) /\ Len(past) = 0
      /\ future \in Seq(Revs) /\ Len(future) = 0
  BY <1>1, EmptyHistory
<1>4. Len(past) <= MAX_HISTORY /\ Len(future) <= MAX_HISTORY
      /\ Len(past) + Len(future) <= MAX_HISTORY
  BY <1>2, <1>3
<1>5. History!HistoryTypeOK
  BY <1>1, <1>2, <1>3, <1>4, HistoryTypes
<1> QED
  BY <1>1, <1>4, <1>5, EmptyHistory DEF HistoryInv, Around

LEMMA StoresBegin == Init => StoresInv
  BY ConsoleBegins, SchedulesBegin, PanelBegins, ConfigsBegin, WritesBegin, HistoryBegins
  DEF Init, StoresInv

\* A step is a step of the store at work, or leaves that store alone.
LEMMA StepOfOne ==
  ASSUME [Next]_vars
  PROVE  /\ which' = which
         /\ which = "console" => ConsoleNext \/ UNCHANGED consoleVars
         /\ which = "schedules" => StoreNext \/ UNCHANGED storeVars
         /\ which = "panel" => PanelNext \/ UNCHANGED panelVars
         /\ which = "configs" => ConfigsNext \/ UNCHANGED configVars
         /\ which = "written" => WriteNext \/ UNCHANGED writeVars
         /\ which = "history" => History!HistoryNext \/ UNCHANGED historyVars
  BY DEF Next, vars, ConsoleStep, SchedulesStep, PanelStep, ConfigsStep, WrittenStep,
         HistoryStep, ShellStep, KeptStep

\* A store left alone keeps its invariant.
LEMMA StoresAtRest ==
  /\ ConsoleInv /\ UNCHANGED consoleVars => ConsoleInv'
  /\ SchedulesInv /\ UNCHANGED storeVars => SchedulesInv'
  /\ PanelInv /\ UNCHANGED panelVars => PanelInv'
  /\ ConfigsInv /\ UNCHANGED configVars => ConfigsInv'
  /\ WrittenInv /\ UNCHANGED writeVars => WrittenInv'
  /\ HistoryInv /\ UNCHANGED historyVars => HistoryInv'
<1>1. ConsoleInv /\ UNCHANGED consoleVars => ConsoleInv'
  BY DEF ConsoleInv, ConsoleTypeOK, consoleVars
<1>2. SchedulesInv /\ UNCHANGED storeVars => SchedulesInv'
  BY DEF SchedulesInv, StoreTypeOK, StoreIsOneServers, ListIsOneServers,
         TileHasItsServer, LoadingEnds, storeVars
<1>3. PanelInv /\ UNCHANGED panelVars => PanelInv'
  BY DEF PanelInv, PanelTypeOK, SlotIsOneServers, panelVars
<1>4. ConfigsInv /\ UNCHANGED configVars => ConfigsInv'
  <2> SUFFICES ASSUME ConfigsInv, UNCHANGED configVars
               PROVE  ConfigsInv'
    OBVIOUS
  <2>1. UNCHANGED <<stored, storedActive, configs, activeId, calls, unsure>>
    BY DEF configVars
  <2>2. ConfigsTypeOK'
    BY <2>1 DEF ConfigsInv, ConfigsTypeOK
  <2>3. (Agree <=> Agree') /\ \A c : Ahead(c) <=> Ahead(c)'
    BY <2>1 DEF Agree, Ahead
  <2> QED
    BY <2>1, <2>2, <2>3 DEF ConfigsInv
<1>5. WrittenInv /\ UNCHANGED writeVars => WrittenInv'
  BY DEF WrittenInv, WriteTypeOK, Pair, AtRest, writeVars
<1>6. HistoryInv /\ UNCHANGED historyVars => HistoryInv'
  BY DEF HistoryInv, History!HistoryTypeOK, Around, historyVars
<1> QED
  BY <1>1, <1>2, <1>3, <1>4, <1>5, <1>6

LEMMA StoresStep == StoresInv /\ [Next]_vars => StoresInv'
  BY StepOfOne, StoresAtRest, ConsoleKeeps, SchedulesKeep, PanelKeeps, ConfigsKeep,
     WrittenKeeps, HistoryKeeps
  DEF StoresInv

LEMMA StoresInvariant == Spec => []StoresInv
<1>1. Init => StoresInv
  BY StoresBegin
<1>2. StoresInv /\ [Next]_vars => StoresInv'
  BY StoresStep
<1> QED
  BY <1>1, <1>2, PTL DEF Spec

\* A future that falls away, turned around, climbs.
LEMMA TurnedAround ==
  ASSUME NEW s \in Seq(Revs)
  PROVE  LET t == History!Reverse(s)
         IN  /\ t \in Seq(Revs) /\ Len(t) = Len(s)
             /\ Falls(s) => Climbs(t)
             /\ \A r \in Nat : DownTo(s, r) => DownTo(t, r)
<1> DEFINE n == Len(s)
           t == [i \in 1 .. n |-> s[(n - i) + 1]]
<1>1. n \in Nat /\ \A i \in 1 .. n : s[i] \in Revs
  BY LenProperties, ElementOfSeq
<1> HIDE DEF n
<1>2. \A i \in 1 .. n : (n - i) + 1 \in 1 .. n
  BY <1>1
<1>3. t \in [1 .. n -> Revs]
  BY <1>1, <1>2
<1>4. t \in Seq(Revs) /\ Len(t) = n
  <2> HIDE DEF t
  <2>1. t \in Seq(Revs) /\ DOMAIN t = 1 .. n
    BY <1>1, <1>3
  <2> QED
    BY <1>1, <2>1, LenProperties
<1>5. \A i \in 1 .. n : t[i] = s[(n - i) + 1]
  OBVIOUS
<1>6. History!Reverse(s) = t
  BY DEF History!Reverse, n
<1> HIDE DEF t
<1>7. ASSUME Falls(s), NEW i \in 1 .. n, NEW j \in 1 .. n, i < j
      PROVE  t[i] <= t[j]
  <2>1. (n - j) + 1 < (n - i) + 1
    BY <1>1, <1>7
  <2>2. s[(n - i) + 1] <= s[(n - j) + 1]
    BY <1>2, <1>7, <2>1 DEF Falls, n
  <2> QED
    BY <1>5, <2>2
<1>8. ASSUME NEW r \in Nat, DownTo(s, r), NEW i \in 1 .. n
      PROVE  r <= t[i]
  BY <1>2, <1>5, <1>8 DEF DownTo, n
<1> QED
  BY <1>4, <1>6, <1>7, <1>8 DEF Climbs, DownTo, n

\* Around the canvas, past and future are one timeline.
LEMMA TimelineClimbs == HistoryInv => History!Chronological
<1> SUFFICES ASSUME HistoryInv, drag = Nil, ~ meddled
             PROVE  LET timeline == past \o <<canvas>> \o History!Reverse(future)
                    IN  \A i, j \in DOMAIN timeline : i < j => timeline[i] <= timeline[j]
  BY DEF History!Chronological
<1> DEFINE ahead == History!Reverse(future)
           m == Len(past)
           k == Len(ahead)
           near == past \o <<canvas>>
           timeline == near \o ahead
<1>1. /\ past \in Seq(Revs) /\ future \in Seq(Revs) /\ canvas \in Revs
      /\ Climbs(past) /\ UpTo(past, canvas) /\ Falls(future) /\ DownTo(future, canvas)
  BY HistoryTypes DEF HistoryInv, Around
<1>2. canvas \in Nat /\ Revs \subseteq Nat
  BY <1>1, HistoryAssumption DEF Revs, History!Revisions
<1>3. /\ ahead \in Seq(Revs) /\ k \in Nat /\ m \in Nat
      /\ Climbs(ahead) /\ DownTo(ahead, canvas)
  BY <1>1, <1>2, TurnedAround, LenProperties
<1> HIDE DEF ahead
<1>4. <<canvas>> \in Seq(Revs) /\ Len(<<canvas>>) = 1 /\ <<canvas>>[1] = canvas
  BY <1>1
<1>5. /\ near \in Seq(Revs) /\ Len(near) = m + 1
      /\ \A i \in 1 .. m + 1 : near[i] = IF i <= m THEN past[i] ELSE <<canvas>>[i - m]
  BY <1>1, <1>4, ConcatProperties
<1>6. \A i \in 1 .. m : near[i] = past[i]
  BY <1>3, <1>5
<1>7. near[m + 1] = canvas
  <2>1. m + 1 \in 1 .. m + 1 /\ ~ (m + 1 <= m) /\ (m + 1) - m = 1
    BY <1>3
  <2> QED
    BY <1>4, <1>5, <2>1
<1> HIDE DEF near
<1>8. near \in Seq(Revs) /\ ahead \in Seq(Revs)
  BY <1>3, <1>5
<1>9. /\ timeline \in Seq(Revs) /\ Len(timeline) = (m + 1) + k
      /\ \A i \in 1 .. (m + 1) + k :
           timeline[i] = IF i <= m + 1 THEN near[i] ELSE ahead[i - (m + 1)]
  <2>1. /\ timeline \in Seq(Revs) /\ Len(timeline) = Len(near) + Len(ahead)
        /\ \A i \in 1 .. Len(near) + Len(ahead) :
             timeline[i] = IF i <= Len(near) THEN near[i] ELSE ahead[i - Len(near)]
    BY <1>8, ConcatProperties
  <2> HIDE DEF timeline
  <2> QED
    BY <1>5, <2>1
<1>10. DOMAIN timeline = 1 .. (m + 1) + k
  BY <1>9, LenProperties
<1> HIDE DEF timeline, m, k
<1>11. ASSUME NEW i \in 1 .. (m + 1) + k
       PROVE  \/ i \in 1 .. m /\ timeline[i] = past[i]
              \/ i = m + 1 /\ timeline[i] = canvas
              \/ /\ i > m + 1 /\ i - (m + 1) \in 1 .. k
                 /\ timeline[i] = ahead[i - (m + 1)]
  <2>1. \/ i \in 1 .. m /\ i <= m + 1
        \/ i = m + 1 /\ i <= m + 1
        \/ i > m + 1 /\ ~ (i <= m + 1) /\ i - (m + 1) \in 1 .. k
    BY <1>3
  <2> QED
    BY <1>6, <1>7, <1>9, <2>1
<1>12. ASSUME NEW i \in 1 .. m
       PROVE  past[i] \in Nat /\ past[i] <= canvas
  BY <1>1, <1>2, ElementOfSeq DEF UpTo, m
<1>13. ASSUME NEW i \in 1 .. k
       PROVE  ahead[i] \in Nat /\ canvas <= ahead[i]
  BY <1>2, <1>3, ElementOfSeq DEF DownTo, k
<1>14. ASSUME NEW i \in 1 .. (m + 1) + k, NEW j \in 1 .. (m + 1) + k, i < j
       PROVE  timeline[i] <= timeline[j]
  <2>1. CASE j \in 1 .. m
    <3>1. i \in 1 .. m
      BY <1>3, <1>14, <2>1
    <3>2. timeline[i] = past[i] /\ timeline[j] = past[j]
      BY <1>3, <1>11, <2>1, <3>1
    <3>3. past[i] <= past[j]
      BY <1>1, <1>14, <2>1, <3>1 DEF Climbs, m
    <3> QED
      BY <3>2, <3>3
  <2>2. CASE j = m + 1
    BY <1>2, <1>3, <1>11, <1>12, <1>14, <2>2
  <2>3. CASE j > m + 1
    <3>1. CASE i > m + 1
      <4>1. /\ i - (m + 1) \in 1 .. k /\ j - (m + 1) \in 1 .. k
            /\ timeline[i] = ahead[i - (m + 1)] /\ timeline[j] = ahead[j - (m + 1)]
            /\ i - (m + 1) < j - (m + 1)
        BY <1>3, <1>11, <1>14, <2>3, <3>1
      <4> QED
        BY <1>3, <4>1 DEF Climbs, k
    <3>2. CASE ~ (i > m + 1)
      <4>1. timeline[i] \in Nat /\ timeline[i] <= canvas
        BY <1>2, <1>3, <1>11, <1>12, <3>2
      <4>2. timeline[j] \in Nat /\ canvas <= timeline[j]
        BY <1>3, <1>11, <1>13, <2>3
      <4> QED
        BY <1>2, <4>1, <4>2
    <3> QED
      BY <3>1, <3>2
  <2> QED
    BY <1>3, <1>11, <2>1, <2>2, <2>3
<1> QED
  BY <1>10, <1>14 DEF timeline, near, ahead

\* StoresAreTrue for any servers, edits and history: a view shows its own
\* server's console, schedules and builds whatever replies are late
\* (useConsoleSync, useSchedulerStore.hydrate, useLoaderStore.load), a store
\* at rest holds what the disk holds (useServerConfigStore, the stores'
\* writes), and undo and redo keep the order of the drawing (graphHistory.ts).
THEOREM StoresTheorem == Spec => []StoresAreTrue
<1>1. StoresInv => StoresAreTrue
  <2> SUFFICES ASSUME StoresInv
               PROVE  StoresAreTrue
    OBVIOUS
  <2>1. ConsoleInv => ConsoleTypeOK /\ ConsoleIsOneServers
    BY DEF ConsoleInv, ConsoleIsOneServers
  <2>2. SchedulesInv => StoreTypeOK /\ StoreIsOneServers
    BY DEF SchedulesInv
  <2>3. PanelInv => PanelTypeOK /\ SlotIsOneServers
    BY DEF PanelInv
  <2>4. ConfigsInv => ConfigsTypeOK /\ ConfigsAgree
    <3> SUFFICES ASSUME ConfigsInv, calls = {}, ~ unsure
                 PROVE  /\ configs = stored /\ activeId = storedActive
                        /\ activeId = Nil <=> configs = <<>>
      BY DEF ConfigsInv, ConfigsAgree
    <3>1. /\ configs = stored /\ activeId = storedActive
          /\ Names(storedActive, stored) /\ IsList(stored)
      BY DEF ConfigsInv, ConfigsTypeOK, Agree
    <3>2. \A i \in DOMAIN stored : stored[i].id \in Servers
      BY <3>1, ListElements
    <3> QED
      BY <3>1, <3>2, StoresAssumption DEF Names, ServerIds
  <2>5. WrittenInv => WriteTypeOK /\ ScreenIsDisk
    BY DEF WrittenInv, ScreenIsDisk
  <2>6. HistoryInv => History!HistoryTypeOK /\ History!Chronological
    BY TimelineClimbs DEF HistoryInv
  <2> QED
    BY <2>1, <2>2, <2>3, <2>4, <2>5, <2>6
    DEF StoresInv, StoresAreTrue, StoresTypeOK, ViewsShowTheirServer, CopiesAreTrue
<1> QED
  BY <1>1, StoresInvariant, PTL

-----------------------------------------------------------------------------
(****************************************************************************)
(* Of numbers and lists.                                                    *)
(****************************************************************************)
\* A set of naturals that is not empty has a least one.
LEMMA LeastNumber ==
  ASSUME NEW T, T \subseteq Nat, T # {}
  PROVE  \E n \in T : \A m \in T : n <= m
<1>1. IsWellFoundedOn(OpToRel(<, Nat), Nat)
  BY NatLessThanWellFounded
<1>2. PICK n \in T : \A m \in T : ~ (<<m, n>> \in OpToRel(<, Nat))
  BY <1>1, WFMin
<1>3. \A m \in T : m < n => <<m, n>> \in OpToRel(<, Nat)
  BY <1>2 DEF OpToRel
<1>4. \A m \in T : ~ (m < n)
  BY <1>2, <1>3
<1>5. n \in T
  BY <1>2
<1> QED
  BY <1>4, <1>5

\* Where the sequence s holds the value m.
Places(s, m) == {i \in 1 .. Len(s) : s[i] = m}

\* The sequence s without its place k.
Less(s, k) == [j \in 1 .. Len(s) - 1 |-> IF j < k THEN s[j] ELSE s[j + 1]]

\* A sequence holds a value finitely often, and an element appended once more.
LEMMA PlacesAppended ==
  ASSUME NEW S, NEW s \in Seq(S), NEW e \in S, NEW m
  PROVE  /\ IsFiniteSet(Places(s, m)) /\ Cardinality(Places(s, m)) \in 0 .. Len(s)
         /\ Cardinality(Places(Append(s, e), m)) =
              Cardinality(Places(s, m)) + (IF e = m THEN 1 ELSE 0)
<1>1. IsFiniteSet(Places(s, m)) /\ Cardinality(Places(s, m)) \in 0 .. Len(s)
  <2>1. Len(s) \in Nat
    BY LenProperties
  <2>2. IsFiniteSet(1 .. Len(s)) /\ Cardinality(1 .. Len(s)) = Len(s)
    BY <2>1, FS_Interval
  <2>3. Places(s, m) \in SUBSET (1 .. Len(s))
    BY DEF Places
  <2>4. IsFiniteSet(Places(s, m)) /\ Cardinality(Places(s, m)) <= Len(s)
    BY <2>2, <2>3, FS_Subset
  <2> QED
    BY <2>1, <2>4, FS_CardinalityType
<1>2. Len(s) + 1 \notin Places(s, m)
  BY LenProperties DEF Places
<1>3. Places(Append(s, e), m) =
        IF e = m THEN Places(s, m) \cup {Len(s) + 1} ELSE Places(s, m)
  BY AppendProperties, LenProperties DEF Places
<1>4. CASE e = m
  BY <1>1, <1>2, <1>3, <1>4, FS_AddElement
<1>5. CASE e # m
  BY <1>1, <1>3, <1>5
<1> QED
  BY <1>1, <1>4, <1>5

\* Taking a place out of a sequence takes it from the places of its value.
LEMMA PlacesLess ==
  ASSUME NEW S, NEW s \in Seq(S), NEW k \in 1 .. Len(s), NEW m
  PROVE  /\ Less(s, k) \in Seq(S) /\ Len(Less(s, k)) = Len(s) - 1
         /\ Cardinality(Places(Less(s, k), m)) =
              Cardinality(Places(s, m)) - (IF s[k] = m THEN 1 ELSE 0)
<1>0. Len(s) - 1 \in Nat /\ \A j \in 1 .. Len(s) : s[j] \in S
  BY LenProperties, ElementOfSeq
<1>1. Less(s, k) \in [1 .. Len(s) - 1 -> S]
  BY <1>0 DEF Less
<1>2. Less(s, k) \in Seq(S) /\ Len(Less(s, k)) = Len(s) - 1
  BY <1>0, <1>1, LenProperties DEF Less
<1>3. IsFiniteSet(Places(s, m)) /\ Cardinality(Places(s, m)) \in Nat
  BY PlacesAppended, <1>0
<1> DEFINE A == Places(s, m) \ {k}
           B == Places(Less(s, k), m)
           f == [i \in A |-> IF i < k THEN i ELSE i - 1]
<1>4. IsFiniteSet(A) /\ Cardinality(A) = Cardinality(Places(s, m)) - (IF s[k] = m THEN 1 ELSE 0)
  <2>1. k \in Places(s, m) <=> s[k] = m
    BY DEF Places
  <2> QED
    BY <1>3, <2>1, FS_RemoveElement
<1>5. f \in Bijection(A, B)
  <2>1. \A i \in A : i \in Int /\ 1 <= i /\ i <= Len(s) /\ i # k /\ s[i] = m
    BY <1>0 DEF Places
  <2>2. \A j : j \in B <=> /\ j \in 1 .. Len(s) - 1
                           /\ (IF j < k THEN s[j] ELSE s[j + 1]) = m
    BY <1>2 DEF Places, Less
  <2>3. f \in [A -> B]
    <3> SUFFICES ASSUME NEW i \in A PROVE (IF i < k THEN i ELSE i - 1) \in B
      OBVIOUS
    <3> HIDE DEF A, B
    <3>1. CASE i < k
      BY <2>1, <2>2, <3>1, <1>0
    <3>2. CASE i > k
      BY <2>1, <2>2, <3>2, <1>0
    <3> QED
      BY <2>1, <3>1, <3>2
  <2>4. \A a, b \in A : f[a] = f[b] => a = b
    BY <2>1, <1>0
  <2>5. \A j \in B : \E a \in A : f[a] = j
    <3> SUFFICES ASSUME NEW j \in B PROVE \E a \in A : f[a] = j
      OBVIOUS
    <3>1. CASE j < k
      BY <2>2, <3>1, <1>0 DEF Places
    <3>2. CASE ~(j < k)
      <4>1. j + 1 \in A
        BY <2>2, <3>2, <1>0 DEF Places
      <4>2. f[j + 1] = j
        BY <4>1, <3>2, <2>2, <1>0
      <4> QED
        BY <4>1, <4>2
    <3> QED
      BY <3>1, <3>2
  <2> QED
    BY <2>3, <2>4, <2>5 DEF Bijection, Injection, Surjection, IsInjective
<1>6. Cardinality(B) = Cardinality(A)
  <2>1. ExistsBijection(A, B)
    BY <1>5 DEF ExistsBijection
  <2> QED
    BY <1>4, <2>1, FS_Bijection
<1> QED
  BY <1>2, <1>4, <1>6

\* The elements of s with another key than `key`, as a recursive function of
\* how many have been looked at; the function there is one of.
Filters(s, key, sieve) ==
  sieve = [n \in 0 .. Len(s) |->
            IF n = 0 THEN <<>>
            ELSE IF s[n].key = key THEN sieve[n - 1] ELSE Append(sieve[n - 1], s[n])]

\* A filter of a list, the entries of one key left out, is what the recursion of
\* Without computes.
LEMMA FilterExists ==
  ASSUME NEW s, NEW key, Len(s) \in Nat
  PROVE  \E sieve : Filters(s, key, sieve)
<1> DEFINE Upto(m, f) ==
             f = [n \in 0 .. m |->
                    IF n = 0 THEN <<>>
                    ELSE IF s[n].key = key THEN f[n - 1] ELSE Append(f[n - 1], s[n])]
           Bad == {m \in 0 .. Len(s) : ~ \E f : Upto(m, f)}
<1>a. Bad \subseteq Nat
  OBVIOUS
<1>b. \A m \in 0 .. Len(s) : m \notin Bad => \E f : Upto(m, f)
  OBVIOUS
<1>c. \A m \in Bad : m \in 0 .. Len(s) /\ ~ \E f : Upto(m, f)
  OBVIOUS
<1>d. ASSUME NEW sieve, Upto(Len(s), sieve) PROVE Filters(s, key, sieve)
  BY <1>d DEF Filters
<1> HIDE DEF Bad, Upto
<1>1. SUFFICES Bad = {}
  <2>1. Len(s) \in 0 .. Len(s)
    OBVIOUS
  <2> QED
    BY <2>1, <1>b, <1>d
<1>2. SUFFICES ASSUME Bad # {} PROVE FALSE
  OBVIOUS
<1>3. PICK m \in Bad : \A k \in Bad : m <= k
  BY <1>2, <1>a, LeastNumber
<1> USE DEF Upto
<1>4. CASE m = 0
  <2>1. Upto(0, [n \in 0 .. 0 |-> <<>>])
    OBVIOUS
  <2> QED
    BY <1>3, <1>4, <1>c, <2>1
<1>5. CASE m # 0
  <2>1. m \in Nat /\ m - 1 \in 0 .. Len(s) /\ m - 1 \notin Bad
    <3>1. m \in 1 .. Len(s)
      BY <1>3, <1>5, <1>c
    <3>2. ~ (m <= m - 1)
      BY <3>1
    <3> QED
      BY <1>3, <3>1, <3>2
  <2>2. PICK f : Upto(m - 1, f)
    BY <2>1, <1>b
  <2> DEFINE g == [n \in 0 .. m |->
                     IF n < m THEN f[n]
                     ELSE IF s[n].key = key THEN f[n - 1] ELSE Append(f[n - 1], s[n])]
  <2>3. \A n \in 0 .. m - 1 : g[n] = f[n]
    BY <2>1
  <2>4. \A n \in 0 .. m :
          g[n] = IF n = 0 THEN <<>>
                 ELSE IF s[n].key = key THEN g[n - 1] ELSE Append(g[n - 1], s[n])
    <3> SUFFICES ASSUME NEW n \in 0 .. m
                 PROVE  g[n] = IF n = 0 THEN <<>>
                               ELSE IF s[n].key = key THEN g[n - 1] ELSE Append(g[n - 1], s[n])
      OBVIOUS
    <3>1. CASE n = m
      BY <3>1, <2>1, <2>3, <1>5
    <3>2. CASE n < m
      <4>1. f[n] = IF n = 0 THEN <<>>
                   ELSE IF s[n].key = key THEN f[n - 1] ELSE Append(f[n - 1], s[n])
        <5>1. n \in 0 .. m - 1
          BY <2>1, <3>2
        <5> QED
          BY <2>2, <5>1
      <4>2. g[n] = f[n] /\ (n # 0 => g[n - 1] = f[n - 1])
        BY <2>1, <2>3, <3>2
      <4> QED
        BY <4>1, <4>2
    <3> QED
      BY <2>1, <3>1, <3>2
  <2>5. Upto(m, g)
    BY <2>4
  <2> QED
    BY <1>3, <1>c, <2>5
<1> QED
  BY <1>4, <1>5

\* What it keeps are elements of s with other keys, in a list at least one
\* shorter if one had the key, and with no key twice if s has none twice.
LEMMA FilterKeeps ==
  ASSUME NEW S, NEW s \in Seq(S), NEW key, NEW sieve, Filters(s, key, sieve),
         \A i, j \in 1 .. Len(s) : s[i].key = s[j].key => i = j
  PROVE  LET t == sieve[Len(s)] IN
           /\ t \in Seq(S) /\ Len(t) <= Len(s)
           /\ (\E k \in 1 .. Len(s) : s[k].key = key) => Len(t) + 1 <= Len(s)
           /\ \A i \in 1 .. Len(t) :
                t[i].key # key /\ \E k \in 1 .. Len(s) : t[i] = s[k]
           /\ \A i, j \in 1 .. Len(t) : t[i].key = t[j].key => i = j
<1> DEFINE Drops(n) == \E k \in 1 .. n : s[k].key = key
           Good(n, t) ==
             /\ t \in Seq(S) /\ Len(t) <= n
             /\ Drops(n) => Len(t) + 1 <= n
             /\ \A i \in 1 .. Len(t) : t[i].key # key /\ \E k \in 1 .. n : t[i] = s[k]
             /\ \A i, j \in 1 .. Len(t) : t[i].key = t[j].key => i = j
           Bad == {n \in 0 .. Len(s) : ~ Good(n, sieve[n])}
<1>0. Len(s) \in Nat /\ \A n \in 1 .. Len(s) : s[n] \in S
  BY LenProperties, ElementOfSeq
<1>a. Bad \subseteq Nat
  BY <1>0
<1>b. \A n \in 0 .. Len(s) : n \notin Bad => Good(n, sieve[n])
  OBVIOUS
<1>c. \A n \in Bad : n \in 0 .. Len(s) /\ ~ Good(n, sieve[n])
  OBVIOUS
<1>d. \A n \in 0 .. Len(s) :
        sieve[n] = IF n = 0 THEN <<>>
                  ELSE IF s[n].key = key THEN sieve[n - 1] ELSE Append(sieve[n - 1], s[n])
  BY DEF Filters
<1> HIDE DEF Bad
<1>1. SUFFICES Bad = {}
  <2>1. Len(s) \in 0 .. Len(s)
    BY <1>0
  <2> QED
    BY <2>1, <1>b
<1>2. SUFFICES ASSUME Bad # {} PROVE FALSE
  OBVIOUS
<1>3. PICK n \in Bad : \A k \in Bad : n <= k
  BY <1>2, <1>a, LeastNumber
<1>4. n \in 0 .. Len(s) /\ ~ Good(n, sieve[n])
  BY <1>3, <1>c
<1>5. n # 0
  <2>1. sieve[0] = <<>>
    BY <1>0, <1>d
  <2>2. Good(0, <<>>)
    BY EmptySeq
  <2>3. SUFFICES ASSUME n = 0 PROVE FALSE
    OBVIOUS
  <2> HIDE DEF Good
  <2>4. Good(n, sieve[n])
    BY <2>1, <2>2, <2>3
  <2> QED
    BY <1>4, <2>4
<1>6. n \in 1 .. Len(s) /\ n - 1 \in 0 .. Len(s) /\ n - 1 \notin Bad
  <2>1. n \in 1 .. Len(s) /\ ~ (n <= n - 1)
    BY <1>0, <1>4, <1>5
  <2> QED
    BY <1>0, <1>3, <2>1
<1> DEFINE t == sieve[n - 1]
<1>7. Good(n - 1, t)
  BY <1>6, <1>b
<1>8. sieve[n] = IF s[n].key = key THEN t ELSE Append(t, s[n])
  BY <1>0, <1>5, <1>6, <1>d
<1>9. Len(t) \in Nat
  BY <1>7, LenProperties
<1> HIDE DEF t
<1>10. CASE s[n].key = key
  BY <1>4, <1>6, <1>7, <1>8, <1>9, <1>10
<1>11. CASE s[n].key # key
  <2> DEFINE u == Append(t, s[n])
  <2>1. /\ u \in Seq(S) /\ Len(u) = Len(t) + 1
        /\ \A i \in 1 .. Len(t) : u[i] = t[i]
        /\ u[Len(t) + 1] = s[n]
    BY <1>0, <1>6, <1>7, AppendProperties
  <2> HIDE DEF u
  <2>2. \A i \in 1 .. Len(u) : i \in 1 .. Len(t) \/ i = Len(t) + 1
    BY <1>9, <2>1
  <2>3. \A i \in 1 .. Len(t) : t[i].key # s[n].key
    <3> SUFFICES ASSUME NEW i \in 1 .. Len(t), t[i].key = s[n].key PROVE FALSE
      OBVIOUS
    <3>1. PICK k \in 1 .. n - 1 : t[i] = s[k]
      BY <1>7
    <3> QED
      BY <3>1, <1>6
  <2>4. \A i \in 1 .. Len(u) : u[i].key # key /\ \E k \in 1 .. n : u[i] = s[k]
    <3>1. \A i \in 1 .. Len(t) : t[i].key # key /\ \E k \in 1 .. n - 1 : t[i] = s[k]
      BY <1>7
    <3>2. \A k \in 1 .. n - 1 : k \in 1 .. n
      BY <1>6
    <3>3. n \in 1 .. n
      BY <1>6
    <3>4. \A i \in 1 .. Len(t) : u[i].key # key /\ \E k \in 1 .. n : u[i] = s[k]
      BY <2>1, <3>1, <3>2
    <3>5. u[Len(t) + 1].key # key /\ \E k \in 1 .. n : u[Len(t) + 1] = s[k]
      BY <2>1, <3>3, <1>11
    <3> QED
      BY <2>2, <3>4, <3>5
  <2>5. \A i, j \in 1 .. Len(u) : u[i].key = u[j].key => i = j
    BY <1>7, <2>1, <2>2, <2>3
  <2>6. Len(u) <= n /\ (Drops(n) => Len(u) + 1 <= n)
    <3>1. Drops(n) => Drops(n - 1)
      BY <1>6, <1>11
    <3> QED
      BY <1>6, <1>7, <1>9, <2>1, <3>1
  <2>7. Good(n, u)
    BY <2>1, <2>4, <2>5, <2>6
  <2> QED
    BY <1>4, <1>8, <1>11, <2>7 DEF u
<1> QED
  BY <1>10, <1>11

-----------------------------------------------------------------------------
(****************************************************************************)
(* Remote approvals (remote_approve.go): a call is asked for, waits, is     *)
(* answered on the desktop and runs.                                        *)
(****************************************************************************)
\* A call on the list has not been answered, and one that is allowed has been.
AnswersAreFirst ==
  /\ \A c \in waiting : asks[c].answer = "none" /\ asks[c].phase \in {"held", "turned down"}
  /\ \A c \in 1 .. Len(asks) : asks[c].phase \in {"allowed", "ran"} => asks[c].answer = "allow"

\* With no refresh to come the newest list read is the one that waits; it is on
\* its way, or it is on the screen unless an older one has replaced it.
NewestIsList ==
  refreshes = 0 =>
    \/ /\ Len(reads) > 0
       /\ reads[Len(reads)].calls = waiting /\ reads[Len(reads)].overtaken = FALSE
    \/ /\ \A j \in 1 .. Len(reads) : reads[j].overtaken = TRUE
       /\ stale \/ prompts = waiting

ApprovalsInv ==
  /\ Shell!Approvals!ApprovalsTypeOK
  /\ reads \in Seq([calls : SUBSET Nat, overtaken : BOOLEAN])
  /\ refreshes + Len(reads) <= MaxRefreshes
  /\ IsFiniteSet(waiting)
  /\ AnswersAreFirst
  /\ Shell!Approvals!ListIsBounded
  /\ NewestIsList

\* RemoteApprovals counts with the FiniteSets it extends.
LEMMA ApprovalsCount == ASSUME NEW S PROVE Shell!Approvals!Cardinality(S) = Cardinality(S)
BY DEF Shell!Approvals!Cardinality, Cardinality

\* No call was asked for, and the list was read once.
LEMMA ApprovalsStart == Shell!Approvals!ApprovalsInit => ApprovalsInv
<1> SUFFICES ASSUME Shell!Approvals!ApprovalsInit PROVE ApprovalsInv
  OBVIOUS
<1>1. /\ asks = <<>> /\ Len(asks) = 0 /\ waiting = {} /\ prompts = {} /\ refreshes = 1
      /\ reads = <<>> /\ Len(reads) = 0 /\ clicks = {}
  BY DEF Shell!Approvals!ApprovalsInit
<1>2. busy \in BOOLEAN /\ stale \in BOOLEAN
  BY DEF Shell!Approvals!ApprovalsInit
<1>3. IsFiniteSet(waiting) /\ Shell!Approvals!Cardinality(waiting) = 0
  BY <1>1, FS_EmptySet, ApprovalsCount
<1>4. Shell!Approvals!ApprovalsTypeOK
  BY <1>1, <1>2, ApprovalsAssumption DEF Shell!Approvals!ApprovalsTypeOK
<1>5. MaxRefreshes \in Nat /\ MaxRefreshes >= 1 /\ MaxApprovals >= 0
  BY ApprovalsAssumption
<1> QED
  BY <1>1, <1>3, <1>4, <1>5
  DEF ApprovalsInv, AnswersAreFirst, NewestIsList, Shell!Approvals!ListIsBounded

\* What the invariant says of the calls is what remote_approve.go promises.
LEMMA ApprovalsPromise ==
  ApprovalsInv => Shell!Approvals!ApprovalsTypeOK /\ Shell!Approvals!ApprovalsAreSafe
<1> SUFFICES ASSUME ApprovalsInv PROVE Shell!Approvals!ApprovalsAreSafe
  BY DEF ApprovalsInv
<1>1. Shell!Approvals!RanWithLeave
  <2>1. DOMAIN asks = 1 .. Len(asks)
    BY LenProperties DEF ApprovalsInv, Shell!Approvals!ApprovalsTypeOK
  <2> QED
    BY <2>1 DEF ApprovalsInv, AnswersAreFirst, Shell!Approvals!RanWithLeave
<1>2. Shell!Approvals!ScreenIsList
  <2>1. reads = <<>> => Len(reads) = 0
    OBVIOUS
  <2> QED
    BY <2>1 DEF ApprovalsInv, NewestIsList, Shell!Approvals!ScreenIsList
<1> QED
  BY <1>1, <1>2 DEF ApprovalsInv, Shell!Approvals!ApprovalsAreSafe

\* What the variables hold.
ApprovalTypes ==
  /\ asks \in Seq(Shell!Approvals!Call) /\ Len(asks) <= MaxAsks
  /\ waiting \subseteq 1 .. Len(asks) /\ prompts \subseteq 1 .. Len(asks)
  /\ \A i \in 1 .. Len(reads) : reads[i].calls \subseteq 1 .. Len(asks)
  /\ clicks \subseteq [call : 1 .. Len(asks), answer : {"allow", "deny", "none"}]
  /\ reads \in Seq([calls : SUBSET Nat, overtaken : BOOLEAN])
  /\ refreshes \in Nat /\ refreshes + Len(reads) <= MaxRefreshes

\* The types, by the names used here.
LEMMA ApprovalTypesHold ==
  ASSUME ApprovalsInv
  PROVE  /\ ApprovalTypes /\ busy \in BOOLEAN /\ stale \in BOOLEAN
         /\ Len(asks) \in Nat /\ Len(reads) \in Nat
         /\ DOMAIN asks = 1 .. Len(asks) /\ DOMAIN reads = 1 .. Len(reads)
         /\ MaxApprovals \in Nat /\ MaxAsks \in Nat /\ MaxRefreshes \in Nat
<1>1. /\ Len(asks) \in Nat /\ Len(reads) \in Nat
      /\ DOMAIN asks = 1 .. Len(asks) /\ DOMAIN reads = 1 .. Len(reads)
  BY LenProperties DEF ApprovalsInv, Shell!Approvals!ApprovalsTypeOK
<1>2. MaxApprovals \in Nat /\ MaxAsks \in Nat /\ MaxRefreshes \in Nat
  BY ApprovalsAssumption
<1>3. busy \in BOOLEAN /\ stale \in BOOLEAN
  BY DEF ApprovalsInv, Shell!Approvals!ApprovalsTypeOK
<1>4. refreshes \in Nat
  BY <1>2 DEF ApprovalsInv, Shell!Approvals!ApprovalsTypeOK
<1> QED
  BY <1>1, <1>2, <1>3, <1>4
  DEF ApprovalsInv, Shell!Approvals!ApprovalsTypeOK, ApprovalTypes, Shell!Approvals!Answers

\* And back again.
LEMMA ApprovalTypesSuffice ==
  ASSUME ApprovalTypes', busy' \in BOOLEAN, stale' \in BOOLEAN
  PROVE  Shell!Approvals!ApprovalsTypeOK'
<1>1. /\ Len(asks') \in Nat /\ Len(reads') \in Nat
      /\ DOMAIN asks' = 1 .. Len(asks') /\ DOMAIN reads' = 1 .. Len(reads')
  BY LenProperties DEF ApprovalTypes
<1>2. refreshes' \in 0 .. MaxRefreshes
  BY <1>1, ApprovalsAssumption DEF ApprovalTypes
<1> QED
  BY <1>1, <1>2
  DEF ApprovalTypes, Shell!Approvals!ApprovalsTypeOK, Shell!Approvals!Answers

\* A call of a device asked, on the list if it may be.
LEMMA ApprovalsAsk ==
  ASSUME ApprovalsInv, NEW d \in Devices, Shell!Approvals!Ask(d)
  PROVE  ApprovalsInv'
<1> DEFINE admitted == ~ Shell!Approvals!IsWaiting(d) /\ Cardinality(waiting) < MaxApprovals
           e == [device |-> d, answer |-> "none", phase |-> IF admitted THEN "held" ELSE "refused"]
<1>1. PICK n \in Nat : n = Len(asks)
  BY ApprovalTypesHold
<1>2. /\ n < MaxAsks /\ asks' = Append(asks, e)
      /\ admitted => waiting' = waiting \cup {Len(asks')} /\ Shell!Approvals!Refresh
      /\ ~ admitted => UNCHANGED <<waiting, refreshes>>
      /\ UNCHANGED <<prompts, reads, clicks, busy, stale>>
  BY <1>1, ApprovalsCount DEF Shell!Approvals!Ask
<1>3. e \in Shell!Approvals!Call
  BY DEF Shell!Approvals!Call, Shell!Approvals!Answers
<1>4. e.device = d /\ e.answer = "none" /\ e.phase = IF admitted THEN "held" ELSE "refused"
  OBVIOUS
<1>5. ~ Shell!Approvals!IsWaiting(d) => \A c \in waiting : asks[c].device # d
  BY DEF Shell!Approvals!IsWaiting
<1>0. admitted \in BOOLEAN
  OBVIOUS
<1> HIDE DEF e
<1>6. /\ asks' \in Seq(Shell!Approvals!Call) /\ Len(asks') = n + 1
      /\ \A c \in 1 .. n : asks'[c] = asks[c]
      /\ asks'[n + 1] = e
  BY <1>1, <1>2, <1>3, ApprovalTypesHold, AppendProperties DEF ApprovalTypes
<1>7. /\ waiting \subseteq 1 .. n /\ IsFiniteSet(waiting) /\ Cardinality(waiting) \in Nat
      /\ n + 1 \notin waiting
  BY <1>1, ApprovalTypesHold, FS_CardinalityType DEF ApprovalsInv, ApprovalTypes
<1>8. /\ admitted => refreshes' = refreshes + 1 /\ refreshes + Len(reads) < MaxRefreshes
      /\ ~ admitted => refreshes' = refreshes
  BY <1>2 DEF Shell!Approvals!Refresh
<1>9. waiting' = IF admitted THEN waiting \cup {n + 1} ELSE waiting
  BY <1>2, <1>6
<1>10. ApprovalTypes'
  <2>1. waiting' \subseteq 1 .. n + 1
    BY <1>7, <1>9
  <2>2. refreshes' \in Nat /\ refreshes' + Len(reads') <= MaxRefreshes
    BY <1>2, <1>8, ApprovalTypesHold DEF ApprovalTypes
  <2>3. /\ prompts' \subseteq 1 .. n + 1
        /\ \A i \in 1 .. Len(reads') : reads'[i].calls \subseteq 1 .. n + 1
    BY <1>1, <1>2, ApprovalTypesHold DEF ApprovalTypes
  <2>4. clicks' \subseteq [call : 1 .. n + 1, answer : {"allow", "deny", "none"}]
    BY <1>1, <1>2, ApprovalTypesHold DEF ApprovalTypes
  <2>5. n + 1 <= MaxAsks
    BY <1>2, ApprovalTypesHold
  <2> QED
    BY <1>2, <1>6, <2>1, <2>2, <2>3, <2>4, <2>5, ApprovalTypesHold DEF ApprovalTypes
<1>11. AnswersAreFirst'
  <2>1. \A c \in waiting' : c \in waiting \/ (c = n + 1 /\ admitted)
    BY <1>9
  <2>2. \A c \in 1 .. Len(asks') : c \in 1 .. n \/ c = n + 1
    BY <1>6
  <2>3. AnswersAreFirst
    BY DEF ApprovalsInv
  <2>4. \A c \in waiting' :
          asks'[c].answer = "none" /\ asks'[c].phase \in {"held", "turned down"}
    BY <1>4, <1>6, <1>7, <2>1, <2>3 DEF AnswersAreFirst
  <2>5. \A c \in 1 .. Len(asks') :
          asks'[c].phase \in {"allowed", "ran"} => asks'[c].answer = "allow"
    BY ZenonT(30), <1>1, <1>4, <1>6, <2>2, <2>3 DEF AnswersAreFirst
  <2> QED
    BY <2>4, <2>5 DEF AnswersAreFirst
<1>12. Shell!Approvals!ListIsBounded' /\ IsFiniteSet(waiting')
  <2>1. /\ \A c, x \in waiting : asks[c].device = asks[x].device => c = x
        /\ Cardinality(waiting) <= MaxApprovals
    BY ApprovalsCount DEF ApprovalsInv, Shell!Approvals!ListIsBounded
  <2>2. \A c, x \in waiting' : asks'[c].device = asks'[x].device => c = x
    BY <1>4, <1>5, <1>6, <1>7, <1>9, <2>1
  <2>3. IsFiniteSet(waiting') /\ Cardinality(waiting') <= MaxApprovals
    <3>1. CASE admitted
      <4>1. /\ IsFiniteSet(waiting \cup {n + 1})
            /\ Cardinality(waiting \cup {n + 1}) = Cardinality(waiting) + 1
        BY <1>7, FS_AddElement
      <4> QED
        BY <1>7, <1>9, <3>1, <4>1, ApprovalTypesHold
    <3>2. CASE ~ admitted
      BY <1>7, <1>9, <2>1, <3>2
    <3> QED
      BY <3>1, <3>2
  <2> QED
    BY <2>2, <2>3, ApprovalsCount DEF Shell!Approvals!ListIsBounded
<1>13. NewestIsList'
  <2>1. CASE admitted
    <3>1. refreshes' # 0
      BY <1>8, <2>1, ApprovalTypesHold DEF ApprovalTypes
    <3> QED
      BY <3>1 DEF NewestIsList
  <2>2. CASE ~ admitted
    BY <1>2, <2>2 DEF ApprovalsInv, NewestIsList
  <2> QED
    BY <2>1, <2>2
<1>14. busy' \in BOOLEAN /\ stale' \in BOOLEAN
  BY <1>2, ApprovalTypesHold
<1> QED
  BY <1>10, <1>11, <1>12, <1>13, <1>14, ApprovalTypesSuffice DEF ApprovalsInv, ApprovalTypes

\* Calls leave the list, or what is known of them changes, but not who made them.
LEMMA ListShrinks ==
  ASSUME ApprovalsInv, waiting' \subseteq waiting, Len(asks') = Len(asks),
         \A c \in 1 .. Len(asks) : asks'[c].device = asks[c].device
  PROVE  Shell!Approvals!ListIsBounded' /\ IsFiniteSet(waiting')
<1>1. /\ IsFiniteSet(waiting) /\ Cardinality(waiting) <= MaxApprovals
      /\ \A c, x \in waiting : asks[c].device = asks[x].device => c = x
      /\ waiting \subseteq 1 .. Len(asks)
  BY ApprovalsCount, ApprovalTypesHold
  DEF ApprovalsInv, Shell!Approvals!ListIsBounded, ApprovalTypes
<1>2. /\ IsFiniteSet(waiting') /\ Cardinality(waiting') <= Cardinality(waiting)
      /\ Cardinality(waiting') \in Nat /\ Cardinality(waiting) \in Nat
  BY <1>1, FS_Subset, FS_CardinalityType
<1>3. Cardinality(waiting') <= MaxApprovals
  BY <1>1, <1>2, ApprovalTypesHold
<1>4. \A c, x \in waiting' : asks'[c].device = asks'[x].device => c = x
  BY <1>1
<1> QED
  BY <1>2, <1>3, <1>4, ApprovalsCount DEF Shell!Approvals!ListIsBounded

\* A call's record with another phase, or another answer.
LEMMA PhaseMoved ==
  ASSUME NEW r \in Shell!Approvals!Call,
         NEW o \in {"held", "allowed", "turned down", "ran", "refused"}
  PROVE  /\ [r EXCEPT !.phase = o] \in Shell!Approvals!Call
         /\ [r EXCEPT !.phase = o].device = r.device
         /\ [r EXCEPT !.phase = o].phase = o
         /\ [r EXCEPT !.phase = o].answer = r.answer
BY DEF Shell!Approvals!Call, Shell!Approvals!Answers

\* An answer changes nothing else of a call.
LEMMA AnswerGiven ==
  ASSUME NEW r \in Shell!Approvals!Call, NEW a \in {"allow", "deny", "none"}
  PROVE  /\ [r EXCEPT !.answer = a] \in Shell!Approvals!Call
         /\ [r EXCEPT !.answer = a].device = r.device
         /\ [r EXCEPT !.answer = a].phase = r.phase
         /\ [r EXCEPT !.answer = a].answer = a
BY DEF Shell!Approvals!Call, Shell!Approvals!Answers

\* The record of call c becomes e, and it may leave the list.
CallMoves(c, e) ==
  /\ e.device = asks[c].device /\ asks' = [asks EXCEPT ![c] = e]
  /\ \/ waiting' = waiting /\ refreshes' = refreshes
     \/ waiting' = waiting \ {c} /\ Shell!Approvals!Refresh
  /\ c \in waiting' => e.answer = "none" /\ e.phase \in {"held", "turned down"}
  /\ e.phase \in {"allowed", "ran"} => e.answer = "allow"
  /\ prompts' = prompts /\ reads' = reads /\ stale' = stale
  /\ clicks' \subseteq clicks

\* A call that takes its next step (Held, Answered, Ran) keeps the invariant.
LEMMA CallChanges ==
  ASSUME ApprovalsInv, NEW c \in 1 .. Len(asks), NEW e \in Shell!Approvals!Call,
         CallMoves(c, e), busy' \in BOOLEAN
  PROVE  ApprovalsInv'
<1>e. e.device = asks[c].device /\ asks' = [asks EXCEPT ![c] = e]
  BY DEF CallMoves
<1>f. c \in waiting' => e.answer = "none" /\ e.phase \in {"held", "turned down"}
  BY DEF CallMoves
<1>g. e.phase \in {"allowed", "ran"} => e.answer = "allow"
  BY DEF CallMoves
<1>h. /\ prompts' = prompts /\ reads' = reads /\ stale' = stale
      /\ clicks' \subseteq clicks
  BY DEF CallMoves
<1>0. /\ ApprovalTypes /\ AnswersAreFirst /\ NewestIsList
      /\ Len(asks) \in Nat /\ DOMAIN asks = 1 .. Len(asks) /\ stale \in BOOLEAN
  BY ApprovalTypesHold DEF ApprovalsInv
<1>a. /\ Len(reads) \in Nat /\ MaxRefreshes \in Nat /\ refreshes \in Nat
      /\ refreshes + Len(reads) <= MaxRefreshes
      /\ asks \in Seq(Shell!Approvals!Call)
  BY ApprovalTypesHold DEF ApprovalTypes
<1>1. /\ asks' \in Seq(Shell!Approvals!Call) /\ Len(asks') = Len(asks)
      /\ asks'[c] = e
      /\ \A x \in 1 .. Len(asks) : x # c => asks'[x] = asks[x]
  <2>1. asks' \in Seq(Shell!Approvals!Call) /\ Len(asks') = Len(asks)
    BY <1>a, <1>e, ExceptSeq
  <2> QED
    BY <1>0, <1>e, <2>1
<1>2. \A x \in 1 .. Len(asks) : asks'[x].device = asks[x].device
  BY <1>1, <1>e
<1>3. waiting' \subseteq waiting /\ waiting \subseteq 1 .. Len(asks)
  BY <1>0 DEF ApprovalTypes, CallMoves
<1>4. Shell!Approvals!ListIsBounded' /\ IsFiniteSet(waiting')
  BY <1>1, <1>2, <1>3, ListShrinks
<1>5. \/ waiting' = waiting /\ refreshes' = refreshes
      \/ refreshes' = refreshes + 1 /\ refreshes + Len(reads) < MaxRefreshes
  BY DEF CallMoves, Shell!Approvals!Refresh
<1>6. refreshes' \in Nat /\ refreshes' + Len(reads') <= MaxRefreshes
  BY <1>a, <1>h, <1>5
<1>7. ApprovalTypes'
  <2>1. /\ prompts \subseteq 1 .. Len(asks) /\ Len(asks) <= MaxAsks
        /\ \A i \in 1 .. Len(reads) : reads[i].calls \subseteq 1 .. Len(asks)
        /\ clicks \subseteq [call : 1 .. Len(asks), answer : {"allow", "deny", "none"}]
        /\ reads \in Seq([calls : SUBSET Nat, overtaken : BOOLEAN])
    BY <1>0 DEF ApprovalTypes
  <2>2. Len(asks') = Len(asks) /\ asks' \in Seq(Shell!Approvals!Call)
    BY <1>1
  <2> QED
    BY <1>3, <1>6, <1>h, <2>1, <2>2 DEF ApprovalTypes
<1>8. NewestIsList'
  <2>1. CASE waiting' = waiting /\ refreshes' = refreshes
    BY <1>0, <1>h, <2>1 DEF NewestIsList
  <2>2. CASE refreshes' = refreshes + 1
    <3>1. refreshes' # 0
      BY <1>a, <2>2
    <3> QED
      BY <3>1 DEF NewestIsList
  <2> QED
    BY <1>5, <2>1, <2>2
<1>9. AnswersAreFirst'
  <2>1. \A x \in waiting' :
          asks'[x].answer = "none" /\ asks'[x].phase \in {"held", "turned down"}
    BY <1>0, <1>1, <1>3, <1>f DEF AnswersAreFirst
  <2>2. \A x \in 1 .. Len(asks') :
          asks'[x].phase \in {"allowed", "ran"} => asks'[x].answer = "allow"
    <3> SUFFICES ASSUME NEW x \in 1 .. Len(asks)
                 PROVE  asks'[x].phase \in {"allowed", "ran"} => asks'[x].answer = "allow"
      BY <1>1
    <3>1. CASE x = c
      BY <1>1, <1>g, <3>1
    <3>2. CASE x # c
      BY <1>0, <1>1, <3>2 DEF AnswersAreFirst
    <3> QED
      BY <3>1, <3>2
  <2> QED
    BY <2>1, <2>2 DEF AnswersAreFirst
<1>10. Shell!Approvals!ApprovalsTypeOK'
  BY <1>0, <1>7, <1>h, ApprovalTypesSuffice
<1> QED
  BY <1>4, <1>7, <1>8, <1>9, <1>10 DEF ApprovalsInv, ApprovalTypes

\* A list that was read lands, in whatever order.
LEMMA ApprovalsLand ==
  ASSUME ApprovalsInv, NEW i \in 1 .. Len(reads), Shell!Approvals!Land(i)
  PROVE  ApprovalsInv'
<1>0. /\ ApprovalTypes /\ AnswersAreFirst /\ NewestIsList
      /\ Len(asks) \in Nat /\ Len(reads) \in Nat /\ MaxRefreshes \in Nat
  BY ApprovalTypesHold DEF ApprovalsInv
<1>1. PICK n \in Nat : n = Len(reads)
  BY <1>0
<1>2. /\ prompts' = reads[i].calls /\ stale' = reads[i].overtaken
      /\ reads' = [j \in 1 .. n - 1 |->
                     IF j < i THEN [reads[j] EXCEPT !.overtaken = TRUE] ELSE reads[j + 1]]
      /\ UNCHANGED <<asks, waiting, refreshes, clicks>>
  BY <1>1 DEF Shell!Approvals!Land
<1>3. busy' \in BOOLEAN
  BY DEF Shell!Approvals!Land
<1> DEFINE R == [calls : SUBSET Nat, overtaken : BOOLEAN]
<1>4. \A j \in 1 .. n : reads[j] \in R
  BY <1>0, <1>1, ElementOfSeq DEF ApprovalTypes
<1>5. reads' \in Seq(R) /\ Len(reads') = n - 1
  <2>1. n - 1 \in Nat
    BY <1>1
  <2>2. \A j \in 1 .. n - 1 : j \in 1 .. n /\ j + 1 \in 1 .. n
    OBVIOUS
  <2>3. \A j \in 1 .. n - 1 : reads'[j] \in R
    BY <1>2, <1>4, <2>2
  <2>4. reads' \in [1 .. n - 1 -> R]
    BY <1>2, <2>3
  <2> QED
    <3> HIDE DEF R
    <3> QED
      BY <2>1, <2>4
<1>6. ApprovalTypes'
  <2>1. prompts' \subseteq 1 .. Len(asks')
    BY <1>0, <1>2 DEF ApprovalTypes
  <2>2. \A j \in 1 .. n - 1 : reads'[j].calls \subseteq 1 .. Len(asks')
    <3>1. \A j \in 1 .. n - 1 : j \in 1 .. n /\ j + 1 \in 1 .. n
      OBVIOUS
    <3>2. \A j \in 1 .. n : [reads[j] EXCEPT !.overtaken = TRUE].calls = reads[j].calls
      BY <1>4
    <3> QED
      BY <1>0, <1>1, <1>2, <3>1, <3>2 DEF ApprovalTypes
  <2>3. refreshes' + Len(reads') <= MaxRefreshes
    BY <1>0, <1>1, <1>2, <1>5 DEF ApprovalTypes
  <2> QED
    BY <1>0, <1>2, <1>5, <2>1, <2>2, <2>3 DEF ApprovalTypes
<1>7. NewestIsList'
  <2> SUFFICES ASSUME refreshes = 0
               PROVE  \/ /\ n - 1 > 0
                         /\ reads'[n - 1].calls = waiting
                         /\ reads'[n - 1].overtaken = FALSE
                      \/ /\ \A j \in 1 .. n - 1 : reads'[j].overtaken = TRUE
                         /\ stale' \/ prompts' = waiting
    BY <1>2, <1>5 DEF NewestIsList
  <2>1. \A j \in 1 .. n - 1 : j < i => reads'[j].overtaken = TRUE
    BY <1>2, <1>4
  <2>2. \A j \in 1 .. n - 1 : ~ (j < i) => reads'[j] = reads[j + 1]
    BY <1>2
  <2>3. CASE n > 0 /\ reads[n].calls = waiting /\ reads[n].overtaken = FALSE
    <3>1. CASE i = n
      BY <1>2, <2>1, <2>3, <3>1
    <3>2. CASE i < n
      <4>1. n - 1 \in 1 .. n - 1 /\ ~ (n - 1 < i) /\ (n - 1) + 1 = n
        BY <1>1, <3>2
      <4>2. reads'[n - 1] = reads[n]
        BY <2>2, <4>1
      <4> QED
        BY <2>3, <4>1, <4>2
    <3>3. i = n \/ i < n
      BY <1>1
    <3> QED
      BY <3>1, <3>2, <3>3
  <2>4. CASE \A j \in 1 .. n : reads[j].overtaken = TRUE
    <3>1. stale' = TRUE
      BY <1>1, <1>2, <2>4
    <3>2. \A j \in 1 .. n - 1 : j + 1 \in 1 .. n
      OBVIOUS
    <3>3. \A j \in 1 .. n - 1 : reads'[j].overtaken = TRUE
      BY <2>1, <2>2, <2>4, <3>2
    <3> QED
      BY <3>1, <3>3
  <2> QED
    BY <1>0, <1>1, <2>3, <2>4 DEF NewestIsList
<1>8. stale' \in BOOLEAN
  BY <1>1, <1>2, <1>4
<1>9. Shell!Approvals!ListIsBounded' /\ IsFiniteSet(waiting')
  BY <1>2, ListShrinks
<1>10. AnswersAreFirst'
  BY <1>0, <1>2 DEF AnswersAreFirst
<1> QED
  BY <1>3, <1>6, <1>7, <1>8, <1>9, <1>10, ApprovalTypesSuffice DEF ApprovalsInv, ApprovalTypes

\* No step of a call, of the desktop's list or of a click breaks it.
LEMMA ApprovalsStep ==
  ApprovalsInv /\ [Shell!Approvals!ApprovalsNext]_(Shell!approvalVars) => ApprovalsInv'
<1> SUFFICES ASSUME ApprovalsInv, [Shell!Approvals!ApprovalsNext]_(Shell!approvalVars)
             PROVE  ApprovalsInv'
  OBVIOUS
<1>0. /\ ApprovalTypes /\ AnswersAreFirst /\ NewestIsList
      /\ busy \in BOOLEAN /\ stale \in BOOLEAN
      /\ Len(asks) \in Nat /\ Len(reads) \in Nat /\ MaxRefreshes \in Nat
      /\ DOMAIN asks = 1 .. Len(asks) /\ DOMAIN reads = 1 .. Len(reads)
  BY ApprovalTypesHold DEF ApprovalsInv
<1>c. \A c \in 1 .. Len(asks) : asks[c] \in Shell!Approvals!Call
  BY <1>0, ElementOfSeq DEF ApprovalTypes
<1>1. ASSUME NEW c \in 1 .. Len(asks), Shell!Approvals!StopsWaiting(c) PROVE ApprovalsInv'
  <2>1. PICK o \in {"turned down", "allowed"} :
          /\ asks[c].phase = "held" /\ asks' = [asks EXCEPT ![c].phase = o]
          /\ o = "allowed" => asks[c].answer = "allow"
          /\ UNCHANGED <<waiting, prompts, refreshes, reads, clicks, busy, stale>>
    BY <1>1 DEF Shell!Approvals!StopsWaiting, Shell!Approvals!Outcomes
  <2> DEFINE e == [asks[c] EXCEPT !.phase = o]
  <2>2. /\ e \in Shell!Approvals!Call /\ e.device = asks[c].device /\ e.phase = o
        /\ e.answer = asks[c].answer
    <3>1. /\ asks[c] \in Shell!Approvals!Call
          /\ o \in {"held", "allowed", "turned down", "ran", "refused"}
      BY <1>c
    <3> QED
      BY <3>1, PhaseMoved
  <2>3. asks' = [asks EXCEPT ![c] = e]
    BY <2>1
  <2>4. c \in waiting => e.answer = "none" /\ e.phase = "turned down"
    BY <1>0, <2>1, <2>2 DEF AnswersAreFirst
  <2> HIDE DEF e
  <2> QED
    <3>1. c \in waiting' => c \in waiting
      BY <2>1
    <3>2. e.phase \in {"allowed", "ran"} => e.answer = "allow"
      BY <2>1, <2>2
    <3>3. CallMoves(c, e)
      BY <2>1, <2>2, <2>3, <2>4, <3>1, <3>2 DEF CallMoves
    <3>4. busy' \in BOOLEAN
      BY <1>0, <2>1
    <3> QED
      BY <2>2, <3>3, <3>4, CallChanges
<1>2. ASSUME NEW c \in 1 .. Len(asks), Shell!Approvals!Returns(c) PROVE ApprovalsInv'
  <2> DEFINE o == IF asks[c].phase = "allowed" THEN "ran" ELSE "refused"
             e == [asks[c] EXCEPT !.phase = o]
  <2>1. /\ asks' = [asks EXCEPT ![c] = e] /\ waiting' = waiting \ {c}
        /\ Shell!Approvals!Refresh
        /\ UNCHANGED <<prompts, reads, clicks, busy, stale>>
    BY <1>2 DEF Shell!Approvals!Returns
  <2>2. /\ e \in Shell!Approvals!Call /\ e.device = asks[c].device /\ e.phase = o
        /\ e.answer = asks[c].answer
    <3>1. /\ asks[c] \in Shell!Approvals!Call
          /\ o \in {"held", "allowed", "turned down", "ran", "refused"}
      BY <1>c
    <3> QED
      BY <3>1, PhaseMoved
  <2>3. e.phase \in {"allowed", "ran"} => e.answer = "allow"
    <3>1. asks[c].phase \in {"allowed", "ran"} => asks[c].answer = "allow"
      BY <1>0 DEF AnswersAreFirst
    <3> HIDE DEF e
    <3> QED
      BY <2>2, <3>1
  <2>4. c \notin waiting' /\ busy' \in BOOLEAN /\ clicks' \subseteq clicks
    BY <1>0, <2>1
  <2> HIDE DEF e
  <2> QED
    BY <2>1, <2>2, <2>3, <2>4, CallChanges DEF CallMoves
<1>3. ASSUME NEW a \in {"allow", "deny"}, Shell!Approvals!Click(a) PROVE ApprovalsInv'
  <2>1. Shell!Approvals!Min(prompts) \in 1 .. Len(asks)
    <3>1. prompts \subseteq 1 .. Len(asks) /\ prompts # {}
      BY <1>0, <1>3 DEF ApprovalTypes, Shell!Approvals!Click
    <3>2. prompts \subseteq Nat
      BY <1>0, <3>1
    <3>3. \E x \in prompts : \A y \in prompts : x <= y
      BY <3>1, <3>2, LeastNumber
    <3> QED
      BY <3>1, <3>3 DEF Shell!Approvals!Min
  <2>2. /\ clicks' = clicks \cup {[call |-> Shell!Approvals!Min(prompts), answer |-> a]}
        /\ UNCHANGED <<asks, waiting, prompts, refreshes, reads, stale>>
    BY <1>3 DEF Shell!Approvals!Click
  <2>3. busy' \in BOOLEAN
    BY <1>3 DEF Shell!Approvals!Click
  <2>4. ApprovalTypes'
    BY <1>0, <2>1, <2>2 DEF ApprovalTypes
  <2>5. Shell!Approvals!ListIsBounded' /\ IsFiniteSet(waiting')
    BY <2>2, ListShrinks
  <2>6. AnswersAreFirst' /\ NewestIsList'
    BY <1>0, <2>2 DEF AnswersAreFirst, NewestIsList
  <2> QED
    BY <1>0, <2>2, <2>3, <2>4, <2>5, <2>6, ApprovalTypesSuffice DEF ApprovalsInv, ApprovalTypes
<1>4. ASSUME NEW k \in clicks, Shell!Approvals!Answer(k) PROVE ApprovalsInv'
  <2>0. k.call \in 1 .. Len(asks) /\ k.answer \in {"allow", "deny", "none"}
    BY <1>0 DEF ApprovalTypes
  <2>1. CASE k.call \in waiting
    <3> DEFINE c == k.call
               e == [asks[c] EXCEPT !.answer = k.answer]
    <3>1. /\ asks' = [asks EXCEPT ![c] = e] /\ waiting' = waiting \ {c}
          /\ Shell!Approvals!Refresh /\ busy' = busy
          /\ UNCHANGED <<prompts, reads, stale>> /\ clicks' \subseteq clicks
      BY <1>4, <2>1 DEF Shell!Approvals!Answer
    <3>2. /\ e \in Shell!Approvals!Call /\ e.device = asks[c].device
          /\ e.phase = asks[c].phase /\ e.answer = k.answer
      BY <1>c, <2>0, AnswerGiven
    <3>3. e.phase \notin {"allowed", "ran"}
      BY <1>0, <2>1, <3>2 DEF AnswersAreFirst
    <3>4. c \notin waiting' /\ busy' \in BOOLEAN
      BY <1>0, <3>1
    <3> HIDE DEF e
    <3> QED
      BY <2>0, <3>1, <3>2, <3>3, <3>4, CallChanges DEF CallMoves
  <2>2. CASE k.call \notin waiting
    <3>1. /\ clicks' \subseteq clicks
          /\ UNCHANGED <<asks, waiting, prompts, refreshes, reads, stale>>
      BY <1>4, <2>2 DEF Shell!Approvals!Answer
    <3>2. busy' \in BOOLEAN
      BY <1>4, <2>2 DEF Shell!Approvals!Answer
    <3>3. ApprovalTypes'
      BY <1>0, <3>1 DEF ApprovalTypes
    <3>4. Shell!Approvals!ListIsBounded' /\ IsFiniteSet(waiting')
      BY <3>1, ListShrinks
    <3>5. AnswersAreFirst' /\ NewestIsList'
      BY <1>0, <3>1 DEF AnswersAreFirst, NewestIsList
    <3> QED
      BY <1>0, <3>1, <3>2, <3>3, <3>4, <3>5, ApprovalTypesSuffice DEF ApprovalsInv, ApprovalTypes
  <2> QED
    BY <2>1, <2>2
<1>5. CASE Shell!Approvals!Read
  <2> DEFINE R == [calls : SUBSET Nat, overtaken : BOOLEAN]
             e == [calls |-> waiting, overtaken |-> FALSE]
  <2>1. /\ refreshes > 0 /\ refreshes' = refreshes - 1
        /\ reads' = Append(reads, e)
        /\ UNCHANGED <<asks, waiting, prompts, clicks, busy, stale>>
    BY <1>5 DEF Shell!Approvals!Read
  <2>2. e \in R /\ e.calls = waiting /\ e.overtaken = FALSE /\ waiting \subseteq 1 .. Len(asks)
    BY <1>0 DEF ApprovalTypes
  <2> HIDE DEF e
  <2>3. PICK n \in Nat : n = Len(reads)
    BY <1>0
  <2>4. /\ reads' \in Seq(R) /\ Len(reads') = n + 1 /\ reads'[n + 1] = e
        /\ \A j \in 1 .. n : reads'[j] = reads[j]
    BY <1>0, <2>1, <2>2, <2>3, AppendProperties DEF ApprovalTypes
  <2>5. \A j \in 1 .. n + 1 : j \in 1 .. n \/ j = n + 1
    OBVIOUS
  <2>6. \A j \in 1 .. Len(reads') : reads'[j].calls \subseteq 1 .. Len(asks)
    BY <1>0, <2>2, <2>3, <2>4, <2>5 DEF ApprovalTypes
  <2>7. refreshes' \in Nat /\ refreshes' + Len(reads') <= MaxRefreshes
    BY <1>0, <2>1, <2>3, <2>4 DEF ApprovalTypes
  <2>8. ApprovalTypes'
    BY <1>0, <2>1, <2>4, <2>6, <2>7 DEF ApprovalTypes
  <2>9. NewestIsList'
    BY <2>1, <2>2, <2>4 DEF NewestIsList
  <2>10. Shell!Approvals!ListIsBounded' /\ IsFiniteSet(waiting')
    BY <2>1, ListShrinks
  <2>11. AnswersAreFirst'
    BY <1>0, <2>1 DEF AnswersAreFirst
  <2> QED
    BY <1>0, <2>1, <2>8, <2>9, <2>10, <2>11, ApprovalTypesSuffice
    DEF ApprovalsInv, ApprovalTypes
<1>6. CASE UNCHANGED Shell!approvalVars
  <2>1. UNCHANGED <<asks, waiting, prompts, refreshes, reads, clicks, busy, stale>>
    BY <1>6 DEF Shell!approvalVars
  <2>2. Shell!Approvals!ListIsBounded' /\ IsFiniteSet(waiting')
    BY <2>1, ListShrinks
  <2>3. ApprovalTypes' /\ AnswersAreFirst' /\ NewestIsList'
    BY <1>0, <2>1 DEF ApprovalTypes, AnswersAreFirst, NewestIsList
  <2> QED
    BY <1>0, <2>1, <2>2, <2>3, ApprovalTypesSuffice DEF ApprovalsInv, ApprovalTypes
<1> QED
  BY <1>0, <1>1, <1>2, <1>3, <1>4, <1>5, <1>6, ApprovalsAsk, ApprovalsLand
  DEF Shell!Approvals!ApprovalsNext

-----------------------------------------------------------------------------
(****************************************************************************)
(* The rows of running work (useProcessesStore), behind their events.       *)
(****************************************************************************)
\* The events of job j behind place i of the queue only tell of its progress.
OnlyProgress(j, i) ==
  \A k \in 1 .. Len(events) : k > i /\ events[k].job = j => events[k].what = "progress"

\* The start of j is in, and no end of it on its way; or it is on its way and
\* the last word.
StartedLast(j) ==
  \/ rows[j] = "running" /\ OnlyProgress(j, 0)
  \/ \E i \in 1 .. Len(events) : events[i] = [what |-> "started", job |-> j] /\ OnlyProgress(j, i)

\* The end of j is in and nothing of it on its way, or it is and is the last.
EndedLast(j) ==
  \/ rows[j] # "running" /\ \A k \in 1 .. Len(events) : events[k].job # j
  \/ \E i \in 1 .. Len(events) :
       /\ events[i].job = j /\ events[i].what \in {"done", "failed"}
       /\ \A k \in 1 .. Len(events) : k > i => events[k].job # j

RowsInv ==
  /\ Shell!Work!RowsTypeOK
  /\ \A j \in Announced \cap running : StartedLast(j)
  /\ \A j \in (Announced \cup Unannounced) \ running : EndedLast(j)
  /\ \A j \in Announced \cup Unannounced : rows[j] = "done" => timers[j] > 0

\* Nothing runs, and no row is shown.
LEMMA RowsStart == Shell!Work!RowsInit => RowsInv
<1> SUFFICES ASSUME Shell!Work!RowsInit PROVE RowsInv
  OBVIOUS
<1>1. /\ MaxEvents \in Nat /\ MaxTimers \in Nat
      /\ running = {} /\ events = <<>> /\ Len(events) = 0
      /\ rows = [j \in Announced \cup Unannounced |-> "none"]
      /\ timers = [j \in Announced \cup Unannounced |-> 0]
  BY RowsAssumption DEF Shell!Work!RowsInit, Shell!Work!Jobs
<1>2. \A j \in Announced \cup Unannounced : EndedLast(j)
  BY <1>1 DEF EndedLast
<1> QED
  BY <1>1, <1>2 DEF RowsInv, Shell!Work!RowsTypeOK, Shell!Work!Jobs

\* A row is its job's once the events have come (useProcessesStore).
LEMMA RowsPromise == RowsInv => Shell!Work!RowsTypeOK /\ Shell!Work!RowsFollowJobs
<1> SUFFICES ASSUME RowsInv, events = <<>>
             PROVE  /\ \A j \in Announced : j \in running => rows[j] = "running"
                    /\ \A j \in (Announced \cup Unannounced) \ running : rows[j] # "running"
  BY DEF RowsInv, Shell!Work!RowsFollowJobs, Shell!Work!Jobs
<1>1. Len(events) = 0
  OBVIOUS
<1> QED
  BY <1>1 DEF RowsInv, StartedLast, EndedLast

\* An event more, which says no more than it may of its job.
LEMMA RowsEmit ==
  ASSUME RowsInv, UNCHANGED <<rows, timers>>,
         NEW what, NEW job \in Announced \cup Unannounced,
         events' = Append(events, [what |-> what, job |-> job]),
         \/ what = "started" /\ running' = running \cup {job} /\ job \notin running
         \/ what = "progress" /\ running' = running /\ job \in running
         \/ what \in {"done", "failed"} /\ running' = running \ {job} /\ job \in running
  PROVE  /\ \A j \in Announced \cap running' : StartedLast(j)'
         /\ \A j \in (Announced \cup Unannounced) \ running' : EndedLast(j)'
<1> DEFINE Es == [what : {"started", "progress", "done", "failed"},
                  job : Announced \cup Unannounced]
           e == [what |-> what, job |-> job]
           n == Len(events)
<1>1. events \in Seq(Es) /\ n \in Nat /\ e \in Es
  BY LenProperties DEF RowsInv, Shell!Work!RowsTypeOK, Shell!Work!Event, Shell!Work!Jobs
<1>2. /\ Len(events') = n + 1 /\ events'[n + 1] = e
      /\ \A k \in 1 .. n : events'[k] = events[k]
  BY <1>1, AppendProperties
<1>3. \A k \in 1 .. n + 1 : k \in 1 .. n \/ k = n + 1
  BY <1>1
<1>4. ASSUME NEW j \in Announced \cap running'
      PROVE  StartedLast(j)'
  <2>1. CASE what = "started" /\ j = job
    <3>1. events'[n + 1] = [what |-> "started", job |-> j]
      BY <1>2, <2>1
    <3>2. \A k \in 1 .. Len(events') : ~ (k > n + 1)
      BY <1>1, <1>2
    <3>3. n + 1 \in 1 .. Len(events')
      BY <1>1, <1>2
    <3> QED
      BY <3>1, <3>2, <3>3 DEF StartedLast, OnlyProgress
  <2>2. CASE ~ (what = "started" /\ j = job)
    <3>1. j \in running /\ (job = j => what = "progress")
      BY <1>4, <2>2
    <3>2. StartedLast(j)
      BY <3>1 DEF RowsInv
    <3>3. CASE rows[j] = "running" /\ OnlyProgress(j, 0)
      BY <1>1, <1>2, <1>3, <3>1, <3>3 DEF StartedLast, OnlyProgress
    <3>4. CASE \E i \in 1 .. Len(events) :
                 events[i] = [what |-> "started", job |-> j] /\ OnlyProgress(j, i)
      <4>1. PICK i \in 1 .. n :
              events[i] = [what |-> "started", job |-> j] /\ OnlyProgress(j, i)
        BY <3>4
      <4>2. OnlyProgress(j, i)'
        BY <1>1, <1>2, <1>3, <3>1, <4>1 DEF OnlyProgress
      <4>3. i \in 1 .. Len(events') /\ events'[i] = [what |-> "started", job |-> j]
        BY <1>1, <1>2, <4>1
      <4> QED
        BY <4>2, <4>3 DEF StartedLast
    <3> QED
      BY <3>2, <3>3, <3>4 DEF StartedLast
  <2> QED
    BY <2>1, <2>2
<1>5. ASSUME NEW j \in (Announced \cup Unannounced) \ running'
      PROVE  EndedLast(j)'
  <2>1. CASE j = job
    <3>1. what \in {"done", "failed"}
      BY <1>5, <2>1
    <3>2. /\ n + 1 \in 1 .. Len(events')
          /\ \A k \in 1 .. Len(events') : ~ (k > n + 1)
      BY <1>1, <1>2
    <3> QED
      BY <1>2, <2>1, <3>1, <3>2 DEF EndedLast
  <2>2. CASE j # job
    <3>1. EndedLast(j)
      BY <1>5, <2>2 DEF RowsInv
    <3>2. CASE rows[j] # "running" /\ \A k \in 1 .. Len(events) : events[k].job # j
      BY <1>2, <1>3, <2>2, <3>2 DEF EndedLast
    <3>3. CASE \E i \in 1 .. Len(events) :
                 /\ events[i].job = j /\ events[i].what \in {"done", "failed"}
                 /\ \A k \in 1 .. Len(events) : k > i => events[k].job # j
      <4>1. PICK i \in 1 .. n :
              /\ events[i].job = j /\ events[i].what \in {"done", "failed"}
              /\ \A k \in 1 .. n : k > i => events[k].job # j
        BY <3>3
      <4>2. i \in 1 .. Len(events') /\ events'[i] = events[i]
        BY <1>1, <1>2, <4>1
      <4>3. \A k \in 1 .. Len(events') : k > i => events'[k].job # j
        BY <1>2, <1>3, <2>2, <4>1
      <4> QED
        BY <4>1, <4>2, <4>3 DEF EndedLast
    <3> QED
      BY <3>1, <3>2, <3>3 DEF EndedLast
  <2> QED
    BY <2>1, <2>2
<1> QED
  BY <1>4, <1>5

\* The oldest event is taken off the queue and changes the row of its job.
LEMMA RowsDeliver == RowsInv /\ Shell!Work!Deliver => RowsInv'
<1> SUFFICES ASSUME RowsInv, Shell!Work!Deliver PROVE RowsInv'
  OBVIOUS
<1> DEFINE Jobs == Announced \cup Unannounced
           Es == [what : {"started", "progress", "done", "failed"}, job : Jobs]
           e == Head(events)
           n == Len(events)
           Row == {"none", "running", "done", "failed"}
<1>1. /\ events \in Seq(Es) /\ n \in Nat /\ n >= 1 /\ n <= MaxEvents /\ events # <<>>
      /\ rows \in [Jobs -> Row] /\ timers \in [Jobs -> 0 .. MaxTimers]
      /\ running \subseteq Jobs /\ running' = running
      /\ e \in Es /\ e = events[1]
      /\ rows' = [rows EXCEPT ![e.job] = Shell!Work!RowAfter(e)]
      /\ events' = Tail(events) /\ MaxEvents \in Nat
  <2>1. /\ events \in Seq(Es) /\ n <= MaxEvents
        /\ rows \in [Jobs -> Row] /\ timers \in [Jobs -> 0 .. MaxTimers]
        /\ running \subseteq Jobs
    BY DEF RowsInv, Shell!Work!RowsTypeOK, Shell!Work!Event, Shell!Work!Jobs
  <2>2. /\ events # <<>> /\ running' = running /\ events' = Tail(events)
        /\ rows' = [rows EXCEPT ![e.job] = Shell!Work!RowAfter(e)]
    BY DEF Shell!Work!Deliver
  <2>3. n \in Nat /\ n >= 1 /\ e \in Es /\ e = events[1]
    <3>1. n \in Nat \ {0}
      BY <2>1, <2>2, EmptySeq
    <3>2. e \in Es
      BY <2>1, <2>2, HeadTailProperties
    <3> QED
      BY <2>1, <2>2, <3>1, <3>2
  <2>4. MaxEvents \in Nat
    BY RowsAssumption
  <2> QED
    BY <2>1, <2>2, <2>3, <2>4
<1>2. /\ Tail(events) \in Seq(Es) /\ Len(Tail(events)) = n - 1
      /\ \A k \in 1 .. n - 1 : Tail(events)[k] = events[k + 1]
  BY <1>1, HeadTailProperties
<1>3. /\ e.what \in {"started", "progress", "done", "failed"} /\ e.job \in Jobs
  BY <1>1
<1>4. timers' = IF e.what = "done" THEN [timers EXCEPT ![e.job] = @ + 1] ELSE timers
  BY DEF Shell!Work!Deliver
<1>5. e.what = "done" => timers[e.job] < MaxTimers
  BY DEF Shell!Work!Deliver
<1> HIDE DEF e
<1>6. /\ e.what = "started" => rows'[e.job] = "running"
      /\ e.what = "progress" => rows'[e.job] \in {rows[e.job], "running"}
      /\ e.what = "progress" /\ rows[e.job] # "none" => rows'[e.job] = rows[e.job]
      /\ e.what \in {"done", "failed"} =>
           rows'[e.job] = IF rows[e.job] = "none" THEN "none" ELSE e.what
  <2>1. rows'[e.job] = Shell!Work!RowAfter(e)
    BY <1>1, <1>3
  <2> QED
    BY <1>3, <2>1 DEF Shell!Work!RowAfter
<1>7. \A j \in Jobs : j # e.job => rows'[j] = rows[j] /\ timers'[j] = timers[j]
  BY <1>1, <1>3, <1>4
<1>8. rows' \in [Jobs -> Row]
  <2>1. Shell!Work!RowAfter(e) \in Row
    BY <1>1, <1>3 DEF Shell!Work!RowAfter
  <2> QED
    BY <1>1, <2>1
<1>9. timers' \in [Jobs -> 0 .. MaxTimers]
  <2>1. MaxTimers \in Nat
    BY RowsAssumption
  <2>2. e.what = "done" => timers[e.job] + 1 \in 0 .. MaxTimers
    BY <1>1, <1>3, <1>5, <2>1
  <2> QED
    BY <1>1, <1>4, <2>2
<1>10. \A j \in Jobs : rows'[j] = "done" => timers'[j] > 0
  <2> SUFFICES ASSUME NEW j \in Jobs, rows'[j] = "done" PROVE timers'[j] > 0
    OBVIOUS
  <2>0. rows[j] = "done" => timers[j] > 0
    BY DEF RowsInv
  <2>1. CASE j # e.job
    BY <1>7, <2>0, <2>1
  <2>2. CASE j = e.job /\ e.what = "done"
    BY <1>1, <1>4, <2>2
  <2>3. CASE j = e.job /\ e.what # "done"
    BY <1>3, <1>4, <1>6, <2>0, <2>3
  <2> QED
    BY <2>1, <2>2, <2>3
<1>11. ASSUME NEW j \in Announced \cap running PROVE StartedLast(j)'
  <2>0. j \in Jobs /\ StartedLast(j)
    BY <1>11 DEF RowsInv
  <2>1. CASE rows[j] = "running" /\ OnlyProgress(j, 0)
    <3>1. OnlyProgress(j, 0)'
      BY <1>1, <1>2, <2>1 DEF OnlyProgress
    <3>2. e.job = j => e.what = "progress"
      BY <1>1, <2>1 DEF OnlyProgress
    <3>3. rows'[j] = "running"
      BY <1>6, <1>7, <2>0, <2>1, <3>2
    <3> QED
      BY <3>1, <3>3 DEF StartedLast
  <2>2. CASE \E i \in 1 .. n : events[i] = [what |-> "started", job |-> j] /\ OnlyProgress(j, i)
    <3>1. PICK i \in 1 .. n : events[i] = [what |-> "started", job |-> j] /\ OnlyProgress(j, i)
      BY <2>2
    <3>2. CASE i = 1
      <4>1. rows'[j] = "running"
        BY <1>1, <1>6, <3>1, <3>2
      <4>2. OnlyProgress(j, 0)'
        BY <1>1, <1>2, <3>1, <3>2 DEF OnlyProgress
      <4> QED
        BY <4>1, <4>2 DEF StartedLast
    <3>3. CASE i # 1
      <4>1. i - 1 \in 1 .. n - 1 /\ events'[i - 1] = [what |-> "started", job |-> j]
        BY <1>1, <1>2, <3>1, <3>3
      <4>2. OnlyProgress(j, i - 1)'
        BY <1>1, <1>2, <3>1, <3>3 DEF OnlyProgress
      <4> QED
        BY <1>1, <1>2, <4>1, <4>2 DEF StartedLast
    <3> QED
      BY <3>2, <3>3
  <2> QED
    BY <2>0, <2>1, <2>2 DEF StartedLast
<1>12. ASSUME NEW j \in Jobs \ running PROVE EndedLast(j)'
  <2>0. EndedLast(j)
    BY <1>12 DEF RowsInv
  <2>1. CASE rows[j] # "running" /\ \A k \in 1 .. n : events[k].job # j
    <3>1. e.job # j
      BY <1>1, <2>1
    <3>2. rows'[j] # "running"
      BY <1>7, <2>1, <3>1
    <3>3. \A k \in 1 .. Len(events') : events'[k].job # j
      BY <1>1, <1>2, <2>1
    <3> QED
      BY <3>2, <3>3 DEF EndedLast
  <2>2. CASE \E i \in 1 .. n :
               /\ events[i].job = j /\ events[i].what \in {"done", "failed"}
               /\ \A k \in 1 .. n : k > i => events[k].job # j
    <3>1. PICK i \in 1 .. n :
            /\ events[i].job = j /\ events[i].what \in {"done", "failed"}
            /\ \A k \in 1 .. n : k > i => events[k].job # j
      BY <2>2
    <3>2. CASE i = 1
      <4>1. rows'[j] # "running"
        BY <1>1, <1>6, <3>1, <3>2
      <4>2. \A k \in 1 .. Len(events') : events'[k].job # j
        BY <1>1, <1>2, <3>1, <3>2
      <4> QED
        BY <4>1, <4>2 DEF EndedLast
    <3>3. CASE i # 1
      <4>1. i - 1 \in 1 .. n - 1 /\ events'[i - 1] = events[i]
        BY <1>1, <1>2, <3>1, <3>3
      <4>2. \A k \in 1 .. Len(events') : k > i - 1 => events'[k].job # j
        BY <1>1, <1>2, <3>1, <3>3
      <4> QED
        BY <1>1, <1>2, <3>1, <4>1, <4>2 DEF EndedLast
    <3> QED
      BY <3>2, <3>3
  <2> QED
    BY <2>0, <2>1, <2>2 DEF EndedLast
<1>13. events' \in Seq(Es) /\ Len(events') <= MaxEvents
  BY <1>1, <1>2
<1> QED
  BY <1>1, <1>8, <1>9, <1>10, <1>11, <1>12, <1>13
  DEF RowsInv, Shell!Work!RowsTypeOK, Shell!Work!Event, Shell!Work!Jobs

\* No event, timer or end of a job breaks it.
LEMMA RowsStep == RowsInv /\ [Shell!Work!RowsNext]_(Shell!workVars) => RowsInv'
<1> SUFFICES ASSUME RowsInv, [Shell!Work!RowsNext]_(Shell!workVars) PROVE RowsInv'
  OBVIOUS
<1> DEFINE Jobs == Announced \cup Unannounced
           Es == [what : {"started", "progress", "done", "failed"}, job : Jobs]
           Row == {"none", "running", "done", "failed"}
<1>1. /\ events \in Seq(Es) /\ Len(events) \in Nat /\ Len(events) <= MaxEvents
      /\ rows \in [Jobs -> Row] /\ timers \in [Jobs -> 0 .. MaxTimers]
      /\ running \subseteq Jobs /\ MaxEvents \in Nat /\ MaxTimers \in Nat
      /\ \A j \in Announced \cap running : StartedLast(j)
      /\ \A j \in Jobs \ running : EndedLast(j)
      /\ \A j \in Jobs : rows[j] = "done" => timers[j] > 0
  BY LenProperties, RowsAssumption
  DEF RowsInv, Shell!Work!RowsTypeOK, Shell!Work!Event, Shell!Work!Jobs
<1>2. ASSUME NEW what \in {"started", "progress", "done", "failed"}, NEW j \in Jobs,
             Shell!Work!Emit(what, j)
      PROVE  /\ events' = Append(events, [what |-> what, job |-> j])
             /\ events' \in Seq(Es) /\ Len(events') <= MaxEvents
  <2>1. /\ events' = Append(events, [what |-> what, job |-> j])
        /\ Len(events) < MaxEvents
    BY <1>2 DEF Shell!Work!Emit
  <2>2. [what |-> what, job |-> j] \in Es
    OBVIOUS
  <2> QED
    BY <1>1, <2>1, <2>2, AppendProperties
<1>3. ASSUME UNCHANGED <<rows, timers>>, running' \subseteq Jobs,
             events' \in Seq(Es), Len(events') <= MaxEvents,
             \A j \in Announced \cap running' : StartedLast(j)',
             \A j \in Jobs \ running' : EndedLast(j)'
      PROVE  RowsInv'
  BY <1>1, <1>3 DEF RowsInv, Shell!Work!RowsTypeOK, Shell!Work!Event, Shell!Work!Jobs
<1>4. ASSUME NEW j \in Jobs, Shell!Work!Start(j) PROVE RowsInv'
  <2>1. running' = running \cup {j} /\ j \notin running /\ UNCHANGED <<rows, timers>>
    BY <1>4 DEF Shell!Work!Start
  <2>2. CASE j \in Announced
    <3>1. Shell!Work!Emit("started", j)
      BY <1>4, <2>2 DEF Shell!Work!Start
    <3> QED
      BY <1>1, <1>2, <1>3, <2>1, <3>1, RowsEmit
  <2>3. CASE j \notin Announced
    <3>1. UNCHANGED events
      BY <1>4, <2>3 DEF Shell!Work!Start
    <3>2. \A k \in Announced \cap running' : StartedLast(k)'
      BY <1>1, <2>1, <2>3, <3>1 DEF StartedLast, OnlyProgress
    <3>3. \A k \in Jobs \ running' : EndedLast(k)'
      BY <1>1, <2>1, <3>1 DEF EndedLast
    <3> QED
      BY <1>1, <1>3, <2>1, <3>1, <3>2, <3>3
  <2> QED
    BY <2>2, <2>3
<1>5. ASSUME NEW j \in Jobs, Shell!Work!Progress(j) PROVE RowsInv'
  <2>1. running' = running /\ j \in running /\ UNCHANGED <<rows, timers>>
        /\ Shell!Work!Emit("progress", j)
    BY <1>5 DEF Shell!Work!Progress
  <2> QED
    BY <1>1, <1>2, <1>3, <2>1, RowsEmit
<1>6. ASSUME NEW j \in Jobs, Shell!Work!End(j) PROVE RowsInv'
  <2>1. running' = running \ {j} /\ j \in running /\ UNCHANGED <<rows, timers>>
    BY <1>6 DEF Shell!Work!End
  <2>2. PICK what \in {"done", "failed"} : Shell!Work!Emit(what, j)
    BY <1>6 DEF Shell!Work!End
  <2> QED
    BY <1>1, <1>2, <1>3, <2>1, <2>2, RowsEmit
<1>7. ASSUME NEW j \in Jobs, UNCHANGED <<running, events>>,
             rows' = [rows EXCEPT ![j] = IF @ \in {"done", "failed"} THEN "none" ELSE @]
                \/ rows' = [rows EXCEPT ![j] = IF @ = "done" THEN "none" ELSE @],
             timers' \in [Jobs -> 0 .. MaxTimers],
             \A k \in Jobs : rows'[k] = "done" => timers'[k] > 0
      PROVE  RowsInv'
  <2>1. rows' \in [Jobs -> Row]
        /\ \A k \in Jobs : rows'[k] = "running" <=> rows[k] = "running"
    BY <1>1, <1>7
  <2>0. running' = running /\ events' = events
    BY <1>7
  <2>2. ASSUME NEW k \in Announced \cap running' PROVE StartedLast(k)'
    <3>1. StartedLast(k) /\ (rows'[k] = "running" <=> rows[k] = "running")
      BY <1>1, <2>0, <2>1
    <3> QED
      BY <2>0, <3>1 DEF StartedLast, OnlyProgress
  <2>3. ASSUME NEW k \in Jobs \ running' PROVE EndedLast(k)'
    <3>1. EndedLast(k) /\ (rows'[k] = "running" <=> rows[k] = "running")
      BY <1>1, <2>0, <2>1
    <3> QED
      BY <2>0, <3>1 DEF EndedLast
  <2> QED
    BY <1>1, <1>7, <2>1, <2>2, <2>3
    DEF RowsInv, Shell!Work!RowsTypeOK, Shell!Work!Event, Shell!Work!Jobs
<1>8. ASSUME NEW j \in Jobs, Shell!Work!TimerFires(j) PROVE RowsInv'
  <2>1. /\ timers[j] > 0 /\ timers' = [timers EXCEPT ![j] = @ - 1]
        /\ rows' = [rows EXCEPT ![j] = IF @ = "done" THEN "none" ELSE @]
        /\ UNCHANGED <<running, events>>
    BY <1>8 DEF Shell!Work!TimerFires
  <2>2. timers' \in [Jobs -> 0 .. MaxTimers]
    BY <1>1, <2>1
  <2>3. \A k \in Jobs : rows'[k] = "done" => timers'[k] > 0
    BY <1>1, <2>1
  <2> QED
    BY <1>7, <2>1, <2>2, <2>3
<1>9. ASSUME NEW j \in Jobs, Shell!Work!Dismiss(j) PROVE RowsInv'
  <2>1. /\ rows[j] = "failed" /\ rows' = [rows EXCEPT ![j] = "none"]
        /\ UNCHANGED <<running, events, timers>>
    BY <1>9 DEF Shell!Work!Dismiss
  <2>2. rows' = [rows EXCEPT ![j] = IF @ \in {"done", "failed"} THEN "none" ELSE @]
    BY <1>1, <2>1
  <2>3. \A k \in Jobs : rows'[k] = "done" => timers'[k] > 0
    BY <1>1, <2>1
  <2> QED
    BY <1>1, <1>7, <2>1, <2>2, <2>3
<1>10. CASE UNCHANGED Shell!workVars
  BY <1>10 DEF Shell!workVars, RowsInv, Shell!Work!RowsTypeOK, StartedLast, EndedLast, OnlyProgress
<1> QED
  BY <1>4, <1>5, <1>6, <1>8, <1>9, <1>10, RowsDeliver DEF Shell!Work!RowsNext, Shell!Work!Jobs

-----------------------------------------------------------------------------
(****************************************************************************)
(* The logs of an install and of an update (App.tsx), behind their lines.   *)
(****************************************************************************)
\* Event m of the queue changes the dialog's phase.
Turns(m) == output[m].job = "update" /\ output[m].what # "line"

\* The dialog's phase will be "running" when event i is delivered.
RunsAt(i) ==
  \/ updatePhase = "running" /\ \A m \in 1 .. Len(output) : m < i => ~ Turns(m)
  \/ \E k \in 1 .. Len(output) :
       /\ k < i /\ output[k].job = "update" /\ output[k].what = "started"
       /\ \A m \in 1 .. Len(output) : k < m /\ m < i => ~ Turns(m)

\* The dialog's phase will be what the update is once all events are in.
UpdateIsTold == update <=> RunsAt(Len(output) + 1)

\* The modal waits for an install under way or for an outcome on its way.
InstallIsTold ==
  installPhase = "running" =>
    \/ Shell!Work!Installing
    \/ \E i \in 1 .. Len(output) :
         output[i].job = "install" /\ output[i].what \in {"done", "failed"}

\* Each line is delivered while the dialog's phase tells whose it is.
LinesAreTold ==
  \A i \in 1 .. Len(output) :
    output[i].what = "line" => (output[i].job = "update" <=> RunsAt(i))

LogsInv ==
  /\ Shell!Work!LogsTypeOK
  /\ UpdateIsTold /\ InstallIsTold
  /\ holder = "update" => update
  /\ ~ overlapped =>
       /\ ~ (update /\ Shell!Work!Installing)
       /\ Shell!Work!LinesReachTheirLog
       /\ LinesAreTold

Lines == [what : {"started", "line", "done", "failed"}, job : {"install", "update"}]

\* With no event to come the phase is as it will be.
LEMMA RunsAtEmptied == ASSUME Len(output) = 0 PROVE RunsAt(1) <=> updatePhase = "running"
BY DEF RunsAt

\* An event that is emitted changes what holds behind it only.
LEMMA RunsAtAppended ==
  ASSUME output \in Seq(Lines), NEW e \in Lines, output' = Append(output, e),
         updatePhase' = updatePhase
  PROVE  /\ output' \in Seq(Lines) /\ Len(output') = Len(output) + 1 /\ Len(output) \in Nat
         /\ \A i \in 1 .. Len(output) : output'[i] = output[i]
         /\ output'[Len(output) + 1] = e
         /\ \A i \in 1 .. Len(output) + 1 : RunsAt(i)' <=> RunsAt(i)
         /\ RunsAt(Len(output) + 1)' <=>
              IF e.job = "update" /\ e.what # "line" THEN e.what = "started"
              ELSE RunsAt(Len(output) + 1)
<1>0. PICK n \in Nat : n = Len(output)
  BY LenProperties
<1>1. /\ output' \in Seq(Lines) /\ Len(output') = n + 1
      /\ \A i \in 1 .. n : output'[i] = output[i]
      /\ output'[n + 1] = e
  BY <1>0, AppendProperties
<1>2. \A i \in 1 .. n + 1 : i \in 1 .. n \/ i = n + 1
  BY <1>1
<1>3. ASSUME NEW i \in 1 .. n + 1 PROVE RunsAt(i)' <=> RunsAt(i)
  BY <1>0, <1>1, <1>2 DEF RunsAt, Turns
<1>4. CASE e.job = "update" /\ e.what # "line"
  <2>1. output'[n + 1].job = "update" /\ output'[n + 1].what # "line"
    BY <1>1, <1>4
  <2>2. n + 1 \in 1 .. Len(output') /\ n + 1 < n + 2 /\ \A k \in 1 .. n : k < n + 1
    BY <1>1
  <2>3. e.what = "started" => RunsAt(n + 2)'
    <3> SUFFICES ASSUME e.what = "started" PROVE RunsAt(n + 2)'
      OBVIOUS
    <3>1. \A m \in 1 .. Len(output') : ~ (n + 1 < m /\ m < n + 2)
      BY <1>1
    <3> QED
      BY <1>1, <1>4, <2>2, <3>1 DEF RunsAt
  <2>4. RunsAt(n + 2)' => e.what = "started"
    BY <1>1, <1>2, <2>1, <2>2 DEF RunsAt, Turns
  <2>5. RunsAt(n + 2)' <=> e.what = "started"
    BY <2>3, <2>4
  <2> QED
    BY <1>0, <1>1, <1>3, <1>4, <2>5
<1>5. CASE ~ (e.job = "update" /\ e.what # "line")
  <2>1. ~ (output'[n + 1].job = "update" /\ output'[n + 1].what # "line")
    BY <1>1, <1>5
  <2>2. RunsAt(n + 2)' <=> RunsAt(n + 1)
    BY <1>0, <1>1, <1>2, <2>1 DEF RunsAt, Turns
  <2> QED
    BY <1>0, <1>1, <1>3, <1>5, <2>2
<1> QED
  BY <1>4, <1>5

\* An event that is delivered has moved what holds one place nearer.
LEMMA RunsAtDelivered ==
  ASSUME output \in Seq(Lines), output # <<>>, output' = Tail(output),
         updatePhase' = IF Turns(1)
                        THEN IF output[1].what = "started" THEN "running" ELSE output[1].what
                        ELSE updatePhase
  PROVE  /\ output' \in Seq(Lines) /\ Len(output') = Len(output) - 1
         /\ Len(output) \in Nat /\ Len(output) >= 1
         /\ Head(output) = output[1] /\ output[1] \in Lines
         /\ \A i \in 1 .. Len(output) - 1 : output'[i] = output[i + 1]
         /\ \A i \in 1 .. Len(output) : RunsAt(i)' <=> RunsAt(i + 1)
<1>0. PICK n \in Nat : n = Len(output)
  BY LenProperties
<1>1. /\ output' \in Seq(Lines) /\ Len(output') = n - 1
      /\ \A i \in 1 .. n - 1 : output'[i] = output[i + 1]
  BY <1>0, HeadTailProperties
<1>2. n \in Nat \ {0}
  BY <1>0, EmptySeq
<1>3. Head(output) = output[1] /\ output[1] \in Lines
  BY <1>0, <1>2, ElementOfSeq
<1>4. \A m \in 1 .. n - 1 : Turns(m)' <=> Turns(m + 1)
  BY <1>1 DEF Turns
<1>5. ASSUME NEW i \in 1 .. n PROVE RunsAt(i)' <=> RunsAt(i + 1)
  <2>1. \A m \in 1 .. n : m = 1 \/ (m - 1 \in 1 .. n - 1 /\ m = (m - 1) + 1)
    BY <1>2
  <2>2. \A m \in 1 .. n - 1 : m + 1 \in 1 .. n /\ m + 1 # 1
    BY <1>2
  <2>3. ASSUME RunsAt(i)' PROVE RunsAt(i + 1)
    <3>1. CASE updatePhase' = "running" /\ \A m \in 1 .. n - 1 : m < i => ~ Turns(m)'
      <4>1. \A m \in 1 .. n : m # 1 /\ m < i + 1 => ~ Turns(m)
        BY <1>4, <2>1, <3>1
      <4>2. CASE Turns(1)
        <5>1. output[1].job = "update" /\ output[1].what = "started"
          BY <1>3, <3>1, <4>2 DEF Turns, Lines
        <5> QED
          BY <1>0, <1>2, <4>1, <5>1 DEF RunsAt
      <4>3. CASE ~ Turns(1)
        BY <1>0, <3>1, <4>1, <4>3 DEF RunsAt
      <4> QED
        BY <4>2, <4>3
    <3>2. ASSUME NEW k \in 1 .. n - 1, k < i,
                 output'[k].job = "update", output'[k].what = "started",
                 \A m \in 1 .. n - 1 : k < m /\ m < i => ~ Turns(m)'
          PROVE  RunsAt(i + 1)
      <4>1. /\ k + 1 \in 1 .. n /\ k + 1 < i + 1
            /\ output[k + 1].job = "update" /\ output[k + 1].what = "started"
        BY <1>1, <2>2, <3>2
      <4>2. \A m \in 1 .. n : k + 1 < m /\ m < i + 1 => ~ Turns(m)
        BY SMTT(30), <1>4, <2>1, <3>2
      <4> QED
        BY <1>0, <4>1, <4>2 DEF RunsAt
    <3> QED
      BY <1>0, <1>1, <2>3, <3>1, <3>2 DEF RunsAt
  <2>4. ASSUME RunsAt(i + 1) PROVE RunsAt(i)'
    <3>1. CASE updatePhase = "running" /\ \A m \in 1 .. n : m < i + 1 => ~ Turns(m)
      <4>1. ~ Turns(1)
        BY <1>2, <3>1
      <4>2. \A m \in 1 .. n - 1 : m < i => ~ Turns(m)'
        BY <1>4, <2>2, <3>1
      <4> QED
        BY <1>0, <1>1, <3>1, <4>1, <4>2 DEF RunsAt
    <3>2. ASSUME NEW k \in 1 .. n, k < i + 1,
                 output[k].job = "update", output[k].what = "started",
                 \A m \in 1 .. n : k < m /\ m < i + 1 => ~ Turns(m)
          PROVE  RunsAt(i)'
      <4>1. CASE k = 1
        <5>1. updatePhase' = "running"
          BY <3>2, <4>1 DEF Turns
        <5>2. \A m \in 1 .. n - 1 : m < i => ~ Turns(m)'
          BY <1>4, <2>2, <3>2, <4>1
        <5> QED
          BY <1>0, <1>1, <5>1, <5>2 DEF RunsAt
      <4>2. CASE k # 1
        <5>1. /\ k - 1 \in 1 .. n - 1 /\ k - 1 < i
              /\ output'[k - 1].job = "update" /\ output'[k - 1].what = "started"
          BY <1>1, <2>1, <3>2, <4>2
        <5>2. \A m \in 1 .. n - 1 : k - 1 < m /\ m < i => ~ Turns(m)'
          BY <1>4, <2>2, <3>2
        <5> QED
          BY <1>0, <1>1, <5>1, <5>2 DEF RunsAt
      <4> QED
        BY <4>1, <4>2
    <3> QED
      BY <1>0, <2>4, <3>1, <3>2 DEF RunsAt
  <2> QED
    BY <2>3, <2>4
<1> QED
  BY <1>0, <1>1, <1>2, <1>3, <1>5

\* What the variables may hold.
LogTypes ==
  /\ holder \in {"install", "update", "free"} /\ update \in BOOLEAN
  /\ ended \in {"no", "done", "failed"} /\ asking \in BOOLEAN /\ overlapped \in BOOLEAN
  /\ installPhase \in {"idle", "running", "done", "failed"}
  /\ updatePhase \in {"idle", "running", "done", "failed"}
  /\ installLog \subseteq {"install", "update"} /\ updateLog \subseteq {"install", "update"}

\* The types, by the names used here.
LEMMA LogTypesSuffice ==
  Shell!Work!LogsTypeOK <=> LogTypes /\ output \in Seq(Lines) /\ Len(output) <= MaxEvents
BY DEF LogTypes, Lines, Shell!Work!LogsTypeOK, Shell!Work!Installs, Shell!Work!Phases,
       Shell!Work!Whats

\* No installer runs, and both logs are empty.
LEMMA LogsStart == Shell!Work!LogsInit => LogsInv
<1> SUFFICES ASSUME Shell!Work!LogsInit PROVE LogsInv
  OBVIOUS
<1>1. /\ holder = "free" /\ ~ update /\ ended = "no" /\ output = <<>> /\ Len(output) = 0
      /\ ~ asking /\ installPhase = "idle" /\ updatePhase = "idle"
      /\ installLog = {} /\ updateLog = {} /\ MaxEvents \in Nat
  BY LogsAssumption DEF Shell!Work!LogsInit
<1>2. Shell!Work!LogsTypeOK
  <2>1. update \in BOOLEAN /\ asking \in BOOLEAN /\ overlapped \in BOOLEAN
    BY DEF Shell!Work!LogsInit
  <2>2. output \in Seq(Lines)
    BY <1>1
  <2> QED
    BY <1>1, <2>1, <2>2, LogTypesSuffice DEF LogTypes
<1>3. UpdateIsTold
  BY <1>1, RunsAtEmptied DEF UpdateIsTold
<1> QED
  BY <1>1, <1>2, <1>3
  DEF LogsInv, InstallIsTold, LinesAreTold, Shell!Work!LinesReachTheirLog

\* The two dialogs follow their own jobs (App.tsx).
LEMMA LogsPromise == LogsInv => Shell!Work!LogsTypeOK /\ Shell!Work!LogsFollowJobs
<1> SUFFICES ASSUME LogsInv PROVE Shell!Work!LogsFollowJobs
  BY DEF LogsInv
<1>1. ASSUME output = <<>>
      PROVE  (updatePhase = "running" <=> update)
             /\ (installPhase = "running" => Shell!Work!Installing)
  <2>1. Len(output) = 0
    BY <1>1
  <2>2. UpdateIsTold /\ InstallIsTold
    BY DEF LogsInv
  <2>3. update <=> RunsAt(1)
    BY <2>1, <2>2 DEF UpdateIsTold
  <2>4. installPhase = "running" => Shell!Work!Installing
    BY <2>1, <2>2 DEF InstallIsTold
  <2> QED
    BY <2>1, <2>3, <2>4, RunsAtEmptied
<1> QED
  BY <1>1 DEF LogsInv, Shell!Work!LogsFollowJobs

\* An action that leaves the queue alone.
LEMMA LogsQuiet ==
  ASSUME LogsInv, UNCHANGED <<output, update>>, LogTypes',
         updatePhase' = "running" <=> updatePhase = "running",
         holder' = "update" => update,
         overlapped => overlapped',
         installPhase' = "running" =>
           Shell!Work!Installing' \/ (installPhase = "running" /\ ~ Shell!Work!Installing),
         ~ overlapped' => ~ (update /\ Shell!Work!Installing'),
         installLog' \subseteq installLog, updateLog' \subseteq updateLog
  PROVE  LogsInv'
<1>1. output' = output /\ update' = update
  OBVIOUS
<1>2. \A i : RunsAt(i)' <=> RunsAt(i)
  BY <1>1 DEF RunsAt, Turns
<1>3. UpdateIsTold'
  BY <1>1, <1>2 DEF LogsInv, UpdateIsTold
<1>4. InstallIsTold'
  BY <1>1 DEF LogsInv, InstallIsTold
<1>5. LinesAreTold' <=> LinesAreTold
  BY <1>1, <1>2 DEF LinesAreTold
<1>6. Shell!Work!LogsTypeOK'
  <2>1. Shell!Work!LogsTypeOK
    BY DEF LogsInv
  <2> QED
    BY <1>1, <2>1 DEF LogTypes, Shell!Work!LogsTypeOK, Shell!Work!Installs, Shell!Work!Phases
<1> QED
  BY <1>1, <1>3, <1>4, <1>5, <1>6 DEF LogsInv, Shell!Work!LinesReachTheirLog

\* An action that emits.
LEMMA LogsEmit ==
  ASSUME LogsInv, NEW what \in {"started", "line", "done", "failed"},
         NEW job \in {"install", "update"}, Shell!Work!EmitLine(what, job),
         UNCHANGED <<installPhase, installLog, updatePhase, updateLog>>, LogTypes',
         update' = IF job = "update" /\ what # "line" THEN what = "started" ELSE update,
         holder' = "update" => update',
         overlapped => overlapped',
         Shell!Work!Installing =>
           Shell!Work!Installing' \/ (job = "install" /\ what \in {"done", "failed"}),
         ~ overlapped' => ~ (update' /\ Shell!Work!Installing'),
         ~ overlapped /\ what = "line" => (job = "update" <=> update)
  PROVE  LogsInv'
<1> DEFINE e == [what |-> what, job |-> job]
<1>1. /\ e \in Lines /\ e.what = what /\ e.job = job
      /\ output' = Append(output, e) /\ Len(output) < MaxEvents
      /\ output \in Seq(Lines) /\ updatePhase' = updatePhase
  <2>1. e \in Lines
    BY DEF Lines
  <2>2. output \in Seq(Lines)
    BY LogTypesSuffice DEF LogsInv
  <2> QED
    BY <2>1, <2>2 DEF Shell!Work!EmitLine
<1> HIDE DEF e
<1>2. /\ output' \in Seq(Lines) /\ Len(output') = Len(output) + 1 /\ Len(output) \in Nat
      /\ \A i \in 1 .. Len(output) : output'[i] = output[i]
      /\ output'[Len(output) + 1] = e
      /\ \A i \in 1 .. Len(output) + 1 : RunsAt(i)' <=> RunsAt(i)
      /\ RunsAt(Len(output) + 1)' <=>
           IF e.job = "update" /\ e.what # "line" THEN e.what = "started"
           ELSE RunsAt(Len(output) + 1)
  BY <1>1, RunsAtAppended
<1>3. PICK n \in Nat : n = Len(output)
  BY <1>2
<1>4. \A i \in 1 .. n + 1 : i \in 1 .. n \/ i = n + 1
  OBVIOUS
<1>5. update \in BOOLEAN /\ UpdateIsTold
  BY LogTypesSuffice DEF LogsInv, LogTypes
<1>6. UpdateIsTold'
  BY <1>1, <1>2, <1>5 DEF UpdateIsTold
<1>7. InstallIsTold'
  <2>1. InstallIsTold
    BY DEF LogsInv
  <2>2. SUFFICES ASSUME installPhase = "running", ~ Shell!Work!Installing'
                 PROVE  \E i \in 1 .. n + 1 : output'[i].job = "install"
                                               /\ output'[i].what \in {"done", "failed"}
    BY <1>2, <1>3 DEF InstallIsTold
  <2>3. CASE Shell!Work!Installing
    BY <1>1, <1>2, <1>3, <2>2, <2>3
  <2>4. CASE ~ Shell!Work!Installing
    BY <1>2, <1>3, <2>1, <2>2, <2>4 DEF InstallIsTold
  <2> QED
    BY <2>3, <2>4
<1>8. ASSUME ~ overlapped PROVE LinesAreTold'
  <2>1. LinesAreTold
    BY <1>8 DEF LogsInv
  <2>2. what = "line" => (job = "update" <=> RunsAt(n + 1))
    BY <1>3, <1>5, <1>8 DEF UpdateIsTold
  <2>3. RunsAt(n + 1)' <=> RunsAt(n + 1)
    BY <1>2, <1>3
  <2>4. \A i \in 1 .. n + 1 :
          output'[i].what = "line" => (output'[i].job = "update" <=> RunsAt(i)')
    BY <1>1, <1>2, <1>3, <1>4, <2>1, <2>2, <2>3 DEF LinesAreTold
  <2> QED
    BY <1>2, <1>3, <2>4 DEF LinesAreTold
<1>9. Shell!Work!LogsTypeOK'
  <2>1. Len(output') <= MaxEvents
    BY <1>1, <1>2, LogsAssumption
  <2> QED
    BY <1>2, <2>1
    DEF LogTypes, Lines, Shell!Work!LogsTypeOK, Shell!Work!Installs, Shell!Work!Phases,
        Shell!Work!Whats
<1> QED
  BY <1>6, <1>7, <1>8, <1>9 DEF LogsInv, Shell!Work!LinesReachTheirLog

\* The oldest event is taken off the queue.
LEMMA LogsDeliver == LogsInv /\ Shell!Work!DeliverLine => LogsInv'
<1> SUFFICES ASSUME LogsInv, Shell!Work!DeliverLine PROVE LogsInv'
  OBVIOUS
<1> DEFINE e == Head(output)
<1>1. /\ output \in Seq(Lines) /\ output # <<>> /\ output' = Tail(output)
      /\ Len(output) <= MaxEvents /\ LogTypes
      /\ UNCHANGED <<holder, update, ended, asking, overlapped>>
  BY LogTypesSuffice DEF LogsInv, Shell!Work!DeliverLine, Shell!Work!backend
<1>2. e = output[1] /\ e \in Lines
  <2>1. Len(output) \in Nat \ {0}
    BY <1>1, EmptySeq
  <2> QED
    BY <1>1, <2>1, HeadTailProperties
<1>3. \/ e.what = "line" /\ Shell!Work!Files(e)
      \/ /\ e.what = "started" /\ e.job = "update"
         /\ updatePhase' = "running" /\ updateLog' = {}
         /\ UNCHANGED <<installPhase, installLog>>
      \/ /\ e.what \in {"done", "failed"} /\ e.job = "update"
         /\ updatePhase' = e.what
         /\ UNCHANGED <<installPhase, installLog, updateLog>>
      \/ /\ e.what \in {"done", "failed"} /\ e.job = "install"
         /\ installPhase' = e.what
         /\ UNCHANGED <<installLog, updatePhase, updateLog>>
      \/ /\ e.what = "started" /\ e.job = "install"
         /\ UNCHANGED <<installPhase, installLog, updatePhase, updateLog>>
  BY DEF Shell!Work!DeliverLine
<1> HIDE DEF e
<1>4. e.what \in {"started", "line", "done", "failed"} /\ e.job \in {"install", "update"}
  BY <1>2 DEF Lines
<1>5. updatePhase' = IF Turns(1)
                     THEN IF output[1].what = "started" THEN "running" ELSE output[1].what
                     ELSE updatePhase
  BY <1>2, <1>3, <1>4 DEF Turns, Shell!Work!Files
<1>6. /\ output' \in Seq(Lines) /\ Len(output') = Len(output) - 1
      /\ Len(output) \in Nat /\ Len(output) >= 1
      /\ \A i \in 1 .. Len(output) - 1 : output'[i] = output[i + 1]
      /\ \A i \in 1 .. Len(output) : RunsAt(i)' <=> RunsAt(i + 1)
  BY <1>1, <1>5, RunsAtDelivered
<1>7. PICK n \in Nat : n = Len(output)
  BY <1>6
<1>8. UpdateIsTold'
  <2>1. update' <=> RunsAt(n + 1)
    BY <1>1, <1>7 DEF LogsInv, UpdateIsTold
  <2>2. RunsAt(n)' <=> RunsAt(n + 1)
    BY <1>6, <1>7
  <2>3. Len(output') + 1 = n
    BY <1>6, <1>7
  <2> QED
    BY <2>1, <2>2, <2>3 DEF UpdateIsTold
<1>9. InstallIsTold'
  <2> SUFFICES ASSUME installPhase' = "running", ~ Shell!Work!Installing'
               PROVE  \E i \in 1 .. n - 1 : output'[i].job = "install"
                                             /\ output'[i].what \in {"done", "failed"}
    BY <1>6, <1>7 DEF InstallIsTold
  <2>1. installPhase = "running" /\ ~ (e.job = "install" /\ e.what \in {"done", "failed"})
    BY <1>3, <1>4 DEF Shell!Work!Files
  <2>2. ~ Shell!Work!Installing
    BY <1>1 DEF Shell!Work!Installing
  <2>3. PICK i \in 1 .. n : output[i].job = "install" /\ output[i].what \in {"done", "failed"}
    BY <1>7, <2>1, <2>2 DEF LogsInv, InstallIsTold
  <2>4. i # 1 /\ i - 1 \in 1 .. n - 1 /\ (i - 1) + 1 = i
    BY <1>2, <2>1, <2>3
  <2> QED
    BY <1>6, <1>7, <2>3, <2>4
<1>10. ASSUME ~ overlapped
       PROVE  LinesAreTold' /\ Shell!Work!LinesReachTheirLog'
  <2>1. LinesAreTold /\ Shell!Work!LinesReachTheirLog
    BY <1>10 DEF LogsInv
  <2>2. \A i \in 1 .. n - 1 :
          output'[i].what = "line" => (output'[i].job = "update" <=> RunsAt(i)')
    <3>1. \A i \in 1 .. n - 1 : i \in 1 .. n /\ i + 1 \in 1 .. n
      OBVIOUS
    <3> QED
      BY <1>6, <1>7, <2>1, <3>1 DEF LinesAreTold
  <2>3. LinesAreTold'
    BY <1>6, <1>7, <2>2 DEF LinesAreTold
  <2>4. e.what = "line" => (e.job = "update" <=> updatePhase = "running")
    <3>1. RunsAt(1) <=> updatePhase = "running"
      BY <1>6 DEF RunsAt
    <3> QED
      BY <1>2, <1>6, <2>1, <3>1 DEF LinesAreTold
  <2>5. Shell!Work!LinesReachTheirLog'
    BY <1>3, <1>4, <2>1, <2>4 DEF Shell!Work!LinesReachTheirLog, Shell!Work!Files
  <2> QED
    BY <2>3, <2>5
<1>11. LogTypes'
  BY ZenonT(30), <1>1, <1>3, <1>4 DEF LogTypes, Shell!Work!Files
<1>12. Shell!Work!LogsTypeOK'
  <2>1. Len(output') <= MaxEvents
    BY <1>1, <1>6, LogsAssumption
  <2> QED
    BY <1>6, <1>11, <2>1
    DEF LogTypes, Lines, Shell!Work!LogsTypeOK, Shell!Work!Installs, Shell!Work!Phases,
        Shell!Work!Whats
<1> QED
  BY <1>1, <1>8, <1>9, <1>10, <1>12 DEF LogsInv, Shell!Work!Installing

\* No claim of the guard, line, end or click breaks it.
LEMMA LogsStep == LogsInv /\ [Shell!Work!LogsNext]_(Shell!logVars) => LogsInv'
<1> SUFFICES ASSUME LogsInv, [Shell!Work!LogsNext]_(Shell!logVars) PROVE LogsInv'
  OBVIOUS
<1> USE DEF Shell!Work!backend, Shell!Work!screen, Shell!Work!Installing
<1>1. /\ LogTypes
      /\ holder = "update" => update
      /\ ~ overlapped => ~ (update /\ Shell!Work!Installing)
  BY LogTypesSuffice DEF LogsInv
<1>2. CASE Shell!Work!OpenInstaller
  <2>1. LogTypes'
    BY <1>1, <1>2 DEF Shell!Work!OpenInstaller, LogTypes
  <2> QED
    BY <1>1, <1>2, <2>1, LogsQuiet DEF Shell!Work!OpenInstaller
<1>3. CASE Shell!Work!Install
  <2>1. LogTypes'
    BY <1>1, <1>3 DEF Shell!Work!Install, LogTypes
  <2> QED
    BY <1>1, <1>3, <2>1, LogsQuiet DEF Shell!Work!Install
<1>4. CASE Shell!Work!InstallAccepted
  <2>1. LogTypes'
    BY <1>1, <1>4 DEF Shell!Work!InstallAccepted, LogTypes
  <2> QED
    BY <1>1, <1>4, <2>1, LogsEmit DEF Shell!Work!InstallAccepted
<1>5. CASE Shell!Work!InstallRefused
  <2>1. LogTypes'
    BY <1>1, <1>5 DEF Shell!Work!InstallRefused, LogTypes
  <2> QED
    BY <1>1, <1>5, <2>1, LogsQuiet DEF Shell!Work!InstallRefused
<1>6. CASE Shell!Work!InstallReleases
  <2>1. LogTypes'
    BY <1>1, <1>6 DEF Shell!Work!InstallReleases, LogTypes
  <2> QED
    BY <1>1, <1>6, <2>1, LogsQuiet DEF Shell!Work!InstallReleases
<1>7. CASE Shell!Work!InstallAnnounces
  <2>1. LogTypes'
    BY <1>1, <1>7 DEF Shell!Work!InstallAnnounces, LogTypes
  <2>2. ended \in {"done", "failed"}
    BY <1>1, <1>7 DEF Shell!Work!InstallAnnounces, LogTypes
  <2> QED
    BY <1>1, <1>7, <2>1, <2>2, LogsEmit DEF Shell!Work!InstallAnnounces
<1>8. CASE Shell!Work!UpdateStarts
  <2>1. LogTypes'
    BY <1>1, <1>8 DEF Shell!Work!UpdateStarts, LogTypes
  <2> QED
    BY <1>1, <1>8, <2>1, LogsEmit DEF Shell!Work!UpdateStarts
<1>9. CASE Shell!Work!UpdateClaims
  <2>1. LogTypes'
    BY <1>1, <1>9 DEF Shell!Work!UpdateClaims, LogTypes
  <2> QED
    BY <1>1, <1>9, <2>1, LogsQuiet DEF Shell!Work!UpdateClaims
<1>10. CASE Shell!Work!UpdateReleases
  <2>1. LogTypes'
    BY <1>1, <1>10 DEF Shell!Work!UpdateReleases, LogTypes
  <2> QED
    BY <1>1, <1>10, <2>1, LogsQuiet DEF Shell!Work!UpdateReleases
<1>11. CASE Shell!Work!UpdateEnds
  <2>1. LogTypes'
    BY <1>1, <1>11 DEF Shell!Work!UpdateEnds, LogTypes
  <2>2. PICK what \in {"done", "failed"} : Shell!Work!EmitLine(what, "update")
    BY <1>11 DEF Shell!Work!UpdateEnds
  <2> QED
    BY <1>1, <1>11, <2>1, <2>2, LogsEmit DEF Shell!Work!UpdateEnds
<1>12. ASSUME NEW job \in {"install", "update"}, Shell!Work!Line(job) PROVE LogsInv'
  <2>1. LogTypes'
    BY <1>1, <1>12 DEF Shell!Work!Line, LogTypes
  <2> QED
    BY <1>1, <1>12, <2>1, LogsEmit DEF Shell!Work!Line
<1>13. CASE Shell!Work!OpenUpdate
  <2>1. LogTypes'
    BY <1>1, <1>13 DEF Shell!Work!OpenUpdate, LogTypes
  <2> QED
    BY <1>1, <1>13, <2>1, LogsQuiet DEF Shell!Work!OpenUpdate
<1>14. CASE UNCHANGED Shell!logVars
  <2>1. LogTypes'
    BY <1>1, <1>14 DEF Shell!logVars, LogTypes
  <2> QED
    BY <1>1, <1>14, <2>1, LogsQuiet DEF Shell!logVars
<1> QED
  BY <1>2, <1>3, <1>4, <1>5, <1>6, <1>7, <1>8, <1>9, <1>10, <1>11, <1>12, <1>13, <1>14,
     LogsDeliver
  DEF Shell!Work!LogsNext, Shell!Work!Installs

-----------------------------------------------------------------------------
(****************************************************************************)
(* The tiles' overlay (Dashboard.tsx) and a tab's server (remoteRuntime.ts). *)
(****************************************************************************)
OverlayInv ==
  /\ open \in Tiles \cup {Nil} /\ queued \in Tiles \cup {Nil}
  /\ closing \in BOOLEAN /\ dirty \in BOOLEAN /\ dialog \in BOOLEAN /\ late \in BOOLEAN
  /\ Shell!Views!OverlayObeys

\* No tile is open.
LEMMA OverlayStart == Shell!Views!OverlayInit => OverlayInv
BY DEF Shell!Views!OverlayInit, OverlayInv, Shell!Views!OverlayObeys

\* The overlay's invariant holds its types.
LEMMA OverlayTypes == OverlayInv => Shell!Views!OverlayTypeOK
BY DEF OverlayInv, Shell!Views!OverlayTypeOK

\* No click on a tile, a link or the dialog breaks it (Dashboard.tsx).
LEMMA OverlayStep == OverlayInv /\ [Shell!Views!OverlayNext]_(Shell!overlayVars) => OverlayInv'
<1> SUFFICES ASSUME OverlayInv, [Shell!Views!OverlayNext]_(Shell!overlayVars)
             PROVE  OverlayInv'
  OBVIOUS
<1> USE DEF OverlayInv, Shell!Views!OverlayObeys
<1>1. ASSUME NEW next \in Tiles \cup {Nil}, Shell!Views!Close(next),
             next # Nil => open \notin {Nil, next}
      PROVE  OverlayInv'
  BY <1>1 DEF Shell!Views!Close
<1>2. ASSUME NEW t \in Tiles, Shell!Views!Request(t)
      PROVE  OverlayInv'
  <2>1. CASE Shell!Views!Open(t)
    BY <2>1 DEF Shell!Views!Open
  <2>2. CASE open = t /\ Shell!Views!Close(Nil)
    BY <2>2, <1>1
  <2>3. CASE open \notin {t, Nil} /\ ~closing /\ Shell!Views!Close(t)
    BY <2>3, <1>1
  <2>4. CASE /\ open \notin {t, Nil} /\ closing /\ queued' = t
             /\ UNCHANGED <<open, closing, dirty, dialog, late>>
    BY <2>4
  <2> QED
    BY <1>2, <2>1, <2>2, <2>3, <2>4 DEF Shell!Views!Request
<1>3. CASE Shell!Views!AskToClose
  BY <1>1, <1>3 DEF Shell!Views!AskToClose
<1>4. CASE Shell!Views!Unmount
  BY <1>4 DEF Shell!Views!Unmount
<1>5. CASE Shell!Views!Edit
  BY <1>5 DEF Shell!Views!Edit
<1>6. CASE Shell!Views!Save
  BY <1>6 DEF Shell!Views!Save
<1>7. CASE Shell!Views!Discard
  BY <1>7 DEF Shell!Views!Discard
<1>8. CASE Shell!Views!Cancel
  BY <1>8 DEF Shell!Views!Cancel
<1>9. CASE UNCHANGED Shell!overlayVars
  BY <1>9 DEF Shell!overlayVars
<1> QED
  BY <1>2, <1>3, <1>4, <1>5, <1>6, <1>7, <1>8, <1>9 DEF Shell!Views!OverlayNext

\* The answers in flight are bounded, and so are the calls shown.
TabInv ==
  /\ Shell!Views!TabTypeOK
  /\ IsFiniteSet(found) /\ lookups + Cardinality(found) <= MaxLookups
  /\ Len(shown) <= MaxInFlight
  /\ chosen # Nil => watched = chosen
  /\ \A m \in Methods : Cardinality(Places(shown, m)) = inFlight[m]

\* TileViews counts with the FiniteSets it extends.
LEMMA TabCounts == ASSUME NEW S PROVE Shell!Views!Cardinality(S) = Cardinality(S)
BY DEF Shell!Views!Cardinality, Cardinality

\* A tab begins with no server of its own.
LEMMA TabStart == Shell!Views!TabInit => TabInv
<1> SUFFICES ASSUME Shell!Views!TabInit PROVE TabInv
  OBVIOUS
<1> USE DEF Shell!Views!TabInit
<1>1. Shell!Views!TabTypeOK
  BY TabAssumption, EmptySeq DEF Shell!Views!TabTypeOK
<1>2. IsFiniteSet(found) /\ lookups + Cardinality(found) <= MaxLookups
  BY TabAssumption, FS_EmptySet
<1>3. Len(shown) = 0
  OBVIOUS
<1>4. \A m : Cardinality(Places(shown, m)) = 0
  BY <1>3, FS_EmptySet DEF Places
<1> QED
  BY <1>1, <1>2, <1>3, <1>4, TabAssumption DEF TabInv

\* A tab with a server of its own shows it (remoteRuntime.ts).
LEMMA TabTypes == TabInv => Shell!Views!TabTypeOK /\ Shell!Views!TabIsItsOwn
<1> SUFFICES ASSUME TabInv PROVE Shell!Views!TabIsItsOwn
  BY DEF TabInv
<1>1. \A m : {i \in DOMAIN shown : shown[i] = m} = Places(shown, m)
  BY LenProperties DEF TabInv, Shell!Views!TabTypeOK, Places
<1> QED
  BY <1>1, TabCounts DEF TabInv, Shell!Views!TabIsItsOwn

\* No lookup, late answer or call breaks it.
LEMMA TabStep == TabInv /\ [Shell!Views!TabNext]_(Shell!tabVars) => TabInv'
<1> SUFFICES ASSUME TabInv, [Shell!Views!TabNext]_(Shell!tabVars)
             PROVE  TabInv'
  OBVIOUS
<1>0. /\ desktop \in Servers /\ chosen \in Servers \cup {Nil}
      /\ watched \in Servers \cup {"unset"}
      /\ lookups \in 0 .. MaxLookups /\ found \subseteq Servers
      /\ inFlight \in [Methods -> 0 .. MaxInFlight]
      /\ shown \in Seq(Methods)
      /\ IsFiniteSet(found) /\ lookups + Cardinality(found) <= MaxLookups
      /\ Len(shown) <= MaxInFlight
      /\ chosen # Nil => watched = chosen
      /\ \A m \in Methods : Cardinality(Places(shown, m)) = inFlight[m]
  BY DEF TabInv, Shell!Views!TabTypeOK
<1>a. /\ Cardinality(found) \in Nat /\ Len(shown) \in Nat /\ lookups \in Nat
      /\ MaxLookups \in Nat /\ MaxInFlight \in Nat
  BY <1>0, FS_CardinalityType, LenProperties, TabAssumption
<1> USE DEF Shell!Views!calls, Shell!Views!view
<1>1. ASSUME NEW s \in Servers, Shell!Views!DesktopSwitches(s) PROVE TabInv'
  BY <1>0, <1>1 DEF Shell!Views!DesktopSwitches, TabInv, Shell!Views!TabTypeOK, Places
<1>2. ASSUME NEW s \in Servers, Shell!Views!Choose(s) PROVE TabInv'
  BY <1>0, <1>2 DEF Shell!Views!Choose, TabInv, Shell!Views!TabTypeOK, Places
<1>3. ASSUME NEW s \in found, Shell!Views!Found(s) PROVE TabInv'
  <2>1. IsFiniteSet(found') /\ Cardinality(found') <= Cardinality(found)
        /\ Cardinality(found') \in Nat
    BY <1>0, <1>3, FS_Subset, FS_CardinalityType DEF Shell!Views!Found
  <2> QED
    BY <1>0, <1>a, <1>3, <2>1, TabAssumption
    DEF Shell!Views!Found, TabInv, Shell!Views!TabTypeOK, Places
<1>4. CASE Shell!Views!Lookup
  <2>1. lookups + Cardinality(found) < MaxLookups
    BY <1>4, TabCounts DEF Shell!Views!Lookup
  <2> QED
    BY <1>0, <1>a, <1>4, <2>1 DEF Shell!Views!Lookup, TabInv, Shell!Views!TabTypeOK, Places
<1>5. CASE Shell!Views!Looked
  <2>1. IsFiniteSet(found') /\ Cardinality(found') <= Cardinality(found) + 1
        /\ Cardinality(found') \in Nat
    <3>1. CASE found' = found
      BY <1>0, <1>a, <3>1
    <3>2. CASE found' = found \cup {desktop}
      <4>1. IsFiniteSet(found)
        BY <1>0
      <4>2. /\ IsFiniteSet(found \cup {desktop})
            /\ Cardinality(found \cup {desktop}) <= Cardinality(found) + 1
            /\ Cardinality(found \cup {desktop}) \in Nat
        BY <4>1, <1>a, FS_AddElement
      <4> QED
        BY <3>2, <4>2
    <3> QED
      BY <1>5, <3>1, <3>2 DEF Shell!Views!Looked
  <2> QED
    BY <1>0, <1>a, <1>5, <2>1 DEF Shell!Views!Looked, TabInv, Shell!Views!TabTypeOK, Places
<1>6. ASSUME NEW m \in Methods, Shell!Views!AdminCall(m) PROVE TabInv'
  <2>1. shown' = Append(shown, m) /\ inFlight' = [inFlight EXCEPT ![m] = @ + 1]
        /\ Len(shown) < MaxInFlight
    BY <1>6 DEF Shell!Views!AdminCall
  <2>2. \A n \in Methods : /\ Cardinality(Places(shown', n)) = inFlight'[n]
                           /\ Cardinality(Places(shown, n)) \in 0 .. Len(shown)
    BY <1>0, <2>1, PlacesAppended
  <2>3. shown' \in Seq(Methods) /\ Len(shown') = Len(shown) + 1
    BY <1>0, <2>1, AppendProperties
  <2>4. inFlight' \in [Methods -> 0 .. MaxInFlight]
    BY <1>0, <1>a, <2>1, <2>2
  <2> QED
    BY <1>0, <1>a, <1>6, <2>1, <2>2, <2>3, <2>4
    DEF Shell!Views!AdminCall, TabInv, Shell!Views!TabTypeOK
<1>7. ASSUME NEW m \in Methods, Shell!Views!Settles(m) PROVE TabInv'
  <2> DEFINE Earliest(i) == shown[i] = m /\ \A j \in 1 .. i - 1 : shown[j] # m
             at == CHOOSE i \in DOMAIN shown : Earliest(i)
  <2>1. \E i \in DOMAIN shown : Earliest(i)
    <3>1. Cardinality(Places(shown, m)) > 0
      BY <1>0, <1>7 DEF Shell!Views!Settles
    <3>2. Places(shown, m) # {}
      BY <3>1, FS_EmptySet
    <3>3. Places(shown, m) \subseteq Nat
      BY <1>a DEF Places
    <3>4. PICK i \in Places(shown, m) : \A j \in Places(shown, m) : i <= j
      BY <3>2, <3>3, LeastNumber
    <3>5. i \in DOMAIN shown /\ shown[i] = m
      BY <1>0, LenProperties DEF Places
    <3>6. \A j \in 1 .. i - 1 : j \in 1 .. Len(shown) /\ ~(i <= j)
      BY <1>a DEF Places
    <3>7. \A j \in 1 .. i - 1 : shown[j] # m
      BY <3>4, <3>6 DEF Places
    <3> QED
      BY <3>5, <3>7
  <2>2. at \in 1 .. Len(shown) /\ shown[at] = m
    BY <1>0, <2>1, LenProperties
  <2>3. shown' = Less(shown, at)
    BY <1>7 DEF Shell!Views!Settles, Less
  <2>4. inFlight[m] > 0 /\ inFlight' = [inFlight EXCEPT ![m] = @ - 1]
    BY <1>7 DEF Shell!Views!Settles
  <2> HIDE DEF at
  <2>5. shown' \in Seq(Methods) /\ Len(shown') = Len(shown) - 1
    BY <1>0, <2>2, <2>3, PlacesLess
  <2>6. \A n \in Methods : Cardinality(Places(shown', n)) = inFlight'[n]
    BY <1>0, <2>2, <2>3, <2>4, PlacesLess
  <2>7. inFlight' \in [Methods -> 0 .. MaxInFlight]
    BY <1>0, <1>a, <2>4
  <2>8. UNCHANGED <<desktop, watched, chosen, lookups, found>>
    BY <1>7 DEF Shell!Views!Settles
  <2> QED
    BY <1>0, <1>a, <2>5, <2>6, <2>7, <2>8 DEF TabInv, Shell!Views!TabTypeOK
<1>8. CASE UNCHANGED Shell!tabVars
  BY <1>8 DEF Shell!tabVars, TabInv, Shell!Views!TabTypeOK, Places
<1> QED
  BY <1>1, <1>2, <1>3, <1>4, <1>5, <1>6, <1>7, <1>8 DEF Shell!Views!TabNext

-----------------------------------------------------------------------------
(****************************************************************************)
(* The notification bubbles (useNotificationsStore.ts).                     *)
(****************************************************************************)
\* What the user sent away is still dismissed.
BubblesInv ==
  /\ Shell!Work!ToastsTypeOK
  /\ Shell!Work!StackIsTame
  /\ unwanted \subseteq dismissed

\* No bubble is shown.
LEMMA BubblesStart == Shell!Work!ToastsInit => BubblesInv
<1> SUFFICES ASSUME Shell!Work!ToastsInit PROVE BubblesInv
  OBVIOUS
<1>1. MAX_TOASTS \in Nat
  BY BubblesAssumption
<1> QED
  BY <1>1 DEF Shell!Work!ToastsInit, BubblesInv, Shell!Work!ToastsTypeOK, Shell!Work!StackIsTame

\* The bubbles but those of one key.
LEMMA WithoutKeeps ==
  ASSUME Shell!Work!ToastsTypeOK, Shell!Work!StackIsTame, NEW key
  PROVE  LET t == Shell!Work!Without(key) IN
           /\ t \in Seq(Shell!Work!Toast) /\ Len(t) <= Len(toasts)
           /\ (\E k \in 1 .. Len(toasts) : toasts[k].key = key) => Len(t) + 1 <= Len(toasts)
           /\ \A i \in 1 .. Len(t) :
                t[i].key # key /\ \E k \in 1 .. Len(toasts) : t[i] = toasts[k]
           /\ \A i, j \in 1 .. Len(t) : t[i].key = t[j].key => i = j
<1>1. toasts \in Seq(Shell!Work!Toast)
      /\ \A i, j \in 1 .. Len(toasts) : toasts[i].key = toasts[j].key => i = j
  BY LenProperties DEF Shell!Work!ToastsTypeOK, Shell!Work!StackIsTame
<1>2. Len(toasts) \in Nat
  BY <1>1, LenProperties
<1> DEFINE sieve == CHOOSE f : Filters(toasts, key, f)
<1>3. Filters(toasts, key, sieve)
  BY <1>2, FilterExists
<1>4. Shell!Work!Without(key) = sieve[Len(toasts)]
  BY DEF Shell!Work!Without, Filters
<1> HIDE DEF sieve
<1> QED
  BY <1>1, <1>3, <1>4, FilterKeeps

\* A stack put together of bubbles there were, at most with one more.
LEMMA StackGrows ==
  ASSUME NEW s \in Seq(Shell!Work!Toast), NEW e \in Shell!Work!Toast,
         Len(s) + 1 <= MAX_TOASTS,
         \A i, j \in 1 .. Len(s) : s[i].key = s[j].key => i = j,
         \A i \in 1 .. Len(s) : s[i].key # e.key /\ s[i].key \notin unwanted',
         e.key \notin unwanted', dismissed' \cap News = {},
         toasts' = Append(s, e)
  PROVE  toasts' \in Seq(Shell!Work!Toast) /\ Shell!Work!StackIsTame'
<1>1. /\ toasts' \in Seq(Shell!Work!Toast) /\ Len(toasts') = Len(s) + 1
      /\ \A i \in 1 .. Len(s) : toasts'[i] = s[i]
      /\ toasts'[Len(s) + 1] = e
      /\ Len(s) \in Nat
  BY AppendProperties, LenProperties
<1>2. DOMAIN toasts' = 1 .. Len(s) + 1
  BY <1>1, LenProperties
<1>3. \A i \in DOMAIN toasts' : i \in 1 .. Len(s) \/ i = Len(s) + 1
  BY <1>1, <1>2
<1>4. \A i, j \in DOMAIN toasts' : toasts'[i].key = toasts'[j].key => i = j
  BY <1>1, <1>3
<1>5. \A i \in DOMAIN toasts' : toasts'[i].key \notin unwanted'
  BY <1>1, <1>3
<1> QED
  BY <1>1, <1>4, <1>5 DEF Shell!Work!StackIsTame

\* No bubble that is pushed, dropped or sent away breaks it
\* (useNotificationsStore.ts).
LEMMA BubblesStep ==
  BubblesInv /\ [Shell!Work!ToastsNext]_(Shell!bubbleVars) => BubblesInv'
<1> SUFFICES ASSUME BubblesInv, [Shell!Work!ToastsNext]_(Shell!bubbleVars)
             PROVE  BubblesInv'
  OBVIOUS
<1> DEFINE T == Shell!Work!Toast
           Places1 == 1 .. Len(toasts)
<1>0. /\ Standing \cap News = {}
      /\ MAX_TOASTS \in Nat /\ MAX_TOASTS >= 1 /\ MaxCount \in Nat /\ MaxCount >= 1
  BY BubblesAssumption
<1>1. /\ toasts \in Seq(T) /\ Len(toasts) \in Nat /\ DOMAIN toasts = Places1
      /\ dismissed \subseteq Standing \cup News /\ unwanted \subseteq Standing
      /\ Len(toasts) <= MAX_TOASTS
      /\ \A i, j \in Places1 : toasts[i].key = toasts[j].key => i = j
      /\ \A i \in Places1 : toasts[i].key \notin unwanted
      /\ \A i \in Places1 : toasts[i] \in T
      /\ dismissed \cap News = {} /\ unwanted \subseteq dismissed
  BY LenProperties, ElementOfSeq
  DEF BubblesInv, Shell!Work!ToastsTypeOK, Shell!Work!StackIsTame, Shell!Work!Keys
<1>2. \A e \in T : /\ e.key \in Standing \cup News /\ e.text \in Texts
                   /\ e.count \in 1 .. MaxCount
  BY DEF Shell!Work!Toast, Shell!Work!Keys
<1>t. ASSUME toasts' \in Seq(T), Shell!Work!StackIsTame',
             dismissed' \subseteq Standing \cup News, unwanted' \subseteq Standing,
             unwanted' \subseteq dismissed'
      PROVE  BubblesInv'
  BY <1>t DEF BubblesInv, Shell!Work!ToastsTypeOK, Shell!Work!Keys
<1>3. ASSUME NEW key \in Standing \cup News, NEW text \in Texts, NEW force \in BOOLEAN,
             Shell!Work!showToast(key, text, force)
      PROVE  BubblesInv'
  <2>1. /\ key \in dismissed => force
        /\ dismissed' = dismissed \ {key}
        /\ unwanted' = IF force THEN unwanted \ {key} ELSE unwanted
    BY <1>3 DEF Shell!Work!showToast
  <2>2. /\ dismissed' \subseteq Standing \cup News /\ unwanted' \subseteq Standing
        /\ unwanted' \subseteq dismissed' /\ dismissed' \cap News = {}
        /\ key \notin unwanted' /\ unwanted' \subseteq unwanted
    BY <1>1, <2>1
  <2>3. SUFFICES toasts' \in Seq(T) /\ Shell!Work!StackIsTame'
    BY <1>t, <2>2
  <2>4. ASSUME NEW i \in Places1, toasts[i].key = key, toasts[i].count < MaxCount,
               toasts' = Shell!Work!Again(toasts[i], text, force)
        PROVE  toasts' \in Seq(T) /\ Shell!Work!StackIsTame'
    <3> DEFINE bubble == toasts[i]
               n == CASE force -> bubble.count
                      [] ~force /\ bubble.text = text -> bubble.count + 1
                      [] OTHER -> 1
               next == [bubble EXCEPT !.text = text, !.count = n]
    <3>1. bubble \in T
      BY <1>1, <2>4
    <3>2. n \in 1 .. MaxCount
      BY <1>0, <1>2, <2>4, <3>1
    <3>3. next \in T /\ next.key = key
      BY <1>2, <2>4, <3>1, <3>2 DEF Shell!Work!Toast, Shell!Work!Keys
    <3> HIDE DEF next
    <3>4. CASE toasts' = Append(Shell!Work!Without(key), next)
      <4> DEFINE t == Shell!Work!Without(key)
      <4>1. /\ t \in Seq(T) /\ Len(t) + 1 <= Len(toasts)
            /\ \A j \in 1 .. Len(t) :
                 t[j].key # key /\ \E k \in Places1 : t[j] = toasts[k]
            /\ \A j, k \in 1 .. Len(t) : t[j].key = t[k].key => j = k
        BY <2>4, WithoutKeeps DEF BubblesInv
      <4> HIDE DEF t
      <4>2. Len(t) + 1 <= MAX_TOASTS
        BY <1>0, <1>1, <4>1, LenProperties
      <4>3. \A j \in 1 .. Len(t) : t[j].key # next.key /\ t[j].key \notin unwanted'
        BY <1>1, <2>2, <3>3, <4>1
      <4>4. toasts' = Append(t, next)
        BY <3>4 DEF t
      <4> QED
        BY <2>2, <3>3, <4>1, <4>2, <4>3, <4>4, StackGrows
    <3>5. CASE toasts' = [j \in DOMAIN toasts |-> IF toasts[j] = bubble THEN next ELSE toasts[j]]
      <4>1. /\ toasts' \in [Places1 -> T]
            /\ \A j \in Places1 : toasts'[j].key = toasts[j].key
        BY <1>1, <2>4, <3>3, <3>5
      <4>2. toasts' \in Seq(T) /\ Len(toasts') = Len(toasts) /\ DOMAIN toasts' = Places1
        BY <1>1, <4>1, LenProperties
      <4> QED
        BY <1>1, <2>2, <4>1, <4>2 DEF Shell!Work!StackIsTame
    <3> QED
      BY <2>4, <3>4, <3>5 DEF Shell!Work!Again, next
  <2>5. CASE /\ \A i \in DOMAIN toasts : toasts[i].key # key
             /\ toasts' = Shell!Work!New(key, text)
    <3> DEFINE e == [key |-> key, text |-> text, count |-> 1]
               d == Shell!Work!Dropped(MAX_TOASTS - 1, toasts)
               off == IF Len(toasts) <= MAX_TOASTS - 1 THEN 0 ELSE Len(toasts) - (MAX_TOASTS - 1)
    <3>1. e \in T
      BY <1>0 DEF Shell!Work!Toast, Shell!Work!Keys
    <3>2. toasts' = Append(d, e)
      BY <2>5 DEF Shell!Work!New
    <3>3. /\ d \in Seq(T) /\ Len(d) = Len(toasts) - off
          /\ \A j \in 1 .. Len(d) : d[j] = toasts[j + off] /\ j + off \in Places1
      <4>1. CASE Len(toasts) <= MAX_TOASTS - 1
        BY <1>0, <1>1, <4>1 DEF Shell!Work!Dropped
      <4>2. CASE ~ (Len(toasts) <= MAX_TOASTS - 1)
        <5> DEFINE m == Len(toasts) - (MAX_TOASTS - 1) + 1
        <5>1. d = SubSeq(toasts, m, Len(toasts)) /\ off = m - 1
          BY <1>0, <1>1, <4>2 DEF Shell!Work!Dropped
        <5>2. m \in Int /\ 1 <= m /\ m <= Len(toasts) + 1
          BY <1>0, <1>1, <4>2
        <5> HIDE DEF m, off, d
        <5>0. Len(toasts) \in Nat
          BY <1>1
        <5>3. \A j \in m .. Len(toasts) : toasts[j] \in T
          BY <1>1, <5>2
        <5>4. /\ d \in Seq(T)
              /\ Len(d) = IF m <= Len(toasts) THEN Len(toasts) - m + 1 ELSE 0
              /\ \A j \in 1 .. Len(toasts) - m + 1 : d[j] = toasts[m + j - 1]
          BY <1>1, <5>1, <5>2, <5>3, SubSeqProperties
        <5>5. /\ off \in Int /\ Len(d) = Len(toasts) - off
              /\ Len(d) = Len(toasts) - m + 1
          BY <5>0, <5>1, <5>2, <5>4
        <5>6. \A j \in 1 .. Len(d) : m + j - 1 = j + off /\ j + off \in Places1
          BY <5>0, <5>1, <5>2, <5>5
        <5> QED
          BY <5>4, <5>5, <5>6
      <4> QED
        BY <4>1, <4>2
    <3>4. Len(d) + 1 <= MAX_TOASTS
      BY <1>0, <1>1, <3>3
    <3>5. off \in Nat
      BY <1>0, <1>1
    <3> HIDE DEF d, off
    <3>6. \A j, k \in 1 .. Len(d) : d[j].key = d[k].key => j = k
      <4> SUFFICES ASSUME NEW j \in 1 .. Len(d), NEW k \in 1 .. Len(d), d[j].key = d[k].key
                   PROVE  j = k
        OBVIOUS
      <4>1. j + off = k + off
        BY <1>1, <3>3
      <4> QED
        BY <3>5, <4>1
    <3>7. \A j \in 1 .. Len(d) : d[j].key # e.key /\ d[j].key \notin unwanted'
      BY <1>1, <2>2, <2>5, <3>3
    <3>8. e.key = key
      OBVIOUS
    <3> HIDE DEF e
    <3> QED
      BY <2>2, <3>1, <3>2, <3>3, <3>4, <3>6, <3>7, <3>8, StackGrows
  <2> QED
    BY <1>1, <1>3, <2>4, <2>5 DEF Shell!Work!showToast
<1>4. ASSUME NEW i \in DOMAIN toasts, Shell!Work!dismissToast(toasts[i].key) PROVE BubblesInv'
  <2> DEFINE key == toasts[i].key
             t == Shell!Work!Without(key)
  <2>1. /\ toasts' = t
        /\ dismissed' = dismissed \cup ({key} \cap Standing)
        /\ unwanted' = unwanted \cup ({key} \cap Standing)
    BY <1>4 DEF Shell!Work!dismissToast, Shell!Work!Remembered
  <2>2. /\ t \in Seq(T) /\ Len(t) <= Len(toasts)
        /\ \A j \in 1 .. Len(t) :
             t[j].key # key /\ \E k \in Places1 : t[j] = toasts[k]
        /\ \A j, k \in 1 .. Len(t) : t[j].key = t[k].key => j = k
    BY WithoutKeeps DEF BubblesInv
  <2> HIDE DEF t, key
  <2>3. Len(t) \in Nat /\ DOMAIN t = 1 .. Len(t)
    BY <2>2, LenProperties
  <2>4. \A j \in 1 .. Len(t) : t[j].key \notin unwanted'
    BY <1>1, <2>1, <2>2
  <2>5. dismissed' \cap News = {} /\ Len(toasts') <= MAX_TOASTS
    BY <1>0, <1>1, <2>1, <2>2, <2>3
  <2>6. Shell!Work!StackIsTame'
    BY <2>1, <2>2, <2>3, <2>4, <2>5 DEF Shell!Work!StackIsTame
  <2> QED
    BY <1>1, <1>t, <2>1, <2>2, <2>6
<1>5. ASSUME NEW i \in DOMAIN toasts, Shell!Work!withdrawToast(toasts[i].key) PROVE BubblesInv'
  <2> DEFINE t == Shell!Work!Without(toasts[i].key)
  <2>1. toasts' = t /\ UNCHANGED <<dismissed, unwanted>>
    BY <1>5 DEF Shell!Work!withdrawToast
  <2>2. /\ t \in Seq(T) /\ Len(t) <= Len(toasts)
        /\ \A j \in 1 .. Len(t) : \E k \in Places1 : t[j] = toasts[k]
        /\ \A j, k \in 1 .. Len(t) : t[j].key = t[k].key => j = k
    BY WithoutKeeps DEF BubblesInv
  <2> HIDE DEF t
  <2>3. Len(t) \in Nat /\ DOMAIN t = 1 .. Len(t)
    BY <2>2, LenProperties
  <2>4. \A j \in 1 .. Len(t) : t[j].key \notin unwanted'
    BY <1>1, <2>1, <2>2
  <2>5. Shell!Work!StackIsTame'
    BY <1>0, <1>1, <2>1, <2>2, <2>3, <2>4 DEF Shell!Work!StackIsTame
  <2> QED
    BY <1>1, <1>t, <2>1, <2>2, <2>5
<1>6. CASE Shell!Work!dismissAllToasts
  <2>1. PICK gone \in SUBSET Standing :
          /\ toasts' = <<>>
          /\ dismissed' = dismissed \cup gone /\ unwanted' = unwanted \cup gone
    BY <1>6 DEF Shell!Work!dismissAllToasts, Shell!Work!Remembered
  <2>2. toasts' \in Seq(T) /\ Len(toasts') = 0 /\ DOMAIN toasts' = {}
    BY <2>1
  <2>3. Shell!Work!StackIsTame'
    BY <1>0, <1>1, <2>1, <2>2 DEF Shell!Work!StackIsTame
  <2> QED
    BY <1>1, <1>t, <2>1, <2>2, <2>3
<1>7. CASE UNCHANGED Shell!bubbleVars
  BY <1>7 DEF Shell!bubbleVars, BubblesInv, Shell!Work!ToastsTypeOK, Shell!Work!StackIsTame
<1> QED
  BY <1>3, <1>4, <1>5, <1>6, <1>7 DEF Shell!Work!ToastsNext, Shell!Work!Keys

-----------------------------------------------------------------------------
(****************************************************************************)
(* The tunnel (tunnel.go): its runs, the calls that start and stop them, and *)
(* the hosts they hold.                                                     *)
(****************************************************************************)
TRuns == {TunnelCalls[i] : i \in DOMAIN TunnelCalls}

\* What is assumed of the constants, by the names used here.
LEMMA ReachConstants ==
  /\ TRuns \cap Hostnames = {}
  /\ Nil \notin TRuns \cup Hostnames
BY ReachAssumption DEF TRuns


TCallers == DesktopCalls \cup ListenerCalls
THosts == Hostnames \cup TRuns
Early == {"preparing", "spawning", "spawned", "waiting"}
Live == Early \cup {"raising", "connected", "failing"}

ReachTypes ==
  /\ tunnel \in [gen : TRuns \cup {Nil}, held : TRuns \cup {Nil},
                 host : THosts \cup {Nil}, final : BOOLEAN,
                 status : {"starting", "running", "off", "failed"}]
  /\ attempts \in [TRuns -> [at : Live \cup {"unborn", "asked", "lowering", "done"},
                             host : THosts \cup {Nil}, final : BOOLEAN]]
  /\ alive \subseteq TRuns /\ cancelled \subseteq TRuns /\ allowed \subseteq THosts
  /\ callers \in [TCallers -> [at : {"idle", "changed", "stopping", "lowering"},
                               held : TRuns \cup {Nil},
                               host : THosts \cup {Nil}, final : BOOLEAN]]
  /\ named \in Hostnames \cup {Nil} /\ listening \in BOOLEAN
  /\ happened \in [overtaken : BOOLEAN, blind : BOOLEAN, unending : SUBSET TRuns,
                   replaced : SUBSET Hostnames, forgotten : SUBSET Hostnames]

\* A host that goes for good is a quick tunnel's or one the user let go.
GoodbyesAreMeant ==
  /\ happened.forgotten \subseteq happened.replaced
  /\ tunnel.final => /\ tunnel.host \notin Hostnames
                     /\ tunnel.gen # Nil => attempts[tunnel.gen].host \notin Hostnames
  /\ \A r \in TRuns : attempts[r].at = "lowering" /\ attempts[r].final
                        => attempts[r].host \notin Hostnames
  /\ \A c \in TCallers : callers[c].at = "lowering" /\ callers[c].final
                             /\ callers[c].host \in Hostnames
                           => callers[c].host \in happened.replaced

\* A run that goes on has its host, and one with a process goes on.
RunsHaveHosts ==
  /\ \A r \in TRuns : attempts[r].at \in Live => attempts[r].host # Nil
  /\ \A r \in alive : attempts[r].at \in {"spawned", "waiting", "raising", "connected"}

\* The tunnel is the run's that may report, and its status is that run's.
StatusIsTheRuns ==
  /\ tunnel.host # Nil <=> tunnel.status = "running"
  /\ tunnel.held = Nil <=> tunnel.status = "off"
  /\ tunnel.gen # Nil => tunnel.gen = tunnel.held
  /\ tunnel.held # Nil => attempts[tunnel.held].at \notin {"unborn", "asked"}
  /\ tunnel.gen # Nil /\ attempts[tunnel.gen].at \in Early => tunnel.status = "starting"
  /\ tunnel.status = "failed" => attempts[tunnel.held].at \in {"lowering", "done"}

\* A run that goes on may report until it is cancelled, and one whose host is
\* being allowed is the tunnel's.
RunsAreHeld ==
  \A r \in TRuns :
    /\ attempts[r].at \in Live /\ r \notin cancelled => tunnel.gen = r
    /\ attempts[r].at = "raising" => tunnel.held = r /\ tunnel.host = attempts[r].host

\* A process is that of the run held, or one a Stop gave up on.
ProcessesAreKnown == \A r \in alive : r \in happened.unending \/ tunnel.held = r

\* A Stop waits for a run that it has cancelled and that cannot report.
StopsKnowTheirRun ==
  \A c \in TCallers :
    callers[c].at = "stopping" =>
      /\ callers[c].held \in cancelled
      /\ attempts[callers[c].held].at \notin {"unborn", "asked"}
      /\ callers[c].held = tunnel.held => tunnel.gen = Nil

\* What the listener answers to is the tunnel's or about to go.
AllowedIsUp == \A host \in allowed : tunnel.host = host \/ Shell!Reach!BeingLowered(host)

\* When the listener is down somebody is about to stop the tunnel, or at it.
StopIsComing ==
  ~listening /\ ~happened.blind /\ tunnel.status \in {"starting", "running"} =>
    \E c \in TCallers : \/ callers[c].at = "changed"
                        \/ callers[c].at = "stopping" /\ callers[c].held = tunnel.held

ReachFollows ==
  /\ StatusIsTheRuns /\ RunsAreHeld /\ ProcessesAreKnown /\ StopsKnowTheirRun
  /\ AllowedIsUp /\ StopIsComing

ReachInv ==
  ReachTypes /\ GoodbyesAreMeant /\ RunsHaveHosts /\ (~happened.overtaken => ReachFollows)

\* No tunnel has run.
LEMMA ReachStart == Shell!Reach!TunnelInit => ReachInv
<1> SUFFICES ASSUME Shell!Reach!TunnelInit PROVE ReachInv
  OBVIOUS
<1> USE DEF Shell!Reach!TunnelInit, Shell!Reach!Runs, TRuns, Shell!Reach!Callers, TCallers,
            Shell!Reach!Free
<1>1. ReachTypes
  BY DEF ReachTypes
<1>2. GoodbyesAreMeant /\ RunsHaveHosts
  BY DEF GoodbyesAreMeant, RunsHaveHosts, Live, Early
<1>3. ReachFollows
  BY DEF ReachFollows, StatusIsTheRuns, RunsAreHeld, ProcessesAreKnown, StopsKnowTheirRun,
         AllowedIsUp, StopIsComing, Live, Early
<1> QED
  BY <1>1, <1>2, <1>3 DEF ReachInv

\* What tunnel.go promises of a stopped run follows.
LEMMA ReachPromise == ReachInv => Shell!Reach!TunnelTypeOK /\ Shell!Reach!TunnelIsBounded
<1> SUFFICES ASSUME ReachInv PROVE Shell!Reach!TunnelTypeOK /\ Shell!Reach!TunnelIsBounded
  OBVIOUS
<1>0. ReachTypes /\ GoodbyesAreMeant
  BY DEF ReachInv
<1>1. Shell!Reach!TunnelTypeOK
  BY <1>0
  DEF ReachTypes, Shell!Reach!TunnelTypeOK, Shell!Reach!Runs, TRuns, Shell!Reach!Callers,
      TCallers, Shell!Reach!Hosts, THosts, Shell!Reach!Active, Shell!Reach!Phases, Live, Early
<1>2. Shell!Reach!NamedDevicesKept
  BY <1>0 DEF GoodbyesAreMeant, Shell!Reach!NamedDevicesKept
<1>3. ASSUME ~happened.overtaken
      PROVE  /\ Shell!Reach!AnswersOnlyWhileUp /\ Shell!Reach!OffMeansGone
             /\ Shell!Reach!TunnelEndsWithListener
  <2>1. ReachFollows
    BY <1>3 DEF ReachInv
  <2>2. Shell!Reach!AnswersOnlyWhileUp
    <3> SUFFICES ASSUME NEW host \in allowed
                 PROVE  Shell!Reach!Raised(host) \/ Shell!Reach!BeingLowered(host)
      BY DEF Shell!Reach!AnswersOnlyWhileUp
    <3>1. host # Nil
      BY <1>0, ReachConstants DEF ReachTypes, THosts
    <3> QED
      BY <2>1, <3>1 DEF ReachFollows, AllowedIsUp, StatusIsTheRuns, Shell!Reach!Raised
  <2>3. Shell!Reach!OffMeansGone
    <3> SUFFICES ASSUME tunnel.status = "off", NEW r \in alive
                 PROVE  r \in happened.unending
      BY DEF Shell!Reach!OffMeansGone
    <3> QED
      BY <1>0, <2>1, ReachConstants
      DEF ReachFollows, ProcessesAreKnown, StatusIsTheRuns, ReachTypes
  <2>4. Shell!Reach!TunnelEndsWithListener
    BY <2>1
    DEF ReachFollows, StopIsComing, Shell!Reach!TunnelEndsWithListener, Shell!Reach!AtRest,
        Shell!Reach!Active, Shell!Reach!Callers, TCallers
  <2> QED
    BY <2>2, <2>3, <2>4
<1> QED
  BY <1>1, <1>2, <1>3
  DEF Shell!Reach!TunnelIsBounded, Shell!Reach!AnswersOnlyWhileUp, Shell!Reach!OffMeansGone,
      Shell!Reach!TunnelEndsWithListener

ReachParts == <<tunnel, cancelled, callers, named, listening, allowed, happened>>

\* A step of the run r that neither reaches nor leaves a callback.
RunMoves(r, to) ==
  /\ attempts[r].at \notin {"raising", "lowering", "done"}
  /\ to \in {"asked", "connected", "failing", "done"} \cup Early
  /\ to = "asked" => attempts[r].at = "unborn"
  /\ to \in Live => attempts[r].at \in Live
  /\ to \in Early => attempts[r].at \in Early
  /\ attempts' = [attempts EXCEPT ![r] =
                    IF to = "done" THEN [at |-> "done", host |-> Nil, final |-> FALSE]
                    ELSE [@ EXCEPT !.at = to]]
  /\ alive' \subseteq alive \cup {r}
  /\ r \in alive' => /\ to \in {"spawned", "waiting", "connected"}
                     /\ r \in alive \/ r \notin cancelled

\* A run that takes its next step within what it holds keeps the invariant.
LEMMA ReachRunMoves ==
  ASSUME ReachInv, NEW r \in TRuns, NEW to, RunMoves(r, to), UNCHANGED ReachParts
  PROVE  ReachInv'
<1>0. /\ ReachTypes /\ GoodbyesAreMeant /\ RunsHaveHosts
      /\ ~happened.overtaken => ReachFollows
  BY DEF ReachInv
<1>u. UNCHANGED <<tunnel, cancelled, callers, named, listening, allowed, happened>>
  BY DEF ReachParts
<1> DEFINE e == IF to = "done" THEN [at |-> "done", host |-> Nil, final |-> FALSE]
                ELSE [attempts[r] EXCEPT !.at = to]
<1>1. /\ e.at = to /\ e.host \in {attempts[r].host, Nil}
      /\ to # "done" => e.host = attempts[r].host
      /\ e \in [at : Live \cup {"unborn", "asked", "lowering", "done"},
                host : THosts \cup {Nil}, final : BOOLEAN]
  BY <1>0 DEF ReachTypes, RunMoves, Live
<1>2. attempts' = [attempts EXCEPT ![r] = e]
  BY DEF RunMoves
<1> HIDE DEF e
<1>3. /\ \A q \in TRuns : attempts'[q] = IF q = r THEN e ELSE attempts[q]
      /\ attempts' \in [TRuns -> [at : Live \cup {"unborn", "asked", "lowering", "done"},
                                  host : THosts \cup {Nil}, final : BOOLEAN]]
  BY <1>0, <1>1, <1>2 DEF ReachTypes
<1>4. ReachTypes'
  BY <1>0, <1>u, <1>3 DEF ReachTypes, RunMoves
<1>5. GoodbyesAreMeant'
  BY <1>0, <1>u, <1>1, <1>3, ReachConstants DEF ReachTypes, GoodbyesAreMeant, RunMoves, Early
<1>7. RunsHaveHosts'
  <2>1. \A q \in TRuns : attempts'[q].at \in Live => attempts'[q].host # Nil
    BY <1>0, <1>1, <1>3 DEF RunsHaveHosts, RunMoves, Live, Early
  <2>2. ASSUME NEW q \in alive'
        PROVE  attempts'[q].at \in {"spawned", "waiting", "raising", "connected"}
    BY <1>0, <1>1, <1>3, <2>2 DEF RunsHaveHosts, RunMoves, ReachTypes
  <2> QED
    BY <2>1, <2>2 DEF RunsHaveHosts
<1>6. ASSUME ~happened.overtaken PROVE ReachFollows'
  <2>0. ReachFollows /\ tunnel.gen \in TRuns \cup {Nil} /\ tunnel.held \in TRuns \cup {Nil}
    BY <1>0, <1>6 DEF ReachTypes
  <2>1. StatusIsTheRuns'
    BY <1>u, <1>1, <1>3, <2>0 DEF ReachFollows, StatusIsTheRuns, RunMoves, Early
  <2>2. RunsAreHeld'
    BY <1>u, <1>1, <1>3, <2>0 DEF ReachFollows, RunsAreHeld, RunMoves, Early, Live
  <2>3. ProcessesAreKnown'
    <3>1. ASSUME NEW q \in alive', q # r
          PROVE  q \in happened'.unending \/ tunnel'.held = q
      <4>1. q \in alive /\ q \in TRuns
        BY <1>0, <3>1 DEF RunMoves, ReachTypes
      <4> QED
        BY <1>u, <1>3, <2>0, <3>1, <4>1 DEF ReachFollows, ProcessesAreKnown
    <3>2. ASSUME r \in alive'
          PROVE  r \in happened'.unending \/ tunnel'.held = r
      <4>1. attempts'[r].at = to /\ to \in {"spawned", "waiting", "connected"}
        BY <1>1, <1>3, <3>2 DEF RunMoves
      <4>2. CASE r \in alive
        BY <1>u, <2>0, <4>1, <4>2 DEF ReachFollows, ProcessesAreKnown
      <4>3. CASE r \notin cancelled
        <5>1. attempts[r].at \in Live
          BY <4>1 DEF RunMoves, Live, Early
        <5>2. tunnel.gen = r
          BY <2>0, <4>3, <5>1 DEF ReachFollows, RunsAreHeld
        <5> QED
          BY <1>u, <2>0, <4>1, <5>2, ReachConstants DEF ReachFollows, StatusIsTheRuns
      <4> QED
        BY <3>2, <4>2, <4>3 DEF RunMoves
    <3> QED
      BY <3>1, <3>2 DEF ProcessesAreKnown
  <2>4. StopsKnowTheirRun'
    <3>1. \A c \in TCallers : callers[c].at = "stopping" => callers[c].held \in TRuns
      BY <1>0, <2>0 DEF ReachTypes, ReachFollows, StopsKnowTheirRun
    <3> QED
      BY <1>u, <1>1, <1>3, <2>0, <3>1 DEF ReachFollows, StopsKnowTheirRun, RunMoves, Early
  <2>5. AllowedIsUp'
    BY <1>u, <1>3, <2>0
    DEF ReachFollows, AllowedIsUp, RunMoves, Shell!Reach!BeingLowered, Shell!Reach!Runs, TRuns
  <2>6. StopIsComing'
    BY <1>u, <2>0 DEF ReachFollows, StopIsComing
  <2> QED
    BY <2>1, <2>2, <2>3, <2>4, <2>5, <2>6 DEF ReachFollows
<1> QED
  BY <1>u, <1>4, <1>5, <1>6, <1>7 DEF ReachInv

\* TunnelService.Start takes the place of the run before.
LEMMA ReachStarts ==
  ASSUME ReachInv, NEW r \in TRuns, Shell!Reach!Start(r)
  PROVE  ReachInv'
<1>0. /\ ReachTypes /\ GoodbyesAreMeant /\ RunsHaveHosts
      /\ ~happened.overtaken => ReachFollows
  BY DEF ReachInv
<1> DEFINE h == IF named = Nil THEN r ELSE named
<1>1. /\ tunnel.status \notin {"starting", "running"} /\ attempts[r].at = "asked"
      /\ attempts' = [attempts EXCEPT ![r] = [@ EXCEPT !.at = "preparing", !.host = h]]
      /\ tunnel' = [gen |-> r, held |-> r, host |-> Nil, final |-> named = Nil,
                    status |-> "starting"]
      /\ happened' = [happened EXCEPT !.blind = @ \/ ~listening]
      /\ UNCHANGED <<alive, cancelled, callers, named, listening, allowed>>
  BY <1>0 DEF Shell!Reach!Start, Shell!Reach!Active, ReachTypes
<1>2. h \in THosts /\ h # Nil /\ (named = Nil => h \notin Hostnames)
  BY <1>0, ReachConstants DEF ReachTypes, THosts
<1> HIDE DEF h
<1>3. /\ attempts' \in [TRuns -> [at : Live \cup {"unborn", "asked", "lowering", "done"},
                                  host : THosts \cup {Nil}, final : BOOLEAN]]
      /\ \A q \in TRuns : q # r => attempts'[q] = attempts[q]
      /\ attempts'[r].at = "preparing" /\ attempts'[r].host = h
  BY <1>0, <1>1, <1>2 DEF ReachTypes, Live, Early
<1>4. /\ tunnel'.gen = r /\ tunnel'.held = r /\ tunnel'.host = Nil
      /\ (tunnel'.final <=> named = Nil) /\ tunnel'.status = "starting"
      /\ tunnel' \in [gen : TRuns \cup {Nil}, held : TRuns \cup {Nil},
                      host : THosts \cup {Nil}, final : BOOLEAN,
                      status : {"starting", "running", "off", "failed"}]
  BY <1>1
<1>5. /\ happened' \in [overtaken : BOOLEAN, blind : BOOLEAN, unending : SUBSET TRuns,
                        replaced : SUBSET Hostnames, forgotten : SUBSET Hostnames]
      /\ happened'.unending = happened.unending /\ happened'.replaced = happened.replaced
      /\ happened'.forgotten = happened.forgotten
      /\ (happened'.overtaken <=> happened.overtaken)
      /\ (happened'.blind <=> happened.blind \/ ~listening)
  BY <1>0, <1>1 DEF ReachTypes
<1>6. ReachTypes'
  BY <1>0, <1>1, <1>3, <1>4, <1>5 DEF ReachTypes
<1>7. GoodbyesAreMeant'
  BY <1>0, <1>1, <1>2, <1>3, <1>4, <1>5, ReachConstants DEF GoodbyesAreMeant
<1>9. RunsHaveHosts'
  BY <1>0, <1>1, <1>2, <1>3 DEF RunsHaveHosts, ReachTypes
<1>8. ASSUME ~happened.overtaken PROVE ReachFollows'
  <2>0. ReachFollows /\ tunnel.gen \in TRuns \cup {Nil} /\ tunnel.held \in TRuns \cup {Nil}
        /\ tunnel.status \in {"off", "failed"}
    BY <1>0, <1>1, <1>8 DEF ReachTypes
  <2>1. tunnel.held # Nil => attempts[tunnel.held].at \in {"lowering", "done"}
    BY <2>0 DEF ReachFollows, StatusIsTheRuns
  <2>2. StatusIsTheRuns'
    BY <1>3, <1>4, ReachConstants DEF StatusIsTheRuns
  <2>3. RunsAreHeld'
    <3>1. \A q \in TRuns : attempts[q].at \in Live => q \in cancelled
      BY <2>0, <2>1, ReachConstants
      DEF ReachFollows, StatusIsTheRuns, RunsAreHeld, Live, Early
    <3>2. \A q \in TRuns : attempts[q].at # "raising"
      BY <2>0, <2>1, ReachConstants DEF ReachFollows, RunsAreHeld
    <3> QED
      BY <1>1, <1>3, <1>4, <2>0, <3>1, <3>2 DEF ReachFollows, RunsAreHeld
  <2>4. ProcessesAreKnown'
    <3>1. \A q \in alive : q # r /\ tunnel.held # q /\ q \in TRuns
      BY <1>0, <1>1, <2>0, <2>1, ReachConstants
      DEF RunsHaveHosts, ReachTypes
    <3> QED
      BY <1>1, <1>3, <1>5, <2>0, <3>1 DEF ReachFollows, ProcessesAreKnown
  <2>5. StopsKnowTheirRun'
    <3>1. \A c \in TCallers : callers[c].at = "stopping" =>
            callers[c].held \in TRuns /\ callers[c].held # r
      BY <1>0, <1>1, <2>0 DEF ReachTypes, ReachFollows, StopsKnowTheirRun
    <3> QED
      BY <1>1, <1>3, <1>4, <2>0, <3>1 DEF ReachFollows, StopsKnowTheirRun
  <2>6. AllowedIsUp'
    <3>1. \A host \in allowed : Shell!Reach!BeingLowered(host)
      BY <1>0, <2>0, ReachConstants
      DEF ReachFollows, AllowedIsUp, StatusIsTheRuns, ReachTypes, THosts
    <3> QED
      BY <1>1, <1>3, <3>1 DEF AllowedIsUp, Shell!Reach!BeingLowered, Shell!Reach!Runs, TRuns
  <2>7. StopIsComing'
    BY <1>1, <1>5 DEF StopIsComing
  <2> QED
    BY <2>2, <2>3, <2>4, <2>5, <2>6, <2>7 DEF ReachFollows
<1> QED
  BY <1>5, <1>6, <1>7, <1>8, <1>9 DEF ReachInv

\* The host of the run that may report comes up.
LEMMA ReachComesUp ==
  ASSUME ReachInv, NEW r \in TRuns, Shell!Reach!up(r), tunnel.gen = r
  PROVE  ReachInv'
<1>0. /\ ReachTypes /\ GoodbyesAreMeant /\ RunsHaveHosts
      /\ ~happened.overtaken => ReachFollows
  BY DEF ReachInv
<1>1. /\ attempts[r].at = "waiting"
      /\ attempts' = [attempts EXCEPT ![r] = [@ EXCEPT !.at = "raising"]]
      /\ tunnel' = [tunnel EXCEPT !.host = attempts[r].host, !.status = "running"]
      /\ UNCHANGED <<alive, cancelled, callers, named, listening, allowed, happened>>
  BY <1>0 DEF Shell!Reach!up, Shell!Reach!Goes, Shell!Reach!Current, ReachTypes
<1>2. attempts[r] \in [at : Live \cup {"unborn", "asked", "lowering", "done"},
                       host : THosts \cup {Nil}, final : BOOLEAN]
  BY <1>0 DEF ReachTypes
<1>3. /\ attempts' \in [TRuns -> [at : Live \cup {"unborn", "asked", "lowering", "done"},
                                  host : THosts \cup {Nil}, final : BOOLEAN]]
      /\ \A q \in TRuns : q # r => attempts'[q] = attempts[q]
      /\ attempts'[r].at = "raising" /\ attempts'[r].host = attempts[r].host
  BY <1>0, <1>1, <1>2 DEF ReachTypes, Live, Early
<1>4. /\ tunnel'.gen = r /\ tunnel'.held = tunnel.held /\ tunnel'.host = attempts[r].host
      /\ tunnel'.status = "running" /\ (tunnel'.final <=> tunnel.final)
      /\ tunnel' \in [gen : TRuns \cup {Nil}, held : TRuns \cup {Nil},
                      host : THosts \cup {Nil}, final : BOOLEAN,
                      status : {"starting", "running", "off", "failed"}]
  BY <1>0, <1>1, <1>2 DEF ReachTypes
<1>5. ReachTypes'
  BY <1>0, <1>1, <1>3, <1>4 DEF ReachTypes
<1>6. GoodbyesAreMeant'
  BY <1>0, <1>1, <1>3, <1>4, ReachConstants DEF GoodbyesAreMeant
<1>8. RunsHaveHosts'
  BY <1>0, <1>1, <1>3 DEF RunsHaveHosts, ReachTypes, Live, Early
<1>7. ASSUME ~happened.overtaken PROVE ReachFollows'
  <2>0. ReachFollows /\ r # Nil
    BY <1>0, <1>7, ReachConstants
  <2>1. /\ attempts[r].host # Nil /\ tunnel.held = r /\ tunnel.status = "starting"
        /\ tunnel.host = Nil
    BY <1>0, <1>1, <2>0 DEF ReachFollows, StatusIsTheRuns, RunsHaveHosts, RunsAreHeld, Live, Early
  <2>2. StatusIsTheRuns'
    BY <1>3, <1>4, <2>0, <2>1 DEF StatusIsTheRuns, Early
  <2>3. RunsAreHeld'
    BY <1>1, <1>3, <1>4, <2>0, <2>1 DEF ReachFollows, RunsAreHeld
  <2>4. ProcessesAreKnown'
    <3>1. alive \subseteq TRuns
      BY <1>0 DEF ReachTypes
    <3> QED
      BY <1>1, <1>3, <1>4, <2>0, <3>1 DEF ReachFollows, ProcessesAreKnown
  <2>5. StopsKnowTheirRun'
    <3>1. \A c \in TCallers : callers[c].at = "stopping" => callers[c].held \in TRuns
      BY <1>0, <2>0 DEF ReachTypes, ReachFollows, StopsKnowTheirRun
    <3> QED
      BY <1>1, <1>3, <1>4, <2>0, <3>1 DEF ReachFollows, StopsKnowTheirRun
  <2>6. AllowedIsUp'
    <3>1. \A host \in allowed : Shell!Reach!BeingLowered(host)
      BY <1>0, <2>0, <2>1, ReachConstants
      DEF ReachFollows, AllowedIsUp, ReachTypes, THosts
    <3> QED
      BY <1>1, <1>3, <3>1 DEF AllowedIsUp, Shell!Reach!BeingLowered, Shell!Reach!Runs, TRuns
  <2>7. StopIsComing'
    BY <1>1, <1>4, <2>0, <2>1 DEF ReachFollows, StopIsComing
  <2> QED
    BY <2>2, <2>3, <2>4, <2>5, <2>6, <2>7 DEF ReachFollows
<1> QED
  BY <1>1, <1>5, <1>6, <1>7, <1>8 DEF ReachInv

\* The listener begins to answer to the host that came up.
LEMMA ReachRaises ==
  ASSUME ReachInv, NEW r \in TRuns, Shell!Reach!Raises(r)
  PROVE  ReachInv'
<1>0. /\ ReachTypes /\ GoodbyesAreMeant /\ RunsHaveHosts
      /\ ~happened.overtaken => ReachFollows
  BY DEF ReachInv
<1>1. /\ attempts[r].at = "raising"
      /\ attempts' = [attempts EXCEPT ![r] = [@ EXCEPT !.at = "connected"]]
      /\ allowed' = allowed \cup {attempts[r].host}
      /\ UNCHANGED <<tunnel, alive, cancelled, callers, named, listening, happened>>
  BY <1>0 DEF Shell!Reach!Raises, Shell!Reach!Goes, ReachTypes
<1>2. attempts[r] \in [at : Live \cup {"unborn", "asked", "lowering", "done"},
                       host : THosts \cup {Nil}, final : BOOLEAN]
  BY <1>0 DEF ReachTypes
<1>3. /\ attempts' \in [TRuns -> [at : Live \cup {"unborn", "asked", "lowering", "done"},
                                  host : THosts \cup {Nil}, final : BOOLEAN]]
      /\ \A q \in TRuns : q # r => attempts'[q] = attempts[q]
      /\ attempts'[r].at = "connected" /\ attempts'[r].host = attempts[r].host
  BY <1>0, <1>1, <1>2 DEF ReachTypes, Live, Early
<1>4. attempts[r].host \in THosts
  BY <1>0, <1>1, <1>2 DEF RunsHaveHosts, Live
<1>5. ReachTypes'
  BY <1>0, <1>1, <1>3, <1>4 DEF ReachTypes
<1>6. GoodbyesAreMeant'
  BY <1>0, <1>1, <1>3 DEF ReachTypes, GoodbyesAreMeant
<1>7. RunsHaveHosts'
  BY <1>0, <1>1, <1>3 DEF RunsHaveHosts, ReachTypes, Live
<1>8. ASSUME ~happened.overtaken PROVE ReachFollows'
  <2>0. ReachFollows /\ tunnel.gen \in TRuns \cup {Nil} /\ tunnel.held \in TRuns \cup {Nil}
    BY <1>0, <1>8 DEF ReachTypes
  <2>1. tunnel.held = r /\ tunnel.host = attempts[r].host
    BY <1>1, <2>0 DEF ReachFollows, RunsAreHeld
  <2>2. StatusIsTheRuns'
    <3>1. tunnel.status # "failed"
      BY <1>1, <2>0, <2>1 DEF ReachFollows, StatusIsTheRuns
    <3> QED
      BY <1>1, <1>3, <2>0, <2>1, <3>1 DEF ReachFollows, StatusIsTheRuns, Early
  <2>3. RunsAreHeld'
    BY <1>1, <1>3, <2>0 DEF ReachFollows, RunsAreHeld, Live
  <2>4. ProcessesAreKnown'
    <3>1. alive \subseteq TRuns
      BY <1>0 DEF ReachTypes
    <3> QED
      BY <1>1, <1>3, <2>0, <3>1 DEF ReachFollows, ProcessesAreKnown
  <2>5. StopsKnowTheirRun'
    <3>1. \A c \in TCallers : callers[c].at = "stopping" => callers[c].held \in TRuns
      BY <1>0, <2>0 DEF ReachTypes, ReachFollows, StopsKnowTheirRun
    <3> QED
      BY <1>1, <1>3, <2>0, <3>1 DEF ReachFollows, StopsKnowTheirRun
  <2>6. AllowedIsUp'
    BY <1>1, <1>3, <2>0, <2>1
    DEF ReachFollows, AllowedIsUp, Shell!Reach!BeingLowered, Shell!Reach!Runs, TRuns
  <2>7. StopIsComing'
    BY <1>1, <2>0 DEF ReachFollows, StopIsComing
  <2> QED
    BY <2>2, <2>3, <2>4, <2>5, <2>6, <2>7 DEF ReachFollows
<1> QED
  BY <1>1, <1>5, <1>6, <1>7, <1>8 DEF ReachInv

\* The run that may report fails, and its host is to be lowered.
LEMMA ReachFails ==
  ASSUME ReachInv, NEW r \in TRuns, Shell!Reach!fail(r), tunnel.gen = r
  PROVE  ReachInv'
<1>0. /\ ReachTypes /\ GoodbyesAreMeant /\ RunsHaveHosts
      /\ ~happened.overtaken => ReachFollows
  BY DEF ReachInv
<1> DEFINE e == IF tunnel.host # Nil
                THEN [at |-> "lowering", host |-> tunnel.host, final |-> tunnel.final]
                ELSE [at |-> "done", host |-> Nil, final |-> FALSE]
<1>1. /\ attempts[r].at = "failing"
      /\ attempts' = [attempts EXCEPT ![r] = e]
      /\ tunnel' = [tunnel EXCEPT !.host = Nil, !.status = "failed"]
      /\ UNCHANGED <<alive, cancelled, callers, named, listening, allowed, happened>>
  BY DEF Shell!Reach!fail, Shell!Reach!Current, Shell!Reach!Over
<1>2. /\ e \in [at : Live \cup {"unborn", "asked", "lowering", "done"},
                host : THosts \cup {Nil}, final : BOOLEAN]
      /\ e.at \in {"lowering", "done"}
      /\ e.at = "lowering" => e.host = tunnel.host /\ (e.final <=> tunnel.final)
      /\ e.at = "done" => tunnel.host = Nil
      /\ e.host = tunnel.host
  BY <1>0 DEF ReachTypes
<1> HIDE DEF e
<1>3. /\ attempts' \in [TRuns -> [at : Live \cup {"unborn", "asked", "lowering", "done"},
                                  host : THosts \cup {Nil}, final : BOOLEAN]]
      /\ \A q \in TRuns : q # r => attempts'[q] = attempts[q]
      /\ attempts'[r] = e
  BY <1>0, <1>1, <1>2 DEF ReachTypes
<1>4. /\ tunnel'.gen = r /\ tunnel'.held = tunnel.held /\ tunnel'.host = Nil
      /\ tunnel'.status = "failed" /\ (tunnel'.final <=> tunnel.final)
      /\ tunnel' \in [gen : TRuns \cup {Nil}, held : TRuns \cup {Nil},
                      host : THosts \cup {Nil}, final : BOOLEAN,
                      status : {"starting", "running", "off", "failed"}]
  BY <1>0, <1>1 DEF ReachTypes
<1>5. ReachTypes'
  BY <1>0, <1>1, <1>3, <1>4 DEF ReachTypes
<1>6. GoodbyesAreMeant'
  BY <1>0, <1>1, <1>2, <1>3, <1>4, ReachConstants DEF GoodbyesAreMeant
<1>7. RunsHaveHosts'
  BY <1>0, <1>1, <1>2, <1>3 DEF RunsHaveHosts, ReachTypes, Live, Early
<1>8. ASSUME ~happened.overtaken PROVE ReachFollows'
  <2>0. ReachFollows /\ r # Nil
    BY <1>0, <1>8, ReachConstants
  <2>1. tunnel.held = r
    BY <2>0 DEF ReachFollows, StatusIsTheRuns
  <2>2. StatusIsTheRuns'
    BY <1>2, <1>3, <1>4, <2>0, <2>1 DEF StatusIsTheRuns, Early
  <2>3. RunsAreHeld'
    BY <1>1, <1>2, <1>3, <1>4, <2>0, <2>1 DEF ReachFollows, RunsAreHeld, Live, Early
  <2>4. ProcessesAreKnown'
    <3>1. alive \subseteq TRuns /\ r \notin alive
      BY <1>0, <1>1, <2>0 DEF ReachTypes, RunsHaveHosts
    <3> QED
      BY <1>1, <1>3, <1>4, <2>0, <3>1 DEF ReachFollows, ProcessesAreKnown
  <2>5. StopsKnowTheirRun'
    <3>1. \A c \in TCallers : callers[c].at = "stopping" => callers[c].held \in TRuns
      BY <1>0, <2>0 DEF ReachTypes, ReachFollows, StopsKnowTheirRun
    <3> QED
      BY <1>1, <1>2, <1>3, <1>4, <2>0, <3>1 DEF ReachFollows, StopsKnowTheirRun
  <2>6. AllowedIsUp'
    <3>1. ASSUME NEW host \in allowed PROVE Shell!Reach!BeingLowered(host)'
      <4>1. host # Nil
        BY <1>0, ReachConstants DEF ReachTypes, THosts
      <4>2. CASE tunnel.host = host
        BY <1>2, <1>3, <4>1, <4>2 DEF Shell!Reach!BeingLowered, Shell!Reach!Runs, TRuns
      <4>3. CASE Shell!Reach!BeingLowered(host)
        BY <1>1, <1>3, <4>3 DEF Shell!Reach!BeingLowered, Shell!Reach!Runs, TRuns
      <4> QED
        BY <2>0, <4>2, <4>3 DEF ReachFollows, AllowedIsUp
    <3> QED
      BY <1>1, <3>1 DEF AllowedIsUp
  <2>7. StopIsComing'
    BY <1>4 DEF StopIsComing
  <2> QED
    BY <2>2, <2>3, <2>4, <2>5, <2>6, <2>7 DEF ReachFollows
<1> QED
  BY <1>1, <1>5, <1>6, <1>7, <1>8 DEF ReachInv

\* A callback that lowers a host takes it from the listener.
LEMMA ReachLowers ==
  ASSUME ReachInv, NEW host \in THosts \cup {Nil}, NEW final \in BOOLEAN,
         allowed' = allowed \ {host},
         happened' = IF final
                     THEN [happened EXCEPT !.forgotten = @ \cup ({host} \cap Hostnames)]
                     ELSE happened,
         final /\ host \in Hostnames => host \in happened.replaced
  PROVE  /\ allowed' \subseteq THosts
         /\ happened' \in [overtaken : BOOLEAN, blind : BOOLEAN, unending : SUBSET TRuns,
                           replaced : SUBSET Hostnames, forgotten : SUBSET Hostnames]
         /\ happened'.unending = happened.unending /\ happened'.replaced = happened.replaced
         /\ happened'.forgotten \subseteq happened'.replaced
         /\ (happened'.overtaken <=> happened.overtaken)
         /\ (happened'.blind <=> happened.blind)
BY DEF ReachInv, ReachTypes, GoodbyesAreMeant

\* A run that fails lets its host go unless another holds it.
LEMMA ReachFailLowers ==
  ASSUME ReachInv, NEW r \in TRuns, Shell!Reach!FailLowers(r)
  PROVE  ReachInv'
<1>0. /\ ReachTypes /\ GoodbyesAreMeant /\ RunsHaveHosts
      /\ ~happened.overtaken => ReachFollows
  BY DEF ReachInv
<1>1. /\ attempts[r].at = "lowering"
      /\ attempts' = [attempts EXCEPT ![r] = [at |-> "done", host |-> Nil, final |-> FALSE]]
      /\ allowed' = allowed \ {attempts[r].host}
      /\ happened' = IF attempts[r].final
                     THEN [happened EXCEPT !.forgotten = @ \cup ({attempts[r].host} \cap Hostnames)]
                     ELSE happened
      /\ UNCHANGED <<tunnel, alive, cancelled, callers, named, listening>>
  BY DEF Shell!Reach!FailLowers, Shell!Reach!Goes, Shell!Reach!Lowers, Shell!Reach!Over
<1>2. /\ attempts' \in [TRuns -> [at : Live \cup {"unborn", "asked", "lowering", "done"},
                                  host : THosts \cup {Nil}, final : BOOLEAN]]
      /\ \A q \in TRuns : q # r => attempts'[q] = attempts[q]
      /\ attempts'[r].at = "done" /\ attempts'[r].host = Nil
  BY <1>0, <1>1 DEF ReachTypes
<1>3. /\ attempts[r].host \in THosts \cup {Nil} /\ attempts[r].final \in BOOLEAN
      /\ ~ (attempts[r].final /\ attempts[r].host \in Hostnames)
  BY <1>0, <1>1 DEF ReachTypes, GoodbyesAreMeant
<1>4. /\ allowed' \subseteq THosts
      /\ happened' \in [overtaken : BOOLEAN, blind : BOOLEAN, unending : SUBSET TRuns,
                        replaced : SUBSET Hostnames, forgotten : SUBSET Hostnames]
      /\ happened'.unending = happened.unending /\ happened'.replaced = happened.replaced
      /\ happened'.forgotten \subseteq happened'.replaced
      /\ (happened'.overtaken <=> happened.overtaken)
      /\ (happened'.blind <=> happened.blind)
  BY <1>1, <1>3, ReachLowers
<1>5. ReachTypes'
  BY <1>0, <1>1, <1>2, <1>4 DEF ReachTypes
<1>6. GoodbyesAreMeant'
  BY <1>0, <1>1, <1>2, <1>4, ReachConstants DEF ReachTypes, GoodbyesAreMeant
<1>7. RunsHaveHosts'
  BY <1>0, <1>1, <1>2 DEF RunsHaveHosts, ReachTypes, Live, Early
<1>8. ASSUME ~happened.overtaken PROVE ReachFollows'
  <2>0. ReachFollows /\ tunnel.gen \in TRuns \cup {Nil} /\ tunnel.held \in TRuns \cup {Nil}
    BY <1>0, <1>8 DEF ReachTypes
  <2>2. StatusIsTheRuns'
    BY <1>1, <1>2, <2>0 DEF ReachFollows, StatusIsTheRuns, Early
  <2>3. RunsAreHeld'
    BY <1>1, <1>2, <2>0 DEF ReachFollows, RunsAreHeld, Live, Early
  <2>4. ProcessesAreKnown'
    <3>1. alive \subseteq TRuns /\ r \notin alive
      BY <1>0, <1>1, <2>0 DEF ReachTypes, RunsHaveHosts
    <3> QED
      BY <1>1, <1>2, <1>4, <2>0, <3>1 DEF ReachFollows, ProcessesAreKnown
  <2>5. StopsKnowTheirRun'
    <3>1. \A c \in TCallers : callers[c].at = "stopping" => callers[c].held \in TRuns
      BY <1>0, <2>0 DEF ReachTypes, ReachFollows, StopsKnowTheirRun
    <3> QED
      BY <1>1, <1>2, <2>0, <3>1 DEF ReachFollows, StopsKnowTheirRun
  <2>6. AllowedIsUp'
    BY <1>1, <1>2, <2>0
    DEF ReachFollows, AllowedIsUp, Shell!Reach!BeingLowered, Shell!Reach!Runs, TRuns
  <2>7. StopIsComing'
    BY <1>1, <1>4, <2>0 DEF ReachFollows, StopIsComing
  <2> QED
    BY <2>2, <2>3, <2>4, <2>5, <2>6, <2>7 DEF ReachFollows
<1> QED
  BY <1>4, <1>5, <1>6, <1>7, <1>8 DEF ReachInv

\* So does a call that stops a run.
LEMMA ReachCallerLowers ==
  ASSUME ReachInv, NEW c \in TCallers, Shell!Reach!CallerLowers(c)
  PROVE  ReachInv'
<1>0. /\ ReachTypes /\ GoodbyesAreMeant /\ RunsHaveHosts
      /\ ~happened.overtaken => ReachFollows
  BY DEF ReachInv
<1>1. /\ callers[c].at = "lowering"
      /\ callers' = [callers EXCEPT ![c] = [at |-> "idle", held |-> Nil, host |-> Nil,
                                            final |-> FALSE]]
      /\ allowed' = allowed \ {callers[c].host}
      /\ happened' = IF callers[c].final
                     THEN [happened EXCEPT !.forgotten = @ \cup ({callers[c].host} \cap Hostnames)]
                     ELSE happened
      /\ UNCHANGED <<tunnel, attempts, alive, cancelled, named, listening>>
  BY DEF Shell!Reach!CallerLowers, Shell!Reach!Lowers, Shell!Reach!Free
<1>2. /\ callers' \in [TCallers -> [at : {"idle", "changed", "stopping", "lowering"},
                                    held : TRuns \cup {Nil},
                                    host : THosts \cup {Nil}, final : BOOLEAN]]
      /\ \A d \in TCallers : d # c => callers'[d] = callers[d]
      /\ callers'[c].at = "idle"
  BY <1>0, <1>1 DEF ReachTypes
<1>3. /\ callers[c].host \in THosts \cup {Nil} /\ callers[c].final \in BOOLEAN
      /\ (callers[c].final /\ callers[c].host \in Hostnames
            => callers[c].host \in happened.replaced)
  BY <1>0, <1>1 DEF ReachTypes, GoodbyesAreMeant
<1>4. /\ allowed' \subseteq THosts
      /\ happened' \in [overtaken : BOOLEAN, blind : BOOLEAN, unending : SUBSET TRuns,
                        replaced : SUBSET Hostnames, forgotten : SUBSET Hostnames]
      /\ happened'.unending = happened.unending /\ happened'.replaced = happened.replaced
      /\ happened'.forgotten \subseteq happened'.replaced
      /\ (happened'.overtaken <=> happened.overtaken)
      /\ (happened'.blind <=> happened.blind)
  BY <1>1, <1>3, ReachLowers
<1>5. ReachTypes'
  BY <1>0, <1>1, <1>2, <1>4 DEF ReachTypes
<1>6. GoodbyesAreMeant'
  BY <1>0, <1>1, <1>2, <1>4 DEF GoodbyesAreMeant
<1>7. RunsHaveHosts'
  BY <1>0, <1>1 DEF RunsHaveHosts
<1>8. ASSUME ~happened.overtaken PROVE ReachFollows'
  <2>0. ReachFollows
    BY <1>0, <1>8
  <2>2. StatusIsTheRuns' /\ RunsAreHeld' /\ ProcessesAreKnown'
    BY <1>1, <1>4, <2>0 DEF ReachFollows, StatusIsTheRuns, RunsAreHeld, ProcessesAreKnown
  <2>5. StopsKnowTheirRun'
    BY <1>1, <1>2, <2>0 DEF ReachFollows, StopsKnowTheirRun
  <2>6. AllowedIsUp'
    <3>1. ASSUME NEW host \in allowed'
          PROVE  tunnel'.host = host \/ Shell!Reach!BeingLowered(host)'
      <4>1. host # callers[c].host /\ host \in allowed
        BY <1>1, <3>1
      <4>2. CASE tunnel.host = host
        BY <1>1, <4>2
      <4>3. CASE Shell!Reach!BeingLowered(host)
        BY <1>1, <1>2, <4>1, <4>3
        DEF Shell!Reach!BeingLowered, Shell!Reach!Callers, TCallers
      <4> QED
        BY <2>0, <4>1, <4>2, <4>3 DEF ReachFollows, AllowedIsUp
    <3> QED
      BY <3>1 DEF AllowedIsUp
  <2>7. StopIsComing'
    BY <1>1, <1>2, <1>4, <2>0 DEF ReachFollows, StopIsComing
  <2> QED
    BY <2>2, <2>5, <2>6, <2>7 DEF ReachFollows
<1> QED
  BY <1>4, <1>5, <1>6, <1>7, <1>8 DEF ReachInv

\* A Stop moves the run on, cancels it and begins to wait for it.
LEMMA ReachStopBegins ==
  ASSUME ReachInv, NEW c \in TCallers, callers[c].at \in {"idle", "changed"},
         ~ (tunnel.held = Nil /\ tunnel.status = "off"),
         callers' = [callers EXCEPT ![c] = [@ EXCEPT !.at = "stopping", !.held = tunnel.held]],
         tunnel' = [tunnel EXCEPT !.gen = Nil],
         cancelled' = (cancelled \cup {tunnel.held}) \ {Nil},
         UNCHANGED <<attempts, alive, named, listening, allowed, happened>>
  PROVE  ReachInv'
<1>0. /\ ReachTypes /\ GoodbyesAreMeant /\ RunsHaveHosts
      /\ ~happened.overtaken => ReachFollows
  BY DEF ReachInv
<1>1. /\ tunnel \in [gen : TRuns \cup {Nil}, held : TRuns \cup {Nil},
                     host : THosts \cup {Nil}, final : BOOLEAN,
                     status : {"starting", "running", "off", "failed"}]
      /\ callers[c] \in [at : {"idle", "changed", "stopping", "lowering"},
                         held : TRuns \cup {Nil},
                         host : THosts \cup {Nil}, final : BOOLEAN]
      /\ tunnel.held \in TRuns \cup {Nil}
  BY <1>0 DEF ReachTypes
<1>2. /\ callers' \in [TCallers -> [at : {"idle", "changed", "stopping", "lowering"},
                                    held : TRuns \cup {Nil},
                                    host : THosts \cup {Nil}, final : BOOLEAN]]
      /\ \A d \in TCallers : d # c => callers'[d] = callers[d]
      /\ callers'[c].at = "stopping" /\ callers'[c].held = tunnel.held
  BY <1>0, <1>1 DEF ReachTypes
<1>3. /\ tunnel'.gen = Nil /\ tunnel'.held = tunnel.held /\ tunnel'.host = tunnel.host
      /\ tunnel'.status = tunnel.status /\ (tunnel'.final <=> tunnel.final)
      /\ tunnel' \in [gen : TRuns \cup {Nil}, held : TRuns \cup {Nil},
                      host : THosts \cup {Nil}, final : BOOLEAN,
                      status : {"starting", "running", "off", "failed"}]
  BY <1>1
<1>4. ReachTypes'
  BY <1>0, <1>1, <1>2, <1>3 DEF ReachTypes
<1>5. GoodbyesAreMeant'
  BY <1>0, <1>2, <1>3 DEF GoodbyesAreMeant
<1>6. RunsHaveHosts'
  BY <1>0 DEF RunsHaveHosts
<1>7. ASSUME ~happened.overtaken PROVE ReachFollows'
  <2>0. ReachFollows
    BY <1>0, <1>7
  <2>1. tunnel.held \in TRuns /\ tunnel.held # Nil
    BY <1>1, <2>0 DEF ReachFollows, StatusIsTheRuns
  <2>2. StatusIsTheRuns'
    BY <1>3, <2>0 DEF ReachFollows, StatusIsTheRuns
  <2>3. RunsAreHeld'
    <3>1. \A q \in TRuns : attempts[q].at \in Live => q \in cancelled'
      BY <2>0, <2>1, ReachConstants DEF ReachFollows, RunsAreHeld, StatusIsTheRuns
    <3> QED
      BY <1>3, <2>0, <3>1 DEF ReachFollows, RunsAreHeld
  <2>4. ProcessesAreKnown'
    BY <1>3, <2>0 DEF ReachFollows, ProcessesAreKnown
  <2>5. StopsKnowTheirRun'
    <3>1. cancelled \subseteq cancelled'
      BY <1>0, ReachConstants DEF ReachTypes
    <3> QED
      BY <1>2, <1>3, <2>0, <2>1, <3>1 DEF ReachFollows, StopsKnowTheirRun, StatusIsTheRuns
  <2>6. AllowedIsUp'
    <3>1. \A host : Shell!Reach!BeingLowered(host) => Shell!Reach!BeingLowered(host)'
      BY <1>2 DEF Shell!Reach!BeingLowered, Shell!Reach!Callers, TCallers
    <3> QED
      BY <1>3, <2>0, <3>1 DEF ReachFollows, AllowedIsUp
  <2>7. StopIsComing'
    BY <1>2, <1>3 DEF StopIsComing
  <2> QED
    BY <2>2, <2>3, <2>4, <2>5, <2>6, <2>7 DEF ReachFollows
<1> QED
  BY <1>4, <1>5, <1>6, <1>7 DEF ReachInv

\* A call of Stop ends, its run gone.
LEMMA ReachStopEnds ==
  ASSUME ReachInv, NEW c \in TCallers, Shell!Reach!StopEnds(c)
  PROVE  ReachInv'
<1>0. /\ ReachTypes /\ GoodbyesAreMeant /\ RunsHaveHosts
      /\ ~happened.overtaken => ReachFollows
  BY DEF ReachInv
<1> DEFINE hd == callers[c].held
           stuck == IF hd = Nil THEN FALSE ELSE attempts[hd].at # "done"
           e == IF tunnel.host = Nil
                THEN [at |-> "idle", held |-> Nil, host |-> Nil, final |-> FALSE]
                ELSE [at |-> "lowering", held |-> Nil, host |-> tunnel.host,
                      final |-> tunnel.final]
<1>1. /\ callers[c].at = "stopping"
      /\ stuck => hd \in alive /\ attempts[hd].at # "raising"
      /\ callers' = [callers EXCEPT ![c] = e]
      /\ tunnel' = [tunnel EXCEPT !.held = Nil, !.host = Nil, !.status = "off"]
      /\ happened' = [happened EXCEPT !.overtaken = @ \/ tunnel.held \notin {hd, Nil},
                                      !.unending = IF stuck THEN @ \cup {hd} ELSE @]
      /\ UNCHANGED <<attempts, alive, cancelled, named, listening, allowed>>
  BY DEF Shell!Reach!StopEnds, Shell!Reach!Free
<1>2. /\ tunnel \in [gen : TRuns \cup {Nil}, held : TRuns \cup {Nil},
                     host : THosts \cup {Nil}, final : BOOLEAN,
                     status : {"starting", "running", "off", "failed"}]
      /\ hd \in TRuns \cup {Nil}
      /\ happened \in [overtaken : BOOLEAN, blind : BOOLEAN, unending : SUBSET TRuns,
                       replaced : SUBSET Hostnames, forgotten : SUBSET Hostnames]
  BY <1>0 DEF ReachTypes
<1>3. /\ e \in [at : {"idle", "changed", "stopping", "lowering"}, held : TRuns \cup {Nil},
                host : THosts \cup {Nil}, final : BOOLEAN]
      /\ e.at = "lowering" => e.host = tunnel.host /\ (e.final <=> tunnel.final)
      /\ tunnel.host # Nil => e.at = "lowering"
      /\ e.at # "stopping"
  BY <1>2
<1>4. stuck => hd \in TRuns
  BY <1>2
<1> HIDE DEF e, stuck, hd
<1>5. /\ callers' \in [TCallers -> [at : {"idle", "changed", "stopping", "lowering"},
                                    held : TRuns \cup {Nil},
                                    host : THosts \cup {Nil}, final : BOOLEAN]]
      /\ \A d \in TCallers : d # c => callers'[d] = callers[d]
      /\ callers'[c] = e
  BY <1>0, <1>1, <1>3 DEF ReachTypes
<1>6. /\ tunnel'.gen = tunnel.gen /\ tunnel'.held = Nil /\ tunnel'.host = Nil
      /\ tunnel'.status = "off" /\ (tunnel'.final <=> tunnel.final)
      /\ tunnel' \in [gen : TRuns \cup {Nil}, held : TRuns \cup {Nil},
                      host : THosts \cup {Nil}, final : BOOLEAN,
                      status : {"starting", "running", "off", "failed"}]
  BY <1>1, <1>2
<1>7. /\ happened' \in [overtaken : BOOLEAN, blind : BOOLEAN, unending : SUBSET TRuns,
                        replaced : SUBSET Hostnames, forgotten : SUBSET Hostnames]
      /\ happened'.replaced = happened.replaced /\ happened'.forgotten = happened.forgotten
      /\ (happened'.overtaken <=> happened.overtaken \/ tunnel.held \notin {hd, Nil})
      /\ (happened'.blind <=> happened.blind)
      /\ happened.unending \subseteq happened'.unending
      /\ stuck => hd \in happened'.unending
  BY <1>1, <1>2, <1>4
<1>8. ReachTypes'
  BY <1>0, <1>1, <1>5, <1>6, <1>7 DEF ReachTypes
<1>9. GoodbyesAreMeant'
  BY <1>0, <1>1, <1>3, <1>5, <1>6, <1>7, ReachConstants DEF GoodbyesAreMeant
<1>10. RunsHaveHosts'
  BY <1>0, <1>1 DEF RunsHaveHosts
<1>11. ASSUME ~happened'.overtaken PROVE ReachFollows'
  <2>0. ReachFollows /\ tunnel.held \in {hd, Nil}
    BY <1>0, <1>7, <1>11
  <2>1. /\ hd \in cancelled /\ hd \in TRuns /\ hd # Nil
        /\ hd = tunnel.held => tunnel.gen = Nil
    BY <1>0, <1>1, <2>0, ReachConstants
    DEF ReachFollows, StopsKnowTheirRun, ReachTypes, hd
  <2>2. tunnel.gen = Nil
    BY <2>0, <2>1 DEF ReachFollows, StatusIsTheRuns
  <2>3. stuck <=> attempts[hd].at # "done"
    BY <2>1 DEF stuck
  <2>4. StatusIsTheRuns'
    BY <1>6, <2>2 DEF StatusIsTheRuns
  <2>5. RunsAreHeld'
    <3>1. \A q \in TRuns : attempts[q].at # "raising"
      BY <1>1, <2>0, <2>1, <2>3, ReachConstants DEF ReachFollows, RunsAreHeld
    <3> QED
      BY <1>1, <1>6, <2>0, <3>1 DEF ReachFollows, RunsAreHeld
  <2>6. ProcessesAreKnown'
    <3>1. \A q \in alive : q \in happened'.unending
      BY <1>0, <1>7, <2>0, <2>1, <2>3, ReachConstants
      DEF ReachFollows, ProcessesAreKnown, RunsHaveHosts, ReachTypes
    <3> QED
      BY <1>1, <2>0, <3>1 DEF ReachFollows, ProcessesAreKnown
  <2>7. StopsKnowTheirRun'
    BY <1>1, <1>3, <1>5, <1>6, <2>0, <2>2 DEF ReachFollows, StopsKnowTheirRun
  <2>8. AllowedIsUp'
    <3>1. ASSUME NEW host \in allowed PROVE Shell!Reach!BeingLowered(host)'
      <4>1. host # Nil
        BY <1>0, ReachConstants DEF ReachTypes, THosts
      <4>2. CASE tunnel.host = host
        BY <1>3, <1>5, <4>1, <4>2 DEF Shell!Reach!BeingLowered, Shell!Reach!Callers, TCallers
      <4>3. CASE Shell!Reach!BeingLowered(host)
        BY <1>1, <1>5, <4>3 DEF Shell!Reach!BeingLowered, Shell!Reach!Callers, TCallers
      <4> QED
        BY <2>0, <4>2, <4>3 DEF ReachFollows, AllowedIsUp
    <3> QED
      BY <1>1, <3>1 DEF AllowedIsUp
  <2>9. StopIsComing'
    BY <1>6 DEF StopIsComing
  <2> QED
    BY <2>4, <2>5, <2>6, <2>7, <2>8, <2>9 DEF ReachFollows
<1> QED
  BY <1>8, <1>9, <1>10, <1>11 DEF ReachInv

\* A caller that was free or told of a change, and is not about to stop a tunnel
\* whose listener is down, may do something else.
LEMMA ReachCallerMoves ==
  ASSUME ReachInv, NEW c \in TCallers, callers[c].at \in {"idle", "changed"},
         NEW e \in [at : {"idle", "changed", "lowering"}, held : TRuns \cup {Nil},
                    host : THosts \cup {Nil}, final : BOOLEAN],
         callers' = [callers EXCEPT ![c] = e],
         callers[c].at = "changed" /\ ~ (listening /\ listening')
           => e.at = "changed" \/ tunnel.status \notin {"starting", "running"},
         ~listening' => listening = listening' \/ e.at = "changed",
         e.at = "lowering" /\ e.final /\ e.host \in Hostnames => e.host \in happened'.replaced,
         listening' \in BOOLEAN, named' \in Hostnames \cup {Nil},
         NEW x \in SUBSET Hostnames, happened' = [happened EXCEPT !.replaced = @ \cup x],
         UNCHANGED <<tunnel, attempts, alive, cancelled, allowed>>
  PROVE  ReachInv'
<1>0. /\ ReachTypes /\ GoodbyesAreMeant /\ RunsHaveHosts
      /\ ~happened.overtaken => ReachFollows
  BY DEF ReachInv
<1>1. /\ e.at \in {"idle", "changed", "lowering"} /\ e.at # "stopping"
      /\ callers' \in [TCallers -> [at : {"idle", "changed", "stopping", "lowering"},
                                    held : TRuns \cup {Nil},
                                    host : THosts \cup {Nil}, final : BOOLEAN]]
      /\ \A d \in TCallers : d # c => callers'[d] = callers[d]
      /\ callers'[c] = e
  BY <1>0 DEF ReachTypes
<1>2. /\ happened' \in [overtaken : BOOLEAN, blind : BOOLEAN, unending : SUBSET TRuns,
                        replaced : SUBSET Hostnames, forgotten : SUBSET Hostnames]
      /\ happened'.unending = happened.unending /\ happened.replaced \subseteq happened'.replaced
      /\ happened'.forgotten = happened.forgotten
      /\ (happened'.overtaken <=> happened.overtaken)
      /\ (happened'.blind <=> happened.blind)
  BY <1>0 DEF ReachTypes
<1>3. ReachTypes'
  BY <1>0, <1>1, <1>2 DEF ReachTypes
<1>4. GoodbyesAreMeant'
  BY <1>0, <1>1, <1>2 DEF GoodbyesAreMeant
<1>5. RunsHaveHosts'
  BY <1>0 DEF RunsHaveHosts
<1>6. ASSUME ~happened.overtaken PROVE ReachFollows'
  <2>0. ReachFollows
    BY <1>0, <1>6
  <2>1. StatusIsTheRuns' /\ RunsAreHeld' /\ ProcessesAreKnown'
    BY <1>2, <2>0 DEF ReachFollows, StatusIsTheRuns, RunsAreHeld, ProcessesAreKnown
  <2>2. StopsKnowTheirRun'
    BY <1>1, <2>0 DEF ReachFollows, StopsKnowTheirRun
  <2>3. AllowedIsUp'
    <3>1. \A host : Shell!Reach!BeingLowered(host) => Shell!Reach!BeingLowered(host)'
      BY <1>1 DEF Shell!Reach!BeingLowered, Shell!Reach!Callers, TCallers
    <3> QED
      BY <2>0, <3>1 DEF ReachFollows, AllowedIsUp
  <2>4. StopIsComing'
    <3> SUFFICES ASSUME ~listening', ~happened.blind,
                        tunnel.status \in {"starting", "running"}
                 PROVE  \E d \in TCallers :
                          \/ callers'[d].at = "changed"
                          \/ callers'[d].at = "stopping" /\ callers'[d].held = tunnel.held
      BY <1>2 DEF StopIsComing
    <3>1. CASE e.at = "changed"
      BY <1>1, <3>1
    <3>2. CASE e.at # "changed"
      <4>1. ~listening
        BY <1>0, <3>2 DEF ReachTypes
      <4>2. callers[c].at = "idle"
        BY <3>2
      <4>3. PICK d \in TCallers :
              \/ callers[d].at = "changed"
              \/ callers[d].at = "stopping" /\ callers[d].held = tunnel.held
        BY <2>0, <4>1 DEF ReachFollows, StopIsComing
      <4>4. d # c
        BY <4>2, <4>3
      <4> QED
        BY <1>1, <4>3, <4>4
    <3> QED
      BY <3>1, <3>2
  <2> QED
    BY <2>1, <2>2, <2>3, <2>4 DEF ReachFollows
<1> QED
  BY <1>2, <1>3, <1>4, <1>5, <1>6 DEF ReachInv

\* No step of a run or of a caller breaks it.
LEMMA ReachStep == ReachInv /\ [Shell!Reach!TunnelNext]_(Shell!reachVars) => ReachInv'
<1> SUFFICES ASSUME ReachInv, [Shell!Reach!TunnelNext]_(Shell!reachVars)
             PROVE  ReachInv'
  OBVIOUS
<1>0. /\ ReachTypes /\ GoodbyesAreMeant /\ RunsHaveHosts
      /\ ~happened.overtaken => ReachFollows
  BY DEF ReachInv
<1>a. ASSUME UNCHANGED <<tunnel, attempts, alive, cancelled, callers, named, listening,
                         allowed, happened>>
      PROVE  ReachInv'
  BY <1>0, <1>a
  DEF ReachInv, ReachTypes, GoodbyesAreMeant, RunsHaveHosts, ReachFollows, StatusIsTheRuns,
      RunsAreHeld, ProcessesAreKnown, StopsKnowTheirRun, AllowedIsUp, StopIsComing,
      Shell!Reach!BeingLowered
<1>b. ASSUME NEW r \in TRuns, Shell!Reach!RunStep(r) PROVE ReachInv'
  <2>0. /\ attempts \in [TRuns -> [at : Live \cup {"unborn", "asked", "lowering", "done"},
                                   host : THosts \cup {Nil}, final : BOOLEAN]]
        /\ r \in alive => attempts[r].at \in {"spawned", "waiting", "raising", "connected"}
        /\ tunnel \in [gen : TRuns \cup {Nil}, held : TRuns \cup {Nil},
                       host : THosts \cup {Nil}, final : BOOLEAN,
                       status : {"starting", "running", "off", "failed"}]
    BY <1>0 DEF ReachTypes, RunsHaveHosts
  <2>a. ASSUME NEW from \in {"asked", "preparing", "spawning", "spawned", "waiting",
                             "connected", "failing"},
               NEW t \in {"spawning", "spawned", "waiting", "connected", "failing", "done"},
               Shell!Reach!Goes(r, from, t), UNCHANGED ReachParts,
               from \in {"asked", "failing"} => t = "done",
               from = "connected" => t \in {"failing", "done"},
               t \in {"spawning", "failing", "done"} => r \notin alive',
               alive' \subseteq alive \cup {r},
               r \in alive' => r \in alive \/ r \notin cancelled
        PROVE  ReachInv'
    <3>1. RunMoves(r, t)
      BY <2>a DEF RunMoves, Shell!Reach!Goes, Shell!Reach!Over, Live, Early
    <3> QED
      BY <2>a, <3>1, ReachRunMoves
  <2>b. ASSUME attempts[r].at \in {"asked", "preparing", "spawning", "failing"} PROVE r \notin alive
    BY <2>0, <2>b
  <2>1. CASE Shell!Reach!Start(r)
    BY <2>1, ReachStarts
  <2>2. CASE Shell!Reach!StartRefused(r)
    BY <2>a, <2>b, <2>2 DEF Shell!Reach!StartRefused, Shell!Reach!Goes, ReachParts
  <2>3. CASE Shell!Reach!Prepared(r)
    <3>1. CASE tunnel.gen = r
      <4>1. /\ Shell!Reach!Goes(r, "preparing", "spawning")
            /\ tunnel' = [tunnel EXCEPT !.status = "starting"]
            /\ UNCHANGED <<alive, cancelled, callers, named, listening, allowed, happened>>
        BY <2>3, <3>1 DEF Shell!Reach!Prepared, Shell!Reach!Current
      <4>2. r \notin alive
        BY <2>b, <4>1 DEF Shell!Reach!Goes
      <4>3. CASE tunnel.status = "starting"
        <5>1. tunnel' = tunnel
          BY <2>0, <4>1, <4>3
        <5> QED
          BY <2>a, <4>1, <4>2, <5>1 DEF ReachParts
      <4>4. CASE tunnel.status # "starting"
        <5>1. happened.overtaken
          BY <1>0, <3>1, <4>1, <4>4, ReachConstants
          DEF ReachFollows, StatusIsTheRuns, Shell!Reach!Goes, Early
        <5>2. attempts' = [attempts EXCEPT ![r] = [@ EXCEPT !.at = "spawning"]]
              /\ attempts[r].at = "preparing"
          BY <4>1 DEF Shell!Reach!Goes
        <5>3. /\ attempts' \in [TRuns -> [at : Live \cup {"unborn", "asked", "lowering", "done"},
                                          host : THosts \cup {Nil}, final : BOOLEAN]]
              /\ \A q \in TRuns : q # r => attempts'[q] = attempts[q]
              /\ attempts'[r].at = "spawning" /\ attempts'[r].host = attempts[r].host
          BY <2>0, <5>2 DEF Live, Early
        <5>4. /\ tunnel'.gen = tunnel.gen /\ tunnel'.host = tunnel.host
              /\ (tunnel'.final <=> tunnel.final)
              /\ tunnel' \in [gen : TRuns \cup {Nil}, held : TRuns \cup {Nil},
                              host : THosts \cup {Nil}, final : BOOLEAN,
                              status : {"starting", "running", "off", "failed"}]
          BY <2>0, <4>1
        <5>5. ReachTypes'
          BY <1>0, <4>1, <5>3, <5>4 DEF ReachTypes
        <5>6. GoodbyesAreMeant'
          BY <1>0, <3>1, <4>1, <5>3, <5>4 DEF GoodbyesAreMeant
        <5>7. RunsHaveHosts'
          BY <1>0, <4>1, <4>2, <5>2, <5>3 DEF RunsHaveHosts, ReachTypes, Live, Early
        <5> QED
          BY <4>1, <5>1, <5>5, <5>6, <5>7 DEF ReachInv
      <4> QED
        BY <4>3, <4>4
    <3>2. CASE tunnel.gen # r
      BY <2>a, <2>b, <2>3, <3>2
      DEF Shell!Reach!Prepared, Shell!Reach!Current, Shell!Reach!Goes, ReachParts
    <3> QED
      BY <3>1, <3>2
  <2>4. CASE Shell!Reach!PrepareFails(r)
    <3>1. CASE r \in cancelled
      BY <2>a, <2>b, <2>4, <3>1 DEF Shell!Reach!PrepareFails, Shell!Reach!Goes, ReachParts
    <3>2. CASE r \notin cancelled
      BY <2>a, <2>b, <2>4, <3>2 DEF Shell!Reach!PrepareFails, Shell!Reach!Goes, ReachParts
    <3> QED
      BY <3>1, <3>2
  <2>5. CASE Shell!Reach!Spawns(r)
    BY <2>a, <2>5 DEF Shell!Reach!Spawns, ReachParts
  <2>6. CASE Shell!Reach!SpawnFails(r)
    BY <2>a, <2>b, <2>6 DEF Shell!Reach!SpawnFails, Shell!Reach!Goes, ReachParts
  <2>7. CASE Shell!Reach!Recorded(r)
    <3>1. CASE tunnel.gen = r
      BY <2>a, <2>7, <3>1 DEF Shell!Reach!Recorded, Shell!Reach!Current, ReachParts
    <3>2. CASE tunnel.gen # r
      BY <2>a, <2>7, <3>2 DEF Shell!Reach!Recorded, Shell!Reach!Current, ReachParts
    <3> QED
      BY <3>1, <3>2
  <2>8. CASE Shell!Reach!Exits(r)
    <3>1. /\ alive' = alive \ {r}
          /\ UNCHANGED <<tunnel, attempts, cancelled, callers, named, listening, allowed, happened>>
      BY <2>8 DEF Shell!Reach!Exits
    <3>2. ReachTypes' /\ GoodbyesAreMeant' /\ RunsHaveHosts'
      BY <1>0, <3>1 DEF ReachTypes, GoodbyesAreMeant, RunsHaveHosts
    <3>3. ReachFollows => ReachFollows'
      BY <3>1 DEF ReachFollows, StatusIsTheRuns, RunsAreHeld, ProcessesAreKnown,
                  StopsKnowTheirRun, AllowedIsUp, StopIsComing, Shell!Reach!BeingLowered
    <3> QED
      BY <1>0, <3>1, <3>2, <3>3 DEF ReachInv
  <2>9. CASE Shell!Reach!up(r)
    <3>1. CASE tunnel.gen = r
      BY <2>9, <3>1, ReachComesUp
    <3>2. CASE tunnel.gen # r
      BY <2>a, <2>9, <3>2 DEF Shell!Reach!up, Shell!Reach!Current, ReachParts
    <3> QED
      BY <3>1, <3>2
  <2>10. CASE Shell!Reach!Raises(r)
    BY <2>10, ReachRaises
  <2>11. CASE Shell!Reach!Waited(r)
    <3>1. PICK from \in {"waiting", "connected"} :
            Shell!Reach!Goes(r, from, IF r \in cancelled THEN "done" ELSE "failing")
      BY <2>11 DEF Shell!Reach!Waited
    <3>2. r \notin alive' /\ alive' = alive /\ UNCHANGED ReachParts
      BY <2>11 DEF Shell!Reach!Waited, ReachParts
    <3>3. CASE r \in cancelled
      BY <2>a, <3>1, <3>2, <3>3
    <3>4. CASE r \notin cancelled
      BY <2>a, <3>1, <3>2, <3>4
    <3> QED
      BY <3>3, <3>4
  <2>12. CASE Shell!Reach!fail(r)
    <3>1. CASE tunnel.gen = r
      BY <2>12, <3>1, ReachFails
    <3>2. CASE tunnel.gen # r
      <4>1. Shell!Reach!Goes(r, "failing", "done") /\ UNCHANGED ReachParts /\ alive' = alive
        BY <2>12, <3>2
        DEF Shell!Reach!fail, Shell!Reach!Current, Shell!Reach!Goes, Shell!Reach!Over, ReachParts
      <4> QED
        BY <2>a, <2>b, <4>1 DEF Shell!Reach!Goes
    <3> QED
      BY <3>1, <3>2
  <2>13. CASE Shell!Reach!FailLowers(r)
    BY <2>13, ReachFailLowers
  <2> QED
    BY <1>b, <2>1, <2>2, <2>3, <2>4, <2>5, <2>6, <2>7, <2>8, <2>9, <2>10, <2>11, <2>12, <2>13
    DEF Shell!Reach!RunStep
<1>c. ASSUME NEW i \in DOMAIN TunnelCalls, Shell!Reach!Asks(i) PROVE ReachInv'
  <2>1. TunnelCalls[i] \in TRuns
    BY DEF TRuns
  <2>2. RunMoves(TunnelCalls[i], "asked") /\ UNCHANGED ReachParts
    BY <1>0, <1>c, <2>1
    DEF Shell!Reach!Asks, Shell!Reach!Goes, RunMoves, RunsHaveHosts, ReachParts, Live, Early
  <2> QED
    BY <2>1, <2>2, ReachRunMoves
<1>d. ASSUME NEW c \in TCallers, Shell!Reach!CallerStep(c) PROVE ReachInv'
  <2>0. /\ callers \in [TCallers -> [at : {"idle", "changed", "stopping", "lowering"},
                                     held : TRuns \cup {Nil},
                                     host : THosts \cup {Nil}, final : BOOLEAN]]
        /\ listening \in BOOLEAN /\ named \in Hostnames \cup {Nil}
        /\ happened \in [overtaken : BOOLEAN, blind : BOOLEAN, unending : SUBSET TRuns,
                         replaced : SUBSET Hostnames, forgotten : SUBSET Hostnames]
    BY <1>0 DEF ReachTypes
  <2> DEFINE e == [at |-> "idle", held |-> Nil, host |-> Nil, final |-> FALSE]
             x == {}
  <2>a. /\ e \in [at : {"idle", "changed", "lowering"}, held : TRuns \cup {Nil},
                  host : THosts \cup {Nil}, final : BOOLEAN]
        /\ e.at = "idle" /\ x \in SUBSET Hostnames
    OBVIOUS
  <2>b. happened' = happened => happened' = [happened EXCEPT !.replaced = @ \cup x]
    BY <2>0
  <2> HIDE DEF e, x
  <2>1. CASE Shell!Reach!StopBegins(c)
    <3>1. CASE tunnel.held = Nil /\ tunnel.status = "off"
      <4>1. /\ callers[c].at \in {"idle", "changed"}
            /\ callers' = [callers EXCEPT ![c] = e]
            /\ UNCHANGED <<tunnel, cancelled, attempts, alive, named, listening, allowed, happened>>
        BY <2>1, <3>1 DEF Shell!Reach!StopBegins, Shell!Reach!Free, e
      <4> QED
        BY <2>0, <2>a, <2>b, <3>1, <4>1, ReachCallerMoves
    <3>2. CASE ~ (tunnel.held = Nil /\ tunnel.status = "off")
      <4>1. /\ callers[c].at \in {"idle", "changed"}
            /\ callers' = [callers EXCEPT ![c] = [@ EXCEPT !.at = "stopping", !.held = tunnel.held]]
            /\ tunnel' = [tunnel EXCEPT !.gen = Nil]
            /\ cancelled' = (cancelled \cup {tunnel.held}) \ {Nil}
            /\ UNCHANGED <<attempts, alive, named, listening, allowed, happened>>
        BY <2>0, <2>1, <3>2 DEF Shell!Reach!StopBegins
      <4> QED
        BY <3>2, <4>1, ReachStopBegins
    <3> QED
      BY <3>1, <3>2
  <2>2. CASE Shell!Reach!StopEnds(c)
    BY <2>2, ReachStopEnds
  <2>3. CASE Shell!Reach!CallerLowers(c)
    BY <2>3, ReachCallerLowers
  <2>4. CASE Shell!Reach!ListenerIsBack(c)
    <3>1. /\ listening /\ callers[c].at = "changed" /\ callers' = [callers EXCEPT ![c] = e]
          /\ UNCHANGED <<tunnel, attempts, alive, cancelled, named, listening, allowed, happened>>
      BY <2>4 DEF Shell!Reach!ListenerIsBack, Shell!Reach!Free, e
    <3> QED
      BY <2>0, <2>a, <2>b, <3>1, ReachCallerMoves
  <2> QED
    BY <1>d, <2>1, <2>2, <2>3, <2>4 DEF Shell!Reach!CallerStep
<1>e. ASSUME NEW c \in DesktopCalls, NEW host \in Hostnames \cup {Nil}, Shell!Reach!Renames(c, host)
      PROVE  ReachInv'
  <2> DEFINE e == IF named = Nil THEN callers[c]
                  ELSE [at |-> "lowering", held |-> Nil, host |-> named, final |-> TRUE]
             x == {named} \ {Nil}
  <2>0. /\ callers \in [TCallers -> [at : {"idle", "changed", "stopping", "lowering"},
                                     held : TRuns \cup {Nil},
                                     host : THosts \cup {Nil}, final : BOOLEAN]]
        /\ listening \in BOOLEAN /\ named \in Hostnames \cup {Nil} /\ c \in TCallers
        /\ happened \in [overtaken : BOOLEAN, blind : BOOLEAN, unending : SUBSET TRuns,
                         replaced : SUBSET Hostnames, forgotten : SUBSET Hostnames]
    BY <1>0 DEF ReachTypes, TCallers
  <2>1. /\ callers[c].at = "idle" /\ named' = host
        /\ callers' = IF named = Nil THEN callers
                      ELSE [callers EXCEPT ![c] = [at |-> "lowering", held |-> Nil,
                                                   host |-> named, final |-> TRUE]]
        /\ happened' = [happened EXCEPT !.replaced = (@ \cup {named}) \ {Nil}]
        /\ UNCHANGED <<tunnel, attempts, alive, cancelled, listening, allowed>>
    BY <1>e DEF Shell!Reach!Renames
  <2>2. /\ e \in [at : {"idle", "changed", "lowering"}, held : TRuns \cup {Nil},
                  host : THosts \cup {Nil}, final : BOOLEAN]
        /\ callers' = [callers EXCEPT ![c] = e]
        /\ x \in SUBSET Hostnames
    BY <2>0, <2>1 DEF THosts
  <2>3. happened' = [happened EXCEPT !.replaced = @ \cup x]
    <3>1. happened.replaced \subseteq Hostnames
      BY <2>0
    <3>2. (happened.replaced \cup {named}) \ {Nil} = happened.replaced \cup x
      BY <3>1, ReachConstants
    <3> QED
      BY <2>1, <3>2
  <2>4. e.at \in {"idle", "lowering"}
        /\ (e.at = "lowering" => e.host = named /\ named # Nil)
    BY <2>1
  <2>5. named # Nil => named \in happened'.replaced
    BY <2>0, <2>3
  <2> HIDE DEF e, x
  <2>6. e.at = "lowering" /\ e.final /\ e.host \in Hostnames => e.host \in happened'.replaced
    BY <2>4, <2>5
  <2>7. /\ listening' = listening /\ named' \in Hostnames \cup {Nil}
        /\ callers[c].at \in {"idle", "changed"} /\ callers[c].at # "changed"
        /\ UNCHANGED <<tunnel, attempts, alive, cancelled, allowed>>
    BY <2>1
  <2> QED
    BY <2>0, <2>2, <2>3, <2>6, <2>7, ReachCallerMoves
<1>f. ASSUME NEW c \in ListenerCalls, Shell!Reach!ListenerChanges(c) PROVE ReachInv'
  <2> DEFINE e == [callers[c] EXCEPT !.at = "changed"]
             x == {}
  <2>0. /\ callers \in [TCallers -> [at : {"idle", "changed", "stopping", "lowering"},
                                     held : TRuns \cup {Nil},
                                     host : THosts \cup {Nil}, final : BOOLEAN]]
        /\ listening \in BOOLEAN /\ named \in Hostnames \cup {Nil} /\ c \in TCallers
        /\ happened \in [overtaken : BOOLEAN, blind : BOOLEAN, unending : SUBSET TRuns,
                         replaced : SUBSET Hostnames, forgotten : SUBSET Hostnames]
    BY <1>0 DEF ReachTypes, TCallers
  <2>1. /\ listening' = FALSE /\ callers[c].at = "idle" /\ callers' = [callers EXCEPT ![c] = e]
        /\ UNCHANGED <<tunnel, attempts, alive, cancelled, named, allowed, happened>>
    BY <1>f DEF Shell!Reach!ListenerChanges
  <2>2. /\ e \in [at : {"idle", "changed", "lowering"}, held : TRuns \cup {Nil},
                  host : THosts \cup {Nil}, final : BOOLEAN]
        /\ e.at = "changed" /\ x \in SUBSET Hostnames
    BY <2>0
  <2>3. happened' = [happened EXCEPT !.replaced = @ \cup x]
    BY <2>0, <2>1
  <2> HIDE DEF e, x
  <2> QED
    BY <2>0, <2>1, <2>2, <2>3, ReachCallerMoves
<1>g. CASE Shell!Reach!ListenerStarts
  <2>1. /\ listening' = TRUE
        /\ UNCHANGED <<tunnel, attempts, alive, cancelled, callers, named, allowed, happened>>
    BY <1>g DEF Shell!Reach!ListenerStarts
  <2>2. ReachTypes' /\ GoodbyesAreMeant' /\ RunsHaveHosts'
    BY <1>0, <2>1 DEF ReachTypes, GoodbyesAreMeant, RunsHaveHosts
  <2>3. ReachFollows => ReachFollows'
    BY <2>1 DEF ReachFollows, StatusIsTheRuns, RunsAreHeld, ProcessesAreKnown,
                StopsKnowTheirRun, AllowedIsUp, StopIsComing, Shell!Reach!BeingLowered
  <2> QED
    BY <1>0, <2>1, <2>2, <2>3 DEF ReachInv
<1> QED
  BY <1>a, <1>b, <1>c, <1>d, <1>e, <1>f, <1>g
  DEF Shell!Reach!TunnelNext, Shell!Reach!Runs, TRuns, Shell!Reach!Callers, TCallers,
      Shell!reachVars

-----------------------------------------------------------------------------
(****************************************************************************)
(* The config editor (useConfigEditor.ts).                                  *)
(****************************************************************************)
Text == [of : EditorFiles \cup {Nil}, n : 0 .. MaxEdits]
Panes == [file : EditorFiles \cup {Nil}, text : Text, original : Text,
          loading : BOOLEAN, marked : BOOLEAN, edits : 0 .. MaxEdits]
Blank == [of |-> Nil, n |-> 0]
Acts == EditorFiles \cup {"close", Nil}
Readings == [file : EditorFiles, text : Text \cup {Nil}, failed : BOOLEAN]

EditorTypes ==
  /\ mounted \in BOOLEAN /\ pane \in Panes /\ held \in Acts
  /\ readings \in Seq(Readings)
  /\ write \in [file : EditorFiles, text : Text, continues : BOOLEAN,
                reply : {"none", "ok", "failed"}] \cup {Nil}
  /\ files \in [EditorFiles -> Text]
  /\ upset \subseteq {"crossed", "reopened", "cancelled"} /\ spilt \in BOOLEAN

\* No file is read twice at once, and a read that came before a write is not of
\* the file written.
ReadsAreApart ==
  /\ \A i, j \in 1 .. Len(readings) : readings[i].file = readings[j].file => i = j
  /\ \A i \in 1 .. Len(readings) :
       /\ readings[i].file = pane.file => pane.loading
       /\ readings[i].text # Nil => readings[i].text = files[readings[i].file]

\* What the pane p shows when no write is under way.
TrueTo(p) ==
  p.file # Nil /\ ~p.loading /\ p.original # Blank => p.original = files[p.file]

\* What is on screen is of the file, and the guard knows whether it is saved.
PaneIsOneFiles ==
  /\ pane.marked <=> pane.text # pane.original
  /\ pane.loading => pane.text = pane.original /\ write = Nil
  /\ ~pane.loading => {pane.text.of, pane.original.of} \subseteq {pane.file, Nil}
  /\ write = Nil => TrueTo(pane)

\* The write under way is of the file on screen, and while it is to go on the
\* text stays as it was sent.
WriteIsThePanes ==
  write # Nil =>
    /\ write.file = pane.file
    /\ write.text.of \in {pane.file, Nil}
    /\ write.continues => held # Nil /\ pane.text = write.text
    /\ write.reply = "ok" => files[pane.file] = write.text
    /\ write.reply # "ok" => TrueTo(pane)

EditorGood ==
  /\ ~spilt
  /\ \A f \in EditorFiles : files[f].of \in {f, Nil}
  /\ ReadsAreApart /\ PaneIsOneFiles /\ WriteIsThePanes

EditorInv == EditorTypes /\ (upset = {} => EditorGood)

\* No file is open.
LEMMA EditorStart == Shell!Editor!EditorInit => EditorInv
<1> SUFFICES ASSUME Shell!Editor!EditorInit PROVE EditorInv
  OBVIOUS
<1> USE DEF Shell!Editor!EditorInit, Shell!Editor!Blank, Blank
<1>0. Blank \in Text /\ 0 \in 0 .. MaxEdits
  BY EditorAssumption DEF Text
<1>1. \A f \in EditorFiles : [of |-> f, n |-> 0] \in Text
  BY EditorAssumption DEF Text
<1>2. EditorTypes
  BY <1>0, <1>1, EmptySeq DEF EditorTypes, Panes, Acts
<1>3. Len(readings) = 0
  OBVIOUS
<1>4. EditorGood
  BY <1>3, EditorAssumption
  DEF EditorGood, ReadsAreApart, PaneIsOneFiles, WriteIsThePanes, TrueTo
<1> QED
  BY <1>2, <1>4 DEF EditorInv

\* What is typed is kept until it is saved or let go (useConfigEditor.ts).
LEMMA EditorPromise == EditorInv => Shell!Editor!EditorTypeOK /\ Shell!Editor!EditorKeepsText
<1> SUFFICES ASSUME EditorInv
             PROVE  Shell!Editor!EditorTypeOK /\ Shell!Editor!EditorKeepsText
  OBVIOUS
<1>1. Shell!Editor!EditorTypeOK
  BY DEF EditorInv, EditorTypes, Shell!Editor!EditorTypeOK, Text, Panes, Acts, Readings,
         Shell!Editor!Text, Shell!Editor!Close
<1>2. ASSUME upset = {} PROVE Shell!Editor!EditsGoAsked /\ Shell!Editor!CleanIsTheFile
  BY <1>2 DEF EditorInv, EditorGood, PaneIsOneFiles, TrueTo, Blank, Shell!Editor!Blank,
              Shell!Editor!EditsGoAsked, Shell!Editor!CleanIsTheFile, Shell!Editor!Dirty
<1> QED
  BY <1>1, <1>2 DEF Shell!Editor!EditorKeepsText

\* A reply taken out of the readings leaves the others in their order.
LEMMA CutIsLess ==
  ASSUME NEW S, NEW s \in Seq(S), NEW k \in 1 .. Len(s)
  PROVE  SubSeq(s, 1, k - 1) \o SubSeq(s, k + 1, Len(s)) = Less(s, k)
<1>1. PICK n \in Nat : n = Len(s)
  BY LenProperties
<1>2. k \in 1 .. n /\ k - 1 \in 0 .. n /\ k + 1 \in 1 .. n + 1
  BY <1>1
<1>3. /\ SubSeq(s, 1, k - 1) \in Seq(S) /\ Len(SubSeq(s, 1, k - 1)) = k - 1
      /\ \A j \in 1 .. k - 1 : SubSeq(s, 1, k - 1)[j] = s[j]
  BY <1>1, <1>2, SubSeqProperties
<1>4. /\ SubSeq(s, k + 1, n) \in Seq(S) /\ Len(SubSeq(s, k + 1, n)) = n - k
      /\ \A j \in 1 .. n - k : SubSeq(s, k + 1, n)[j] = s[k + j]
  BY SMTT(30), <1>1, <1>2, SubSeqProperties
<1> DEFINE a == SubSeq(s, 1, k - 1)
           b == SubSeq(s, k + 1, n)
<1> HIDE DEF a, b
<1>5. /\ a \in Seq(S) /\ b \in Seq(S) /\ Len(a) = k - 1 /\ Len(b) = n - k
      /\ \A j \in 1 .. k - 1 : a[j] = s[j]
      /\ \A j \in 1 .. n - k : b[j] = s[k + j]
  BY <1>3, <1>4 DEF a, b
<1>6. a \o b \in Seq(S) /\ Len(a \o b) = n - 1
  <2>1. a \o b \in Seq(S) /\ Len(a \o b) = Len(a) + Len(b)
    BY <1>5, ConcatProperties
  <2>2. (k - 1) + (n - k) = n - 1
    BY <1>2
  <2> QED
    BY <1>5, <2>1, <2>2
<1>7. ASSUME NEW j \in 1 .. n - 1
      PROVE  (a \o b)[j] = IF j < k THEN s[j] ELSE s[j + 1]
  <2>1. CASE j < k
    BY <1>2, <1>5, <1>7, <2>1, ConcatProperties
  <2>2. CASE ~ (j < k)
    <3>1. j - (k - 1) \in 1 .. n - k /\ k + (j - (k - 1)) = j + 1 /\ ~ (j <= k - 1)
      BY <1>2, <2>2
    <3>2. (a \o b)[j] = b[j - (k - 1)]
      BY <1>2, <1>5, <1>7, <3>1, ConcatProperties
    <3> QED
      BY <1>5, <2>2, <3>1, <3>2
  <2> QED
    BY <2>1, <2>2
<1>8. a \o b = [j \in 1 .. n - 1 |-> (a \o b)[j]]
  BY <1>6, LenProperties
<1>9. a \o b = Less(s, k)
  BY <1>1, <1>7, <1>8 DEF Less
<1> QED
  BY <1>1, <1>9 DEF a, b
\* What an action did to the pane p it was performed on, and to the reads.
Performed(act, p, writing) ==
  /\ p \in Panes /\ act \in Acts
  /\ mounted' \in BOOLEAN /\ pane' \in Panes /\ readings' \in Seq(Readings)
  /\ upset' \subseteq {"crossed", "reopened", "cancelled"} /\ spilt' \in BOOLEAN
  /\ (act # Nil /\ p.text # p.original) \/ (spilt' <=> spilt)
  /\ pane'.text = p.text /\ pane'.original = p.original /\ pane'.edits = p.edits
  /\ ((p.text # p.original <=> pane.text # pane.original) => (p.marked <=> p.text # p.original))
       => (pane'.marked <=> p.text # p.original)
  /\ act \in EditorFiles =>
       /\ pane'.file = act /\ pane'.loading
       /\ readings' = Append(readings, [file |-> act, text |-> Nil, failed |-> FALSE])
       /\ upset' = {} => \A i \in 1 .. Len(readings) : readings[i].file # act
  /\ act \notin EditorFiles =>
       pane'.file = p.file /\ pane'.loading = p.loading /\ readings' = readings
  /\ upset' = {} => upset = {} /\ ~ (act # Nil /\ writing)

\* What the user was asked about, a file to open or the closing, takes place.
LEMMA EditorPerforms ==
  ASSUME EditorTypes, NEW p \in Panes, NEW act \in Acts,
         NEW writing \in BOOLEAN, NEW asked \in BOOLEAN,
         Shell!Editor!Perform(act, p, writing, asked)
  PROVE  Performed(act, p, writing)
<1> USE DEF Shell!Editor!Perform, Shell!Editor!Rendered, Shell!Editor!Dirty,
            Shell!Editor!Close
<1>1. /\ mounted' \in BOOLEAN
      /\ spilt' \in BOOLEAN
      /\ (act # Nil /\ p.text # p.original) \/ (spilt' <=> spilt)
  BY DEF EditorTypes
<1>2. DOMAIN readings = 1 .. Len(readings)
  BY LenProperties DEF EditorTypes
<1>3. /\ upset' \subseteq {"crossed", "reopened", "cancelled"}
      /\ upset' = {} => upset = {}
  BY DEF EditorTypes
<1>4. upset' = {} => /\ ~ (act # Nil /\ writing)
                    /\ \A i \in 1 .. Len(readings) : readings[i].file # act
  <2>1. act # Nil /\ writing => "crossed" \in upset'
    OBVIOUS
  <2>2. (\E i \in 1 .. Len(readings) : readings[i].file = act) => "reopened" \in upset'
    BY <1>2
  <2> QED
    BY <2>1, <2>2
<1>5. CASE act \in EditorFiles
  <2> DEFINE q == [p EXCEPT !.file = act, !.loading = TRUE]
             e == [file |-> act, text |-> Nil, failed |-> FALSE]
  <2>1. /\ q \in Panes /\ q.file = act /\ q.loading /\ q.text = p.text
        /\ q.original = p.original /\ q.edits = p.edits /\ (q.marked <=> p.marked)
    BY <1>5 DEF Panes
  <2>2. pane' = IF (q.text # q.original) = (pane.text # pane.original) THEN q
                ELSE [q EXCEPT !.marked = q.text # q.original]
    BY <1>5
  <2>3. e \in Readings
    BY <1>5 DEF Readings
  <2>4. readings' = Append(readings, e)
    BY <1>5
  <2> HIDE DEF q, e
  <2>5. readings' \in Seq(Readings)
    BY <2>3, <2>4, AppendProperties DEF EditorTypes
  <2>6. /\ pane' \in Panes /\ pane'.file = act /\ pane'.loading
        /\ pane'.text = p.text /\ pane'.original = p.original /\ pane'.edits = p.edits
    BY <2>1, <2>2 DEF Panes
  <2>7. ((p.text # p.original <=> pane.text # pane.original) => (p.marked <=> p.text # p.original))
           => (pane'.marked <=> p.text # p.original)
    BY <2>1, <2>2 DEF Panes
  <2> QED
    BY <1>1, <1>3, <1>4, <1>5, <2>4, <2>5, <2>6, <2>7 DEF Performed, e
<1>6. CASE act \notin EditorFiles
  <2>1. /\ pane' = IF (p.text # p.original) = (pane.text # pane.original) THEN p
                   ELSE [p EXCEPT !.marked = p.text # p.original]
        /\ readings' = readings
    BY <1>6
  <2>2. /\ pane' \in Panes /\ pane'.file = p.file /\ pane'.loading = p.loading
        /\ pane'.text = p.text /\ pane'.original = p.original /\ pane'.edits = p.edits
    BY <2>1 DEF Panes
  <2>3. ((p.text # p.original <=> pane.text # pane.original) => (p.marked <=> p.text # p.original))
           => (pane'.marked <=> p.text # p.original)
    BY <2>1 DEF Panes
  <2> QED
    BY <1>1, <1>3, <1>4, <1>6, <2>1, <2>2, <2>3 DEF Performed, EditorTypes
<1> QED
  BY <1>5, <1>6

\* An action on a pane that tells the truth leaves one that does.
LEMMA EditorGoesOn ==
  ASSUME EditorInv, upset = {}, NEW p, NEW act, NEW writing \in BOOLEAN,
         Performed(act, p, writing),
         files' = files, held' \in Acts,
         write' \in [file : EditorFiles, text : Text, continues : BOOLEAN,
                     reply : {"none", "ok", "failed"}] \cup {Nil},
         upset' = {} => write' = Nil /\ TrueTo(p),
         p.file = pane.file, p.loading = pane.loading,
         p.loading => p.text = p.original,
         ~p.loading => {p.text.of, p.original.of} \subseteq {p.file, Nil},
         act # Nil => p.text = p.original,
         (p.text # p.original <=> pane.text # pane.original) => (p.marked <=> p.text # p.original)
  PROVE  EditorInv'
<1>1. EditorTypes'
  BY DEF Performed, EditorInv, EditorTypes
<1>2. ASSUME upset' = {} PROVE EditorGood'
  <2>1. ~spilt'
    BY DEF Performed, EditorInv, EditorTypes, EditorGood
  <2>2. \A f \in EditorFiles : files'[f].of \in {f, Nil}
    BY DEF EditorInv, EditorGood
  <2>3. ReadsAreApart'
    <3>0. /\ \A i, j \in 1 .. Len(readings) : readings[i].file = readings[j].file => i = j
          /\ \A i \in 1 .. Len(readings) :
               /\ readings[i].file = pane.file => pane.loading
               /\ readings[i].text # Nil => readings[i].text = files[readings[i].file]
          /\ readings \in Seq(Readings)
      BY DEF EditorInv, EditorGood, EditorTypes, ReadsAreApart
    <3>1. CASE act \in EditorFiles
      <4> DEFINE e == [file |-> act, text |-> Nil, failed |-> FALSE]
      <4>1. /\ readings' = Append(readings, e) /\ pane'.loading /\ pane'.file = act
            /\ \A i \in 1 .. Len(readings) : readings[i].file # act
        BY <1>2, <3>1 DEF Performed
      <4>2. e \in Readings /\ e.file = act /\ e.text = Nil
        BY <3>1 DEF Readings
      <4> HIDE DEF e
      <4>3. PICK n \in Nat : n = Len(readings)
        BY <3>0, LenProperties
      <4>4. /\ Len(readings') = n + 1 /\ readings'[n + 1] = e
            /\ \A i \in 1 .. n : readings'[i] = readings[i]
        BY <3>0, <4>1, <4>2, <4>3, AppendProperties
      <4>5. \A i \in 1 .. n + 1 : i \in 1 .. n \/ i = n + 1
        BY <4>3
      <4> QED
        BY <3>0, <4>1, <4>2, <4>3, <4>4, <4>5 DEF ReadsAreApart
    <3>2. CASE act \notin EditorFiles
      BY <3>0, <3>2 DEF Performed, ReadsAreApart
    <3> QED
      BY <3>1, <3>2
  <2>4. PaneIsOneFiles'
    <3>1. /\ pane'.marked <=> pane'.text # pane'.original
          /\ write' = Nil
      BY <1>2 DEF Performed
    <3>2. CASE act \in EditorFiles
      <4>1. /\ pane'.loading /\ pane'.text = p.text /\ pane'.original = p.original
            /\ act # Nil
        BY <3>2, EditorAssumption DEF Performed
      <4> QED
        BY <3>1, <4>1 DEF PaneIsOneFiles, TrueTo
    <3>3. CASE act \notin EditorFiles
      <4>1. /\ pane'.file = p.file /\ pane'.loading = p.loading
            /\ pane'.text = p.text /\ pane'.original = p.original
        BY <3>3 DEF Performed
      <4> QED
        BY <1>2, <3>1, <4>1 DEF PaneIsOneFiles, TrueTo, Blank
    <3> QED
      BY <3>2, <3>3
  <2>5. WriteIsThePanes'
    BY <1>2 DEF WriteIsThePanes
  <2> QED
    BY <2>1, <2>2, <2>3, <2>4, <2>5 DEF EditorGood
<1> QED
  BY <1>1, <1>2 DEF EditorInv

\* No key, read, save, late answer or closing breaks it.
LEMMA EditorStep == EditorInv /\ [Shell!Editor!EditorNext]_(Shell!editorVars) => EditorInv'
<1> SUFFICES ASSUME EditorInv, [Shell!Editor!EditorNext]_(Shell!editorVars)
             PROVE  EditorInv'
  OBVIOUS
<1>a. CASE UNCHANGED Shell!editorVars
  BY <1>a DEF Shell!editorVars, EditorInv, EditorTypes, EditorGood, ReadsAreApart,
              PaneIsOneFiles, WriteIsThePanes, TrueTo
<1>b. SUFFICES ASSUME Shell!Editor!EditorNext PROVE EditorInv'
  BY <1>a
<1>0. upset = {}
  BY <1>b DEF Shell!Editor!EditorNext
<1>t. /\ EditorTypes
      /\ ~spilt
      /\ \A f \in EditorFiles : files[f].of \in {f, Nil}
      /\ ReadsAreApart /\ PaneIsOneFiles /\ WriteIsThePanes
  BY <1>0 DEF EditorInv, EditorGood
<1>n. DOMAIN readings = 1 .. Len(readings) /\ Len(readings) \in Nat
  BY <1>t, LenProperties DEF EditorTypes
<1>1. ASSUME NEW act \in EditorFiles \cup {"close"}, Shell!Editor!Guard(act) PROVE EditorInv'
  <2>1. CASE pane.marked
    BY <1>0, <1>1, <1>t, <2>1
    DEF Shell!Editor!Guard, EditorInv, EditorTypes, EditorGood, ReadsAreApart, Acts,
        PaneIsOneFiles, WriteIsThePanes, TrueTo
  <2>2. CASE ~pane.marked
    <3>1. /\ Shell!Editor!Perform(act, pane, write # Nil, FALSE)
          /\ held' = held /\ write' = write /\ files' = files
      BY <1>1, <2>2 DEF Shell!Editor!Guard
    <3>2. pane \in Panes /\ act \in Acts /\ act # Nil
      BY <1>t, EditorAssumption DEF EditorTypes, Acts
    <3>3. Performed(act, pane, write # Nil)
      BY <1>t, <3>1, <3>2, EditorPerforms
    <3>4. upset' = {} => write' = Nil
      BY <3>1, <3>2, <3>3 DEF Performed
    <3>5. upset' = {} => TrueTo(pane)
      BY <1>t, <3>1, <3>4 DEF PaneIsOneFiles
    <3> QED
      BY <1>0, <1>t, <2>2, <3>1, <3>2, <3>3, <3>4, <3>5, EditorGoesOn
      DEF PaneIsOneFiles, EditorTypes
  <2> QED
    BY <2>1, <2>2
<1>2. ASSUME NEW i \in 1 .. Len(readings), Shell!Editor!ReadTaken(i) PROVE EditorInv'
  <2> DEFINE r == readings[i]
  <2>1. /\ r.text = Nil
        /\ \/ readings' = [readings EXCEPT ![i] = [r EXCEPT !.text = files[r.file]]]
           \/ readings' = [readings EXCEPT ![i] = [r EXCEPT !.failed = TRUE]]
    BY <1>2 DEF Shell!Editor!ReadTaken
  <2>2. r \in Readings
    BY <1>t, ElementOfSeq DEF EditorTypes
  <2> DEFINE t == [r EXCEPT !.text = files[r.file]]
             u == [r EXCEPT !.failed = TRUE]
  <2>3. /\ t \in Readings /\ t.file = r.file /\ t.text = files[r.file]
        /\ u \in Readings /\ u.file = r.file /\ u.text = Nil
    BY <1>t, <2>1, <2>2 DEF Readings, EditorTypes
  <2>4. PICK e \in {t, u} : readings' = [readings EXCEPT ![i] = e]
    BY <2>1
  <2>5. e \in Readings /\ e.file = r.file /\ (e.text # Nil => e.text = files[r.file])
    BY <2>3
  <2> HIDE DEF t, u
  <2>6. readings' \in Seq(Readings) /\ Len(readings') = Len(readings)
        /\ \A j \in 1 .. Len(readings) : readings'[j] = IF j = i THEN e ELSE readings[j]
    BY <1>t, <2>4, <2>5, ExceptSeq DEF EditorTypes
  <2>7. UNCHANGED <<mounted, pane, held, write, files, upset, spilt>>
    BY <1>2 DEF Shell!Editor!ReadTaken
  <2>8. ReadsAreApart'
    BY <1>t, <2>5, <2>6, <2>7 DEF ReadsAreApart
  <2> QED
    BY <1>t, <2>6, <2>7, <2>8
    DEF EditorInv, EditorTypes, EditorGood, PaneIsOneFiles, WriteIsThePanes, TrueTo
<1>3. ASSUME NEW i \in 1 .. Len(readings), Shell!Editor!ReadReplies(i) PROVE EditorInv'
  <2> DEFINE r == readings[i]
             text == IF r.failed THEN Blank ELSE r.text
  <2>1. readings' = Less(readings, i)
    BY <1>3, <1>t, CutIsLess DEF Shell!Editor!ReadReplies, EditorTypes
  <2>2. /\ r.failed \/ r.text # Nil
        /\ r.file # pane.file => UNCHANGED <<pane, spilt>>
        /\ UNCHANGED <<mounted, held, write, files, upset>>
    BY <1>3 DEF Shell!Editor!ReadReplies
  <2>3. r \in Readings
    BY <1>t, ElementOfSeq DEF EditorTypes
  <2>4. text \in Text
    BY <2>2, <2>3, EditorAssumption DEF Readings, Text, Blank
  <2>5. readings' \in Seq(Readings) /\ Len(readings') = Len(readings) - 1
        /\ \A j \in 1 .. Len(readings) - 1 :
             readings'[j] = IF j < i THEN readings[j] ELSE readings[j + 1]
    <3>1. readings \in Seq(Readings)
      BY <1>t DEF EditorTypes
    <3>2. readings' \in Seq(Readings) /\ Len(readings') = Len(readings) - 1
      BY <2>1, <3>1, PlacesLess
    <3> QED
      BY <2>1, <3>2 DEF Less
  <2>6. \A j \in 1 .. Len(readings') :
          \E k \in 1 .. Len(readings) : readings'[j] = readings[k] /\ k # i /\
             (j < i => k = j) /\ (~ (j < i) => k = j + 1)
    <3> SUFFICES ASSUME NEW j \in 1 .. Len(readings')
                 PROVE \E k \in 1 .. Len(readings) : readings'[j] = readings[k] /\ k # i /\
                         (j < i => k = j) /\ (~ (j < i) => k = j + 1)
      OBVIOUS
    <3>1. CASE j < i
      BY <1>n, <2>5, <3>1
    <3>2. CASE ~ (j < i)
      <4>1. j + 1 \in 1 .. Len(readings) /\ j + 1 # i /\ readings'[j] = readings[j + 1]
        BY <1>n, <2>5, <3>2
      <4> QED
        BY <3>2, <4>1
    <3> QED
      BY <3>1, <3>2
  <2>7. CASE r.file # pane.file
    <3>1. UNCHANGED <<mounted, held, write, files, upset, pane, spilt>>
      BY <2>2, <2>7
    <3>2. ReadsAreApart'
      <4>1. \A j \in 1 .. Len(readings') :
              /\ readings'[j].file = pane.file => pane.loading
              /\ readings'[j].text # Nil => readings'[j].text = files[readings'[j].file]
        BY <1>t, <2>6 DEF ReadsAreApart
      <4>2. \A j, k \in 1 .. Len(readings') :
              readings'[j].file = readings'[k].file => j = k
        BY <1>t, <1>n, <2>5, <2>6 DEF ReadsAreApart
      <4> QED
        BY <3>1, <4>1, <4>2 DEF ReadsAreApart
    <3> QED
      BY <1>t, <2>5, <3>1, <3>2
      DEF EditorInv, EditorTypes, EditorGood, PaneIsOneFiles, WriteIsThePanes, TrueTo
  <2>8. CASE r.file = pane.file
    <3>0. /\ pane.loading /\ pane.text = pane.original /\ write = Nil /\ write' = Nil
          /\ pane \in Panes
      BY <1>t, <2>2, <2>8 DEF ReadsAreApart, PaneIsOneFiles, EditorTypes
    <3> DEFINE p == [pane EXCEPT !.text = text, !.original = text, !.loading = FALSE]
    <3>1. /\ p \in Panes /\ p.text = text /\ p.original = text /\ ~p.loading
          /\ p.file = pane.file /\ (p.marked <=> pane.marked)
      BY <2>4, <3>0 DEF Panes
    <3>2. /\ pane' = IF (p.text # p.original) = (pane.text # pane.original) THEN p
                     ELSE [p EXCEPT !.marked = p.text # p.original]
          /\ spilt' = (spilt \/ pane.text # pane.original)
      <4> HIDE DEF p
      <4>1. /\ pane' = Shell!Editor!Rendered(p)
            /\ spilt' = (spilt \/ Shell!Editor!Dirty(pane))
        BY <1>3, <2>8 DEF Shell!Editor!ReadReplies, p, Blank, Shell!Editor!Blank
      <4> QED
        BY <4>1 DEF Shell!Editor!Rendered, Shell!Editor!Dirty
    <3> HIDE DEF p, text
    <3>3. pane' = p /\ (spilt' <=> spilt) /\ spilt' \in BOOLEAN
      BY <1>t, <3>0, <3>1, <3>2 DEF EditorTypes
    <3>4. \A j \in 1 .. Len(readings') : readings'[j].file # pane.file
      BY <1>t, <2>6, <2>8 DEF ReadsAreApart
    <3>5. ReadsAreApart'
      <4>1. \A j \in 1 .. Len(readings') :
              readings'[j].text # Nil => readings'[j].text = files[readings'[j].file]
        BY <1>t, <2>6 DEF ReadsAreApart
      <4>2. \A j, k \in 1 .. Len(readings') :
              readings'[j].file = readings'[k].file => j = k
        BY <1>t, <1>n, <2>5, <2>6 DEF ReadsAreApart
      <4> QED
        BY <2>2, <3>1, <3>3, <3>4, <4>1, <4>2 DEF ReadsAreApart
    <3>6. text.of \in {pane.file, Nil} /\ (text # Blank => text = files[pane.file])
      BY <1>t, <2>2, <2>3, <2>8 DEF ReadsAreApart, text, Blank, Readings
    <3>7. PaneIsOneFiles'
      <4>1. pane'.marked <=> pane'.text # pane'.original
        BY <1>t, <3>0, <3>1, <3>3 DEF PaneIsOneFiles
      <4>2. /\ {pane'.text.of, pane'.original.of} \subseteq {pane'.file, Nil} /\ ~pane'.loading
            /\ pane'.original # Blank => pane'.original = files'[pane'.file]
        BY <2>2, <3>1, <3>3, <3>6
      <4> QED
        BY <4>1, <4>2 DEF PaneIsOneFiles, TrueTo, Blank
    <3>8. WriteIsThePanes'
      BY <3>0 DEF WriteIsThePanes
    <3>9. EditorTypes'
      BY <1>t, <2>2, <2>5, <3>1, <3>3 DEF EditorTypes
    <3> QED
      BY <1>t, <2>2, <3>3, <3>5, <3>7, <3>8, <3>9 DEF EditorInv, EditorGood
  <2> QED
    BY <2>7, <2>8
<1>4. CASE Shell!Editor!SaveTaken
  <2>1. /\ write # Nil /\ write.reply = "none"
        /\ \/ /\ write' = [write EXCEPT !.reply = "ok"]
              /\ files' = [files EXCEPT ![write.file] = write.text]
           \/ write' = [write EXCEPT !.reply = "failed"] /\ UNCHANGED files
        /\ UNCHANGED <<mounted, pane, held, readings, upset, spilt>>
    BY <1>4 DEF Shell!Editor!SaveTaken
  <2>2. write \in [file : EditorFiles, text : Text, continues : BOOLEAN,
                   reply : {"none", "ok", "failed"}]
    BY <1>t, <2>1 DEF EditorTypes
  <2>3. /\ write.file = pane.file /\ write.text.of \in {pane.file, Nil}
        /\ (write.continues => held # Nil /\ pane.text = write.text)
        /\ TrueTo(pane) /\ ~pane.loading
    BY <1>t, <2>1 DEF WriteIsThePanes, PaneIsOneFiles
  <2>4. CASE /\ write' = [write EXCEPT !.reply = "ok"]
             /\ files' = [files EXCEPT ![write.file] = write.text]
    <3>1. /\ write' \in [file : EditorFiles, text : Text, continues : BOOLEAN,
                         reply : {"none", "ok", "failed"}]
          /\ write' # Nil /\ write'.file = write.file /\ write'.text = write.text
          /\ (write'.continues <=> write.continues) /\ write'.reply = "ok"
      BY <2>2, <2>4, EditorAssumption DEF Text
    <3>2. /\ files' \in [EditorFiles -> Text] /\ files'[pane.file] = write.text
          /\ \A f \in EditorFiles : f # pane.file => files'[f] = files[f]
      BY <1>t, <2>2, <2>3, <2>4 DEF EditorTypes
    <3>3. \A f \in EditorFiles : files'[f].of \in {f, Nil}
      BY <1>t, <2>3, <3>2
    <3>4. \A k \in 1 .. Len(readings) : readings[k].file \in EditorFiles /\ readings[k].file # pane.file
      <4>1. \A k \in 1 .. Len(readings) : readings[k] \in Readings
        BY <1>t, ElementOfSeq DEF EditorTypes
      <4> QED
        BY <1>t, <2>3, <4>1 DEF ReadsAreApart, Readings
    <3>5. ReadsAreApart'
      BY <1>t, <2>1, <3>2, <3>4 DEF ReadsAreApart
    <3>6. PaneIsOneFiles'
      BY <1>t, <2>1, <2>3, <3>1 DEF PaneIsOneFiles, TrueTo
    <3>7. WriteIsThePanes'
      BY <2>1, <2>3, <3>1, <3>2 DEF WriteIsThePanes
    <3> QED
      BY <1>t, <2>1, <3>1, <3>2, <3>3, <3>5, <3>6, <3>7
      DEF EditorInv, EditorTypes, EditorGood
  <2>5. CASE write' = [write EXCEPT !.reply = "failed"] /\ UNCHANGED files
    <3>1. /\ write' \in [file : EditorFiles, text : Text, continues : BOOLEAN,
                         reply : {"none", "ok", "failed"}]
          /\ write' # Nil /\ write'.file = write.file /\ write'.text = write.text
          /\ (write'.continues <=> write.continues) /\ write'.reply = "failed"
      BY <2>2, <2>5, EditorAssumption DEF Text
    <3>2. PaneIsOneFiles' /\ ReadsAreApart'
      BY <1>t, <2>1, <2>3, <2>5, <3>1 DEF PaneIsOneFiles, TrueTo, ReadsAreApart
    <3>3. WriteIsThePanes'
      BY <2>1, <2>3, <2>5, <3>1 DEF WriteIsThePanes, TrueTo
    <3> QED
      BY <1>t, <2>1, <2>5, <3>1, <3>2, <3>3 DEF EditorInv, EditorTypes, EditorGood
  <2> QED
    BY <2>1, <2>4, <2>5
<1>5. ASSUME NEW p \in Panes, p.file = pane.file, pane.file # Nil, p.loading = pane.loading,
             ~p.loading, p.original = pane.original,
             p.text.of \in {pane.file, Nil}, held = Nil,
             (p.text # p.original <=> pane.text # pane.original)
               => (p.marked <=> pane.marked),
             pane' = Shell!Editor!Rendered(p),
             UNCHANGED <<mounted, held, readings, write, files, upset, spilt>>
      PROVE  EditorInv'
  <2>1. pane' = IF (p.text # p.original) = (pane.text # pane.original) THEN p
                ELSE [p EXCEPT !.marked = p.text # p.original]
    BY <1>5 DEF Shell!Editor!Rendered, Shell!Editor!Dirty
  <2>2. /\ pane' \in Panes /\ pane'.file = pane.file /\ ~pane'.loading
        /\ pane'.original = pane.original /\ pane'.text = p.text
    BY <1>5, <2>1 DEF Panes
  <2>3. pane'.marked <=> pane'.text # pane'.original
    BY <1>t, <1>5, <2>1 DEF PaneIsOneFiles, Panes
  <2>4. ~pane.loading
    BY <1>5
  <2>5. PaneIsOneFiles' /\ ReadsAreApart'
    BY <1>t, <1>5, <2>2, <2>3, <2>4 DEF PaneIsOneFiles, TrueTo, ReadsAreApart, Blank
  <2>6. WriteIsThePanes'
    BY <1>t, <1>5, <2>2, <2>4 DEF WriteIsThePanes, TrueTo, Blank
  <2> QED
    BY <1>t, <1>5, <2>2, <2>5, <2>6 DEF EditorInv, EditorTypes, EditorGood
<1>6. CASE Shell!Editor!Types
  <2> DEFINE n == pane.edits + 1
             of == IF pane.text.of = Nil THEN pane.file ELSE pane.text.of
             p == [pane EXCEPT !.text = [of |-> of, n |-> n], !.edits = n]
  <2>1. /\ pane.file # Nil /\ ~pane.loading /\ held = Nil /\ pane.edits < MaxEdits
        /\ pane' = Shell!Editor!Rendered(p)
        /\ UNCHANGED <<mounted, held, readings, write, files, upset, spilt>>
    BY <1>6 DEF Shell!Editor!Types
  <2>2. pane \in Panes /\ pane.text.of \in {pane.file, Nil}
    BY <1>t, <2>1 DEF EditorTypes, PaneIsOneFiles
  <2>3. n \in 0 .. MaxEdits
    BY <2>1, <2>2, EditorAssumption DEF Panes
  <2>4. of = pane.file /\ of \in EditorFiles
    BY <2>1, <2>2 DEF Panes
  <2> HIDE DEF n, of
  <2>5. [of |-> of, n |-> n] \in Text
    BY <2>3, <2>4 DEF Text
  <2>6. /\ p \in Panes /\ p.file = pane.file /\ p.loading = pane.loading
        /\ p.original = pane.original /\ (p.marked <=> pane.marked)
        /\ p.text.of \in {pane.file, Nil}
    BY <2>2, <2>3, <2>4, <2>5 DEF Panes
  <2> HIDE DEF p
  <2> QED
    BY <1>5, <2>1, <2>6
<1>7. CASE Shell!Editor!revert
  <2> DEFINE p == [pane EXCEPT !.text = pane.original]
  <2>1. /\ pane.text # pane.original /\ held = Nil /\ pane' = Shell!Editor!Rendered(p)
        /\ UNCHANGED <<mounted, held, readings, write, files, upset, spilt>>
    BY <1>7 DEF Shell!Editor!revert, Shell!Editor!Dirty
  <2>2. pane \in Panes /\ pane.original.of \in {pane.file, Nil} /\ ~pane.loading
    BY <1>t, <2>1 DEF EditorTypes, PaneIsOneFiles
  <2>3. /\ p \in Panes /\ p.file = pane.file /\ p.loading = pane.loading
        /\ p.original = pane.original /\ (p.marked <=> pane.marked)
        /\ p.text.of \in {pane.file, Nil}
    BY <2>2 DEF Panes
  <2>4. p.text = p.original
    BY <2>2 DEF Panes
  <2> HIDE DEF p
  <2>5. CASE pane.file # Nil
    BY <1>5, <2>1, <2>2, <2>3, <2>5
  <2>6. CASE pane.file = Nil
    <3>1. write = Nil
      BY <1>t, <2>6, EditorAssumption DEF WriteIsThePanes, EditorTypes
    <3>2. pane' = [p EXCEPT !.marked = FALSE]
      BY <2>1, <2>4 DEF Shell!Editor!Rendered, Shell!Editor!Dirty
    <3>3. /\ pane' \in Panes /\ pane'.file = pane.file /\ pane'.text = pane'.original
          /\ pane'.original = pane.original /\ ~pane'.marked /\ ~pane'.loading
      BY <2>2, <2>3, <2>4, <3>2 DEF Panes
    <3>4. PaneIsOneFiles' /\ ReadsAreApart'
      BY <1>t, <2>1, <2>2, <2>6, <3>3 DEF PaneIsOneFiles, TrueTo, ReadsAreApart
    <3>5. WriteIsThePanes'
      BY <2>1, <3>1 DEF WriteIsThePanes
    <3> QED
      BY <1>t, <2>1, <3>3, <3>4, <3>5 DEF EditorInv, EditorTypes, EditorGood
  <2> QED
    BY <2>5, <2>6
<1>8. ASSUME NEW continues \in BOOLEAN, Shell!Editor!save(continues),
             continues => held # Nil
      PROVE  EditorInv'
  <2>1. /\ pane.file # Nil /\ pane.text # pane.original /\ write = Nil
        /\ write' = [file |-> pane.file, text |-> pane.text, continues |-> continues,
                     reply |-> "none"]
        /\ UNCHANGED <<mounted, pane, held, readings, files, upset, spilt>>
    BY <1>8 DEF Shell!Editor!save, Shell!Editor!Dirty
  <2>2. pane \in Panes /\ pane.text.of \in {pane.file, Nil} /\ ~pane.loading /\ TrueTo(pane)
    BY <1>t, <2>1 DEF EditorTypes, PaneIsOneFiles
  <2>3. /\ write' \in [file : EditorFiles, text : Text, continues : BOOLEAN,
                       reply : {"none", "ok", "failed"}]
        /\ write'.file = pane.file /\ write'.text = pane.text /\ write'.reply = "none"
        /\ (write'.continues <=> continues)
    BY <2>1, <2>2 DEF Panes
  <2>4. WriteIsThePanes'
    BY <1>8, <2>1, <2>2, <2>3 DEF WriteIsThePanes, TrueTo
  <2>5. PaneIsOneFiles' /\ ReadsAreApart'
    BY <1>t, <2>1, <2>2 DEF PaneIsOneFiles, ReadsAreApart, TrueTo
  <2> QED
    BY <1>t, <2>1, <2>3, <2>4, <2>5 DEF EditorInv, EditorTypes, EditorGood
<1>9. CASE Shell!Editor!SaveClick
  BY <1>8, <1>9 DEF Shell!Editor!SaveClick
<1>10. CASE Shell!Editor!saveAndContinue
  <2>1. CASE Shell!Editor!save(TRUE)
    BY <1>8, <1>10, <2>1 DEF Shell!Editor!saveAndContinue
  <2>2. CASE ~ Shell!Editor!save(TRUE)
    <3> DEFINE p == [pane EXCEPT !.marked = FALSE]
    <3>1. /\ held # Nil /\ pane.text = pane.original /\ write = Nil /\ held' = Nil
          /\ Shell!Editor!Perform(held, p, FALSE, FALSE)
          /\ UNCHANGED <<write, files>>
      BY <1>10, <2>2 DEF Shell!Editor!saveAndContinue, Shell!Editor!Dirty
    <3>2. pane \in Panes /\ held \in Acts
      BY <1>t DEF EditorTypes
    <3>3. /\ p \in Panes /\ p.file = pane.file /\ p.loading = pane.loading
          /\ p.text = pane.text /\ p.original = pane.original /\ ~p.marked
      BY <3>2 DEF Panes
    <3> HIDE DEF p
    <3>4. Performed(held, p, FALSE)
      BY <1>t, <3>1, <3>2, <3>3, EditorPerforms
    <3>5. TrueTo(p)
      BY <1>t, <3>1, <3>3 DEF PaneIsOneFiles, TrueTo
    <3>6. ~p.loading => {p.text.of, p.original.of} \subseteq {p.file, Nil}
      BY <1>t, <3>3 DEF PaneIsOneFiles
    <3>7. Nil \in Acts
      BY DEF Acts
    <3> QED
      BY <1>0, <3>1, <3>2, <3>3, <3>4, <3>5, <3>6, <3>7, EditorGoesOn
  <2> QED
    BY <2>1, <2>2
<1>11. CASE Shell!Editor!discardAndContinue
  <2> DEFINE p == [pane EXCEPT !.text = pane.original, !.marked = FALSE]
  <2>1. /\ held # Nil /\ held' = Nil /\ Shell!Editor!Perform(held, p, write # Nil, TRUE)
        /\ UNCHANGED <<write, files>>
    BY <1>11 DEF Shell!Editor!discardAndContinue
  <2>2. pane \in Panes /\ held \in Acts
    BY <1>t DEF EditorTypes
  <2>3. /\ p \in Panes /\ p.file = pane.file /\ p.loading = pane.loading
        /\ p.text = pane.original /\ p.original = pane.original /\ ~p.marked
    BY <2>2 DEF Panes
  <2> HIDE DEF p
  <2>4. Performed(held, p, write # Nil)
    BY <1>t, <2>1, <2>2, <2>3, EditorPerforms
  <2>5. upset' = {} => write' = Nil /\ TrueTo(p)
    BY <1>t, <2>1, <2>3, <2>4 DEF PaneIsOneFiles, TrueTo, Performed
  <2>6. ~p.loading => {p.text.of, p.original.of} \subseteq {p.file, Nil}
    BY <1>t, <2>3 DEF PaneIsOneFiles
  <2>7. Nil \in Acts
    BY DEF Acts
  <2> QED
    BY <1>0, <1>t, <2>1, <2>2, <2>3, <2>4, <2>5, <2>6, <2>7, EditorGoesOn DEF EditorTypes
<1>12. CASE Shell!Editor!Cancel
  <2>1. /\ held # Nil /\ held' = Nil
        /\ upset' = IF write = Nil THEN upset
                    ELSE IF write.continues THEN upset \cup {"cancelled"} ELSE upset
        /\ UNCHANGED <<mounted, pane, readings, write, files, spilt>>
    BY <1>12 DEF Shell!Editor!Cancel
  <2>2. EditorTypes'
    BY <1>t, <2>1 DEF EditorTypes, Acts
  <2>3. upset' = {} => (write # Nil => ~write.continues)
    BY <2>1
  <2>4. PaneIsOneFiles' /\ ReadsAreApart'
    BY <1>t, <2>1 DEF PaneIsOneFiles, ReadsAreApart, TrueTo
  <2>5. upset' = {} => WriteIsThePanes'
    BY <1>t, <2>1, <2>3 DEF WriteIsThePanes, TrueTo
  <2> QED
    BY <1>t, <2>1, <2>2, <2>4, <2>5 DEF EditorInv, EditorGood
<1>13. CASE Shell!Editor!SaveReplies
  <2> DEFINE ok == write.reply = "ok"
             goesOn == ok /\ write.continues
             p == [pane EXCEPT !.original = IF ok THEN write.text ELSE @,
                               !.marked = @ /\ ~goesOn]
             act == IF goesOn THEN held ELSE Nil
  <2>1. /\ write # Nil /\ write.reply # "none" /\ write' = Nil
        /\ held' = IF write.continues THEN Nil ELSE held
        /\ Shell!Editor!Perform(act, p, FALSE, FALSE)
        /\ UNCHANGED files
    BY <1>13 DEF Shell!Editor!SaveReplies
  <2>2. /\ pane \in Panes /\ held \in Acts /\ Nil \in Acts
        /\ write \in [file : EditorFiles, text : Text, continues : BOOLEAN,
                      reply : {"none", "ok", "failed"}]
    BY <1>t, <2>1 DEF EditorTypes, Acts
  <2>3. /\ write.file = pane.file /\ write.text.of \in {pane.file, Nil}
        /\ write.continues => held # Nil /\ pane.text = write.text
        /\ ok => files[pane.file] = write.text
        /\ ~ok => TrueTo(pane)
        /\ ~pane.loading /\ {pane.text.of, pane.original.of} \subseteq {pane.file, Nil}
        /\ pane.marked <=> pane.text # pane.original
    BY <1>t, <2>1 DEF WriteIsThePanes, PaneIsOneFiles
  <2>4. /\ p \in Panes /\ p.file = pane.file /\ p.loading = pane.loading
        /\ p.text = pane.text /\ p.original = (IF ok THEN write.text ELSE pane.original)
    BY <2>2 DEF Panes
  <2>5. p.marked <=> pane.marked /\ ~goesOn
    BY <2>2 DEF Panes
  <2>6. /\ act \in Acts /\ held' \in Acts
        /\ act # Nil => goesOn
    BY <2>1, <2>2
  <2> HIDE DEF p, act
  <2>7. Performed(act, p, FALSE)
    BY <1>t, <2>1, <2>4, <2>6, EditorPerforms
  <2>8. TrueTo(p)
    BY <2>3, <2>4 DEF TrueTo
  <2>9. {p.text.of, p.original.of} \subseteq {p.file, Nil}
    BY <2>3, <2>4
  <2>10. goesOn => p.text = p.original
    BY <2>3, <2>4
  <2>11. (p.text # p.original <=> pane.text # pane.original) => (p.marked <=> p.text # p.original)
    BY <2>3, <2>5, <2>10
  <2> QED
    BY <1>0, <2>1, <2>3, <2>4, <2>6, <2>7, <2>8, <2>9, <2>10, <2>11, EditorGoesOn
<1> QED
  BY <1>b, <1>1, <1>2, <1>3, <1>4, <1>6, <1>7, <1>9, <1>10, <1>11, <1>12, <1>13, <1>n
  DEF Shell!Editor!EditorNext, Shell!Editor!Close

-----------------------------------------------------------------------------
(****************************************************************************)
(* Signing in from a browser (remote_auth.go).                              *)
(****************************************************************************)
\* What signing in rests on: a browser's cookie is of a request it made, a
\* request that counts for something was made, and a right password under
\* verification is the one that is set.
Asked ==
  /\ \A b \in Browsers : token[b] # Nil => minted[token[b]] = b
  /\ \A p \in awaiting : minted[p.for] # Nil
  /\ \A q \in devices \cup refused : minted[q] # Nil
Verified ==
  ~ overtaken =>
    \A b \in Browsers : verifying[b] # Nil /\ verifying[b].ok => verifying[b].earned = password

AuthInv ==
  /\ Shell!Auth!AuthTypeOK /\ Asked /\ Verified
  /\ IsFiniteSet(awaiting) /\ Shell!Auth!SignInIsSound

\* RemoteAuth counts with the FiniteSets it extends.
LEMMA AuthCounts == ASSUME NEW S PROVE Shell!Auth!Cardinality(S) = Cardinality(S)
BY DEF Shell!Auth!Cardinality, Cardinality

\* No browser is signed in.
LEMMA AuthStart == Shell!Auth!AuthInit => AuthInv
<1> SUFFICES ASSUME Shell!Auth!AuthInit PROVE AuthInv
  OBVIOUS
<1>1. Shell!Auth!AuthTypeOK
  <2>0. MaxPasswords \in Nat /\ MaxPasswords >= 1
    BY AuthAssumption
  <2>1. password \in 1..MaxPasswords
    BY <2>0 DEF Shell!Auth!AuthInit
  <2>6. overtaken \in BOOLEAN
    BY DEF Shell!Auth!AuthInit
  <2>2. minted \in [Shell!Auth!Requests -> Browsers \cup {Nil}]
    BY AuthAssumption DEF Shell!Auth!AuthInit
  <2>3. page \in [Browsers -> {"form", "submitting", "waiting", "in"}]
    BY AuthAssumption DEF Shell!Auth!AuthInit
  <2>4. token \in [Browsers -> Shell!Auth!Requests \cup {Nil}]
    BY AuthAssumption DEF Shell!Auth!AuthInit
  <2>5. verifying
                       \in [Browsers ->
                              [key : Shell!Auth!Requests \cup {Nil},
                               earned : Shell!Auth!Passwords, 
                               ok : BOOLEAN]
                              \cup {Nil}]
    BY AuthAssumption DEF Shell!Auth!AuthInit
  <2> QED
    BY <2>1, <2>2, <2>3, <2>4, <2>5, <2>6
    DEF Shell!Auth!AuthInit, Shell!Auth!AuthTypeOK, Shell!Auth!Requests, Shell!Auth!Passwords
<1>2. IsFiniteSet(awaiting) /\ Cardinality(awaiting) = 0
  BY FS_EmptySet DEF Shell!Auth!AuthInit
<1>3. Asked /\ Verified
  BY DEF Shell!Auth!AuthInit, Asked, Verified
<1>4. Shell!Auth!SignInIsSound
  <2>1. MAX_PENDING >= 0
    BY AuthAssumption
  <2>2. awaiting = {} /\ sessions = {} /\ devices = {} /\ refused = {}
    BY DEF Shell!Auth!AuthInit
  <2>3. Cardinality(awaiting) <= MAX_PENDING
    BY <1>2, <2>1
  <2>4. Shell!Auth!SessionsAreApproved
    BY <2>2 DEF Shell!Auth!SessionsAreApproved
  <2>5. Shell!Auth!NothingOfAnOldPassword
    BY <2>2 DEF Shell!Auth!NothingOfAnOldPassword
  <2>6. Shell!Auth!RequestsAreAnsweredOnce
    <3>1. /\ devices \cap refused = {}
          /\ \A p \in awaiting : FALSE
      BY <2>2
    <3> QED
      BY <2>3, <3>1, AuthCounts DEF Shell!Auth!RequestsAreAnsweredOnce
  <2> QED
    BY <2>4, <2>5, <2>6 DEF Shell!Auth!SignInIsSound
<1> QED
  BY <1>1, <1>2, <1>3, <1>4 DEF AuthInv

\* The types of remote_auth.go's tables are kept by every step.
LEMMA AuthTypes ==
  ASSUME Shell!Auth!AuthTypeOK, Shell!Auth!AuthNext
  PROVE  Shell!Auth!AuthTypeOK'
<1> USE AuthAssumption DEF Shell!Auth!AuthTypeOK
<1>1. /\ \A p \in awaiting : /\ p.for \in Shell!Auth!Requests /\ p.earned \in Shell!Auth!Passwords
                            /\ p.granted \in BOOLEAN
                            /\ [p EXCEPT !.granted = TRUE] \in Shell!Auth!Waiting
      /\ \A b \in Browsers, q \in Shell!Auth!Requests, n \in Shell!Auth!Passwords :
           /\ [for |-> q, earned |-> n, granted |-> FALSE] \in Shell!Auth!Waiting
           /\ [browser |-> b, device |-> q, earned |-> n] \in Shell!Auth!Session
  BY ZenonT(30) DEF Shell!Auth!Waiting, Shell!Auth!Session
<1>2. ASSUME NEW b \in Browsers, NEW ok \in BOOLEAN, Shell!Auth!LoginBegins(b, ok)
      PROVE  Shell!Auth!AuthTypeOK'
  BY <1>2 DEF Shell!Auth!LoginBegins, Shell!Auth!Known
<1>3. ASSUME NEW b \in Browsers, Shell!Auth!LoginEnds(b)
      PROVE  Shell!Auth!AuthTypeOK'
  <2>1. /\ verifying[b].earned \in Shell!Auth!Passwords
        /\ verifying' \in [Browsers -> [key : Shell!Auth!Requests \cup {Nil},
                                       earned : Shell!Auth!Passwords, ok : BOOLEAN] \cup {Nil}]
        /\ buckets' \subseteq Shell!Auth!Requests \cup {Nil}
        /\ UNCHANGED <<password, devices, refused, overtaken>>
    BY <1>3 DEF Shell!Auth!LoginEnds
  <2>2. CASE Shell!Auth!WrongPassword(b)
    BY <2>1, <2>2 DEF Shell!Auth!WrongPassword
  <2>3. CASE Shell!Auth!SignsIn(b)
    <3>1. token[b] \in Shell!Auth!Requests
      BY <2>3 DEF Shell!Auth!SignsIn, Shell!Auth!Known
    <3>2. /\ page' \in [Browsers -> {"form", "submitting", "waiting", "in"}]
          /\ token' \in [Browsers -> Shell!Auth!Requests \cup {Nil}]
      BY <2>3, <3>1 DEF Shell!Auth!SignsIn, Shell!Auth!Answered
    <3>3. awaiting' \subseteq Shell!Auth!Waiting /\ minted' = minted
      BY <2>3 DEF Shell!Auth!SignsIn
    <3>4. sessions' \subseteq Shell!Auth!Session
      <4>1. sessions' = sessions \cup {[browser |-> b, device |-> token[b],
                                      earned |-> verifying[b].earned]}
        BY <2>3 DEF Shell!Auth!SignsIn
      <4> QED
        BY <2>1, <3>1, <4>1 DEF Shell!Auth!Session
    <3> QED
      BY <2>1, <3>2, <3>3, <3>4
  <2>4. CASE Shell!Auth!ServePending(b)
    <3>1. /\ awaiting' \subseteq Shell!Auth!Waiting
          /\ minted' \in [Shell!Auth!Requests -> Browsers \cup {Nil}]
      <4>1. CASE UNCHANGED <<awaiting, minted>>
        BY <4>1
      <4>2. ASSUME NEW q \in Shell!Auth!Requests, minted' = [minted EXCEPT ![q] = b],
                   awaiting' = awaiting \cup {[for |-> q, earned |-> verifying[b].earned,
                                              granted |-> FALSE]}
            PROVE  /\ awaiting' \subseteq Shell!Auth!Waiting
                   /\ minted' \in [Shell!Auth!Requests -> Browsers \cup {Nil}]
        <5>1. verifying[b].earned \in Shell!Auth!Passwords
          BY <2>1
        <5>2. [for |-> q, earned |-> verifying[b].earned, granted |-> FALSE] \in Shell!Auth!Waiting
          BY <5>1 DEF Shell!Auth!Waiting
        <5> QED BY <4>2, <5>2
      <4> QED
        BY <2>4, <4>1, <4>2 DEF Shell!Auth!ServePending
    <3>2. /\ page' \in [Browsers -> {"form", "submitting", "waiting", "in"}]
          /\ token' \in [Browsers -> Shell!Auth!Requests \cup {Nil}]
          /\ sessions' = sessions
      BY <2>4 DEF Shell!Auth!ServePending, Shell!Auth!Answered
    <3> QED
      BY <2>1, <3>1, <3>2
  <2> QED
    BY <1>3, <2>2, <2>3, <2>4 DEF Shell!Auth!LoginEnds
<1>4. ASSUME NEW b \in Browsers, Shell!Auth!Poll(b)
      PROVE  Shell!Auth!AuthTypeOK'
  <2>1. page' \in [Browsers -> {"form", "submitting", "waiting", "in"}]
    BY <1>4 DEF Shell!Auth!Poll
  <2>2. awaiting' \subseteq awaiting
    BY <1>4 DEF Shell!Auth!Poll
  <2>3. sessions' \subseteq Shell!Auth!Session
    <3>1. ASSUME NEW p \in awaiting, token[b] \in devices,
                 sessions' = sessions \cup {[browser |-> b, device |-> token[b],
                                            earned |-> p.earned]}
          PROVE  sessions' \subseteq Shell!Auth!Session
      <4>1. p.earned \in Shell!Auth!Passwords /\ token[b] \in Shell!Auth!Requests
        BY <1>1, <3>1
      <4> QED BY <3>1, <4>1 DEF Shell!Auth!Session
    <3> QED
      BY <1>4, <3>1 DEF Shell!Auth!Poll
  <2> QED
    BY <1>4, <2>1, <2>2, <2>3 DEF Shell!Auth!Poll
<1>5. ASSUME NEW b \in Browsers, Shell!Auth!Reload(b)
      PROVE  Shell!Auth!AuthTypeOK'
  BY <1>5 DEF Shell!Auth!Reload
<1>6. ASSUME NEW q \in Shell!Auth!Requests, Shell!Auth!ApproveDevice(q) \/ Shell!Auth!RemoveDevice(q)
      PROVE  Shell!Auth!AuthTypeOK'
  BY <1>1, <1>6 DEF Shell!Auth!ApproveDevice, Shell!Auth!RemoveDevice
<1>7. ASSUME NEW q \in Shell!Auth!Requests, NEW denied \in BOOLEAN, Shell!Auth!RequestGone(q, denied)
      PROVE  Shell!Auth!AuthTypeOK'
  BY <1>7 DEF Shell!Auth!RequestGone
<1>8. ASSUME NEW there \in SUBSET Browsers, Shell!Auth!ForgetHost(there)
      PROVE  Shell!Auth!AuthTypeOK'
  BY <1>1, <1>8 DEF Shell!Auth!ForgetHost
<1>9. CASE Shell!Auth!SetPassword
  <2>1. password' \in 1..MaxPasswords 
    BY <1>9 DEF Shell!Auth!SetPassword, Shell!Auth!Passwords
  <2>2. overtaken' \in BOOLEAN
    BY <1>9 DEF Shell!Auth!SetPassword, Shell!Auth!Passwords
  <2>3. refused' \subseteq Shell!Auth!Requests
    BY <1>1, <1>9 DEF Shell!Auth!SetPassword, Shell!Auth!Passwords
  <2> QED  BY <2>1, <2>2, <2>3, <1>9 DEF Shell!Auth!SetPassword, Shell!Auth!Passwords
<1>10. ASSUME NEW gone, Shell!Auth!SessionsEnd(gone)
      PROVE  Shell!Auth!AuthTypeOK'
  BY <1>10 DEF Shell!Auth!SessionsEnd
<1> QED
  BY <1>2, <1>3, <1>4, <1>5, <1>6, <1>7, <1>8, <1>9, <1>10 DEF Shell!Auth!AuthNext

\* What the records of the tables hold.
LEMMA AuthRecords ==
  ASSUME Shell!Auth!AuthTypeOK
  PROVE  /\ \A p \in awaiting : /\ p.for \in Shell!Auth!Requests
                               /\ p.earned \in Shell!Auth!Passwords /\ p.granted \in BOOLEAN
         /\ \A s \in sessions : s.device \in Shell!Auth!Requests /\ s.browser \in Browsers
         /\ \A q \in Shell!Auth!Requests : minted[q] \in Browsers \cup {Nil}
BY DEF Shell!Auth!AuthTypeOK, Shell!Auth!Waiting, Shell!Auth!Session

\* What only takes requests, devices and sessions away keeps what holds of
\* them, if a request is refused when it goes ungranted and a session goes with
\* its device.
LEMMA AuthShrinks ==
  ASSUME AuthInv,
         awaiting' \subseteq awaiting, devices' \subseteq devices, sessions' \subseteq sessions,
         refused' \subseteq refused \cup {p.for : p \in {w \in awaiting \ awaiting' : ~ w.granted}},
         \A s \in sessions' : s.device \in devices',
         minted' = minted, token' = token
  PROVE  /\ Asked' /\ IsFiniteSet(awaiting)'
         /\ Shell!Auth!SessionsAreApproved' /\ Shell!Auth!RequestsAreAnsweredOnce'
<1> USE DEF AuthInv, Shell!Auth!SignInIsSound
<1>1. \A q \in refused' \ refused :
        /\ q \notin devices /\ minted[q] # Nil
        /\ \A p \in awaiting' : p.for # q
  <2> SUFFICES ASSUME NEW q \in refused' \ refused
               PROVE  /\ q \notin devices /\ minted[q] # Nil
                      /\ \A p \in awaiting' : p.for # q
    OBVIOUS
  <2>1. PICK p \in awaiting : p \notin awaiting' /\ ~ p.granted /\ p.for = q
    OBVIOUS
  <2> QED
    BY <2>1 DEF Shell!Auth!RequestsAreAnsweredOnce, Asked
<1>2. Asked'
  BY <1>1 DEF Asked
<1>3. Shell!Auth!SessionsAreApproved'
  BY <1>1 DEF Shell!Auth!SessionsAreApproved
<1>4. IsFiniteSet(awaiting') /\ Cardinality(awaiting') <= Cardinality(awaiting)
  BY FS_Subset
<1>5. Shell!Auth!RequestsAreAnsweredOnce'
  <2>1. Cardinality(awaiting') <= MAX_PENDING
    <3>1. /\ Cardinality(awaiting) \in Nat /\ Cardinality(awaiting') \in Nat
          /\ Cardinality(awaiting) <= MAX_PENDING /\ MAX_PENDING \in Nat
      BY <1>4, FS_CardinalityType, AuthCounts, AuthAssumption DEF Shell!Auth!RequestsAreAnsweredOnce
    <3> QED
      BY <1>4, <3>1
  <2>2. devices' \cap refused' = {}
    BY <1>1 DEF Shell!Auth!RequestsAreAnsweredOnce
  <2>3. /\ \A p, q \in awaiting' : p.for = q.for => p = q
        /\ \A p \in awaiting' : p.for \notin refused' /\ (p.for \in devices' => p.granted)
    BY <1>1 DEF Shell!Auth!RequestsAreAnsweredOnce
  <2>4. \A p \in awaiting' : p.granted => Shell!Auth!Of(p.for)' = {}
    BY DEF Shell!Auth!RequestsAreAnsweredOnce, Shell!Auth!Of
  <2> QED
    BY <2>1, <2>2, <2>3, <2>4, AuthCounts
    DEF Shell!Auth!RequestsAreAnsweredOnce, Shell!Auth!Of
<1> QED
  BY <1>2, <1>3, <1>4, <1>5

\* And what was earned stays earned with the password that is set.
LEMMA AuthStillEarned ==
  ASSUME AuthInv, UNCHANGED <<password, overtaken>>,
         awaiting' \subseteq awaiting, sessions' \subseteq sessions,
         \A b \in Browsers : verifying'[b] \in {verifying[b], Nil}
  PROVE  Verified' /\ Shell!Auth!NothingOfAnOldPassword'
BY DEF AuthInv, Verified, Shell!Auth!SignInIsSound, Shell!Auth!NothingOfAnOldPassword

\* What takes a device, a request or a session away lets nobody in.
LEMMA AuthTakesAway ==
  ASSUME AuthInv, Shell!Auth!AuthTypeOK',
         \/ \E b \in Browsers : Shell!Auth!Reload(b)
         \/ \E q \in Shell!Auth!Requests, denied \in BOOLEAN :
              Shell!Auth!RemoveDevice(q) \/ Shell!Auth!RequestGone(q, denied)
         \/ \E there \in SUBSET Browsers : Shell!Auth!ForgetHost(there)
         \/ \E gone \in SUBSET sessions : Shell!Auth!SessionsEnd(gone)
  PROVE  AuthInv'
<1>1. \A s \in sessions : s.device \in devices /\ minted[s.device] = s.browser
  BY DEF AuthInv, Shell!Auth!SignInIsSound, Shell!Auth!SessionsAreApproved
<1>2. /\ UNCHANGED <<token, verifying, password, minted, overtaken>>
      /\ awaiting' \subseteq awaiting /\ devices' \subseteq devices /\ sessions' \subseteq sessions
      /\ refused' \subseteq refused \cup {p.for : p \in {w \in awaiting \ awaiting' : ~ w.granted}}
      /\ \A s \in sessions' : s.device \in devices'
  <2>1. ASSUME NEW b \in Browsers, Shell!Auth!Reload(b)
        PROVE  <1>2!:
    BY <1>1, <2>1 DEF Shell!Auth!Reload
  <2>2. ASSUME NEW q \in Shell!Auth!Requests, Shell!Auth!RemoveDevice(q)
        PROVE  <1>2!:
    BY <1>1, <2>2 DEF Shell!Auth!RemoveDevice, Shell!Auth!Of
  <2>3. ASSUME NEW q \in Shell!Auth!Requests, NEW denied \in BOOLEAN,
               Shell!Auth!RequestGone(q, denied)
        PROVE  <1>2!:
    BY <1>1, <2>3 DEF Shell!Auth!RequestGone
  <2>4. ASSUME NEW there \in SUBSET Browsers, Shell!Auth!ForgetHost(there)
        PROVE  <1>2!:
    BY <1>1, <2>4 DEF Shell!Auth!ForgetHost, Shell!Auth!Of
  <2>5. ASSUME NEW gone \in SUBSET sessions, Shell!Auth!SessionsEnd(gone)
        PROVE  <1>2!:
    BY <1>1, <2>5 DEF Shell!Auth!SessionsEnd
  <2> QED
    BY <2>1, <2>2, <2>3, <2>4, <2>5
<1>3. Asked' /\ IsFiniteSet(awaiting)' /\ Shell!Auth!SessionsAreApproved'
      /\ Shell!Auth!RequestsAreAnsweredOnce'
  BY <1>2, AuthShrinks
<1>4. Verified' /\ Shell!Auth!NothingOfAnOldPassword'
  BY <1>2, AuthStillEarned
<1> QED
  BY <1>3, <1>4 DEF AuthInv, Shell!Auth!SignInIsSound

\* A password that is verified lets in only a browser whose device was approved.
LEMMA AuthVerifies ==
  ASSUME AuthInv, Shell!Auth!AuthTypeOK', NEW b \in Browsers,
         \/ \E ok \in BOOLEAN : Shell!Auth!LoginBegins(b, ok)
         \/ Shell!Auth!LoginEnds(b) /\ Shell!Auth!WrongPassword(b)
         \/ Shell!Auth!LoginEnds(b) /\ Shell!Auth!SignsIn(b)
         \/ Shell!Auth!LoginEnds(b) /\ Shell!Auth!ServePending(b)
         \/ Shell!Auth!Poll(b)
         \/ \E q \in Shell!Auth!Requests : Shell!Auth!ApproveDevice(q)
  PROVE  Verified' /\ Shell!Auth!NothingOfAnOldPassword'
<1> USE DEF AuthInv, Shell!Auth!SignInIsSound, Verified, Shell!Auth!NothingOfAnOldPassword
<1> DEFINE Earned == /\ \A x \in Browsers : verifying[x] # Nil /\ verifying[x].ok
                                               => verifying[x].earned = password
                   /\ \A e \in sessions \cup awaiting : e.earned = password
<1> SUFFICES ASSUME ~ overtaken'
             PROVE  Earned'
  OBVIOUS
<1>1. ASSUME NEW ok \in BOOLEAN, Shell!Auth!LoginBegins(b, ok)
      PROVE  Earned'
  BY <1>1 DEF Shell!Auth!LoginBegins, Shell!Auth!AuthTypeOK
<1>2. CASE Shell!Auth!LoginEnds(b)
  <2>1. /\ ~ overtaken /\ password' = password
        /\ \A x \in Browsers : verifying'[x] # Nil => verifying'[x] = verifying[x]
        /\ verifying[b] # Nil
    BY <1>2 DEF Shell!Auth!LoginEnds, Shell!Auth!AuthTypeOK
  <2>2. CASE Shell!Auth!WrongPassword(b)
    BY <2>1, <2>2 DEF Shell!Auth!WrongPassword
  <2>3. CASE Shell!Auth!SignsIn(b)
    <3>1. /\ awaiting' \subseteq awaiting /\ verifying[b].earned = password
          /\ \A s \in sessions' : s \in sessions \/ s.earned = verifying[b].earned
      BY <2>1, <2>3 DEF Shell!Auth!SignsIn
    <3> QED
      BY <2>1, <3>1
  <2>4. CASE Shell!Auth!ServePending(b)
    <3>1. /\ sessions' = sessions /\ verifying[b].earned = password
          /\ \A p \in awaiting' : p \in awaiting \/ p.earned = verifying[b].earned
      BY <2>1, <2>4 DEF Shell!Auth!ServePending
    <3> QED
      BY <2>1, <3>1
  <2> QED
    BY <1>2, <2>2, <2>3, <2>4 DEF Shell!Auth!LoginEnds
<1>3. CASE Shell!Auth!Poll(b)
  <2>1. /\ UNCHANGED <<password, overtaken, verifying>> /\ awaiting' \subseteq awaiting
        /\ \A s \in sessions' : s \in sessions \/ \E p \in awaiting : s.earned = p.earned
    BY <1>3 DEF Shell!Auth!Poll
  <2> QED
    BY <2>1
<1>4. ASSUME NEW q \in Shell!Auth!Requests, Shell!Auth!ApproveDevice(q)
      PROVE  Earned'
  <2>1. /\ UNCHANGED <<password, overtaken, verifying, sessions>>
        /\ \A p \in awaiting' : \E w \in awaiting : p.earned = w.earned
    BY <1>4 DEF Shell!Auth!ApproveDevice, Shell!Auth!AuthTypeOK, Shell!Auth!Waiting
  <2> QED
    BY <2>1
<1> HIDE DEF Earned
<1> QED
  BY <1>1, <1>2, <1>3, <1>4

\* A password that is right signs a known device in.
LEMMA AuthSignsIn ==
  ASSUME AuthInv, Shell!Auth!AuthTypeOK', NEW b \in Browsers,
         Shell!Auth!LoginEnds(b), Shell!Auth!SignsIn(b)
  PROVE  AuthInv'
<1>1. /\ token[b] \in devices /\ minted[token[b]] = b /\ token[b] \notin refused
      /\ token[b] \in Shell!Auth!Requests
  BY DEF AuthInv, Shell!Auth!SignsIn, Shell!Auth!Known, Asked, Shell!Auth!AuthTypeOK,
         Shell!Auth!SignInIsSound, Shell!Auth!RequestsAreAnsweredOnce
<1>2. /\ UNCHANGED <<devices, refused, minted>>
      /\ awaiting' \subseteq awaiting
      /\ \A p \in awaiting' : ~ (p.granted /\ p.for = token[b])
      /\ \A s \in sessions' : s \in sessions \/ (s.device = token[b] /\ s.browser = b)
      /\ \A x \in Browsers : token'[x] = token[x]
  BY DEF Shell!Auth!LoginEnds, Shell!Auth!SignsIn, Shell!Auth!Answered, AuthInv, Shell!Auth!AuthTypeOK
<1>3. Asked'
  BY <1>2 DEF AuthInv, Asked
<1>4. Shell!Auth!SessionsAreApproved'
  BY <1>1, <1>2 DEF AuthInv, Shell!Auth!SignInIsSound, Shell!Auth!SessionsAreApproved
<1>5. IsFiniteSet(awaiting') /\ Cardinality(awaiting') <= MAX_PENDING
  <2>1. IsFiniteSet(awaiting') /\ Cardinality(awaiting') <= Cardinality(awaiting)
    BY <1>2, FS_Subset DEF AuthInv
  <2>2. /\ Cardinality(awaiting) \in Nat /\ Cardinality(awaiting') \in Nat
        /\ Cardinality(awaiting) <= MAX_PENDING /\ MAX_PENDING \in Nat
    BY <2>1, FS_CardinalityType, AuthCounts, AuthAssumption
    DEF AuthInv, Shell!Auth!SignInIsSound, Shell!Auth!RequestsAreAnsweredOnce
  <2> QED
    BY <2>1, <2>2
<1>6. Shell!Auth!RequestsAreAnsweredOnce'
  <2>1. \A p \in awaiting' : p.granted => \A s \in sessions' : s.device # p.for
    BY <1>2 DEF AuthInv, Shell!Auth!SignInIsSound, Shell!Auth!RequestsAreAnsweredOnce, Shell!Auth!Of
  <2> QED
    BY <1>2, <1>5, <2>1, AuthCounts
    DEF AuthInv, Shell!Auth!SignInIsSound, Shell!Auth!RequestsAreAnsweredOnce, Shell!Auth!Of
<1>7. Verified' /\ Shell!Auth!NothingOfAnOldPassword'
  BY AuthVerifies
<1> QED
  BY <1>3, <1>4, <1>5, <1>6, <1>7 DEF AuthInv, Shell!Auth!SignInIsSound
\* Approving a request that is not granted, or adding one for a number never
\* given, leaves as many others waiting as there were.
LEMMA AuthServesPending ==
  ASSUME AuthInv, Shell!Auth!AuthTypeOK', NEW b \in Browsers,
         Shell!Auth!LoginEnds(b), Shell!Auth!ServePending(b)
  PROVE  AuthInv'
<1>1. UNCHANGED <<devices, refused, sessions>>
  BY DEF Shell!Auth!LoginEnds, Shell!Auth!ServePending
<1>2. Verified' /\ Shell!Auth!NothingOfAnOldPassword'
  BY AuthVerifies
<1>3. ASSUME UNCHANGED <<awaiting, minted>>,
             UNCHANGED token \/ Shell!Auth!Answered(b, "waiting", token[b])
      PROVE  AuthInv'
  <2>1. \A x \in Browsers : token'[x] = token[x]
    BY <1>3 DEF Shell!Auth!Answered, AuthInv, Shell!Auth!AuthTypeOK
  <2> QED
    BY <1>1, <1>2, <1>3, <2>1 DEF AuthInv, Asked, Shell!Auth!SignInIsSound,
       Shell!Auth!SessionsAreApproved, Shell!Auth!RequestsAreAnsweredOnce, Shell!Auth!Of
<1>4. ASSUME NEW q \in Shell!Auth!Requests, minted[q] = Nil,
             Cardinality(awaiting) < MAX_PENDING,
             minted' = [minted EXCEPT ![q] = b],
             awaiting' = awaiting \cup {[for |-> q, earned |-> verifying[b].earned,
                                        granted |-> FALSE]},
             Shell!Auth!Answered(b, "waiting", q)
      PROVE  AuthInv'
  <2> DEFINE new == [for |-> q, earned |-> verifying[b].earned, granted |-> FALSE]
  <2>1. /\ minted'[q] = b /\ \A r \in Shell!Auth!Requests \ {q} : minted'[r] = minted[r]
        /\ b # Nil
    BY <1>4, AuthAssumption DEF AuthInv, Shell!Auth!AuthTypeOK
  <2>2. /\ q \notin devices /\ q \notin refused /\ \A p \in awaiting : p.for # q
        /\ \A s \in sessions : s.device # q
    BY <1>4 DEF AuthInv, Asked, Shell!Auth!SignInIsSound, Shell!Auth!SessionsAreApproved
  <2>3. Asked'
    <3>1. \A x \in Browsers : token'[x] \in {token[x], q} /\ (token'[x] = q => x = b)
      <4>1. \A x \in Browsers : token[x] # q
        <5>1. q # Nil
          BY HistoryAssumption, AuthAssumption DEF Shell!Auth!Requests
        <5> QED
          BY <1>4, <5>1, AuthAssumption DEF AuthInv, Asked
      <4> QED
        BY <1>4, <4>1 DEF Shell!Auth!Answered, AuthInv, Shell!Auth!AuthTypeOK
    <3>2. \A x \in Browsers : token'[x] # Nil => minted'[token'[x]] = x
      BY <2>1, <3>1 DEF AuthInv, Asked, Shell!Auth!AuthTypeOK
    <3>3. \A p \in awaiting' : minted'[p.for] # Nil
      BY <1>4, <2>1, AuthRecords DEF AuthInv, Asked
    <3>4. \A r \in devices' \cup refused' : minted'[r] # Nil
      BY <1>1, <2>1 DEF AuthInv, Asked, Shell!Auth!AuthTypeOK
    <3> QED
      BY <3>2, <3>3, <3>4 DEF Asked
  <2>4. Shell!Auth!SessionsAreApproved'
    BY <1>1, <2>1, <2>2, AuthRecords
    DEF AuthInv, Shell!Auth!SignInIsSound, Shell!Auth!SessionsAreApproved
  <2>5. IsFiniteSet(awaiting') /\ Cardinality(awaiting') <= MAX_PENDING
    <3>1. new \notin awaiting
      BY <2>2
    <3>2. /\ IsFiniteSet(awaiting') /\ Cardinality(awaiting') = Cardinality(awaiting) + 1
          /\ Cardinality(awaiting) \in Nat
      BY <1>4, <3>1, FS_AddElement, FS_CardinalityType DEF AuthInv
    <3> QED
      BY <1>4, <3>2, AuthAssumption
  <2>6. Shell!Auth!RequestsAreAnsweredOnce'
    <3>1. new.for = q /\ new.granted = FALSE
      OBVIOUS
    <3> HIDE DEF new
    <3>2. awaiting' = awaiting \cup {new}
      BY <1>4 DEF new
    <3>3. /\ \A p, r \in awaiting' : p.for = r.for => p = r
          /\ \A p \in awaiting' : /\ p.for \notin refused' /\ (p.for \in devices' => p.granted)
                                  /\ p.granted => p \in awaiting
      BY <1>1, <2>2, <3>1, <3>2
      DEF AuthInv, Shell!Auth!SignInIsSound, Shell!Auth!RequestsAreAnsweredOnce
    <3> QED
      BY <1>1, <2>5, <3>3, AuthCounts
      DEF AuthInv, Shell!Auth!SignInIsSound, Shell!Auth!RequestsAreAnsweredOnce, Shell!Auth!Of
  <2> QED
    BY <1>2, <2>3, <2>4, <2>5, <2>6 DEF AuthInv, Shell!Auth!SignInIsSound
<1>5. Cardinality(awaiting) \in Nat
  BY FS_CardinalityType DEF AuthInv
<1> QED
  BY <1>3, <1>4, <1>5, AuthCounts, AuthAssumption DEF Shell!Auth!ServePending

\* The page's poll takes the session, once.
LEMMA AuthPolls ==
  ASSUME AuthInv, Shell!Auth!AuthTypeOK', NEW b \in Browsers, Shell!Auth!Poll(b)
  PROVE  AuthInv'
<1>1. Verified' /\ Shell!Auth!NothingOfAnOldPassword'
  BY AuthVerifies
<1>2. UNCHANGED <<token, devices, minted, refused>> /\ awaiting' \subseteq awaiting
  BY DEF Shell!Auth!Poll
<1>3. CASE sessions' = sessions
  <2>1. Asked' /\ IsFiniteSet(awaiting)' /\ Shell!Auth!SessionsAreApproved'
        /\ Shell!Auth!RequestsAreAnsweredOnce'
    BY <1>2, <1>3, AuthShrinks DEF AuthInv, Shell!Auth!SignInIsSound, Shell!Auth!SessionsAreApproved
  <2> QED
    BY <1>1, <2>1 DEF AuthInv, Shell!Auth!SignInIsSound
<1>4. ASSUME NEW p \in awaiting, p.for = token[b], p.granted, awaiting' = awaiting \ {p},
             token[b] \in devices,
             sessions' = sessions \cup {[browser |-> b, device |-> token[b],
                                        earned |-> p.earned]}
      PROVE  AuthInv'
  <2>1. \A s \in sessions' : s \in sessions \/ (s.device = token[b] /\ s.browser = b)
    BY <1>4
  <2>2. \A w \in awaiting' : w.for # token[b]
    BY <1>4 DEF AuthInv, Shell!Auth!SignInIsSound, Shell!Auth!RequestsAreAnsweredOnce
  <2>3. /\ minted[token[b]] = b /\ token[b] \notin refused
    <3>1. token[b] # Nil
      <4>1. p.for \in Shell!Auth!Requests
        BY <1>4, AuthRecords DEF AuthInv
      <4> QED
        BY <1>4, <4>1, HistoryAssumption, AuthAssumption DEF Shell!Auth!Requests
    <3> QED
      BY <1>4, <3>1
      DEF AuthInv, Asked, Shell!Auth!SignInIsSound, Shell!Auth!RequestsAreAnsweredOnce
  <2>4. Shell!Auth!SessionsAreApproved'
    BY <1>2, <1>4, <2>1, <2>3 DEF AuthInv, Shell!Auth!SignInIsSound, Shell!Auth!SessionsAreApproved
  <2>5. Asked'
    BY <1>2 DEF AuthInv, Asked
  <2>6. IsFiniteSet(awaiting') /\ Cardinality(awaiting') <= MAX_PENDING
    <3>1. IsFiniteSet(awaiting') /\ Cardinality(awaiting') <= Cardinality(awaiting)
      BY <1>2, FS_Subset DEF AuthInv
    <3>2. /\ Cardinality(awaiting) \in Nat /\ Cardinality(awaiting') \in Nat
          /\ Cardinality(awaiting) <= MAX_PENDING /\ MAX_PENDING \in Nat
      BY <3>1, FS_CardinalityType, AuthCounts, AuthAssumption
      DEF AuthInv, Shell!Auth!SignInIsSound, Shell!Auth!RequestsAreAnsweredOnce
    <3> QED
      BY <3>1, <3>2
  <2>7. Shell!Auth!RequestsAreAnsweredOnce'
    <3>1. \A w \in awaiting' : w.granted => \A s \in sessions' : s.device # w.for
      BY <1>2, <2>1, <2>2
      DEF AuthInv, Shell!Auth!SignInIsSound, Shell!Auth!RequestsAreAnsweredOnce, Shell!Auth!Of
    <3> QED
      BY <1>2, <2>6, <3>1, AuthCounts
      DEF AuthInv, Shell!Auth!SignInIsSound, Shell!Auth!RequestsAreAnsweredOnce, Shell!Auth!Of
  <2> QED
    BY <1>1, <2>4, <2>5, <2>6, <2>7 DEF AuthInv, Shell!Auth!SignInIsSound
<1> QED
  BY <1>3, <1>4 DEF Shell!Auth!Poll

\* ApproveDevice lets in the browser that asked.
LEMMA AuthApproves ==
  ASSUME AuthInv, Shell!Auth!AuthTypeOK', NEW q \in Shell!Auth!Requests, Shell!Auth!ApproveDevice(q)
  PROVE  AuthInv'
<1>1. PICK p \in awaiting : /\ p.for = q /\ ~ p.granted
                           /\ awaiting' = (awaiting \ {p}) \cup {[p EXCEPT !.granted = TRUE]}
  BY DEF Shell!Auth!ApproveDevice
<1>2. UNCHANGED <<token, minted, refused, sessions>> /\ devices' = devices \cup {q}
  BY DEF Shell!Auth!ApproveDevice
<1> DEFINE granted == [p EXCEPT !.granted = TRUE]
<1>3. granted.for = q /\ granted.granted
  BY <1>1 DEF AuthInv, Shell!Auth!AuthTypeOK, Shell!Auth!Waiting
<1> HIDE DEF granted
<1>4. awaiting' = (awaiting \ {p}) \cup {granted}
  BY <1>1 DEF granted
<1>5. /\ q \notin devices /\ q \notin refused /\ minted[q] # Nil
      /\ \A w \in awaiting \ {p} : w.for # q
      /\ \A s \in sessions : s.device # q
  BY <1>1 DEF AuthInv, Asked, Shell!Auth!SignInIsSound, Shell!Auth!SessionsAreApproved,
              Shell!Auth!RequestsAreAnsweredOnce
<1>6. Asked'
  BY <1>2, <1>3, <1>4, <1>5 DEF AuthInv, Asked
<1>7. Shell!Auth!SessionsAreApproved'
  BY <1>2, <1>5 DEF AuthInv, Shell!Auth!SignInIsSound, Shell!Auth!SessionsAreApproved
<1>8. IsFiniteSet(awaiting') /\ Cardinality(awaiting') <= MAX_PENDING
  <2>1. granted \notin awaiting \ {p}
    BY <1>3, <1>5
  <2>2. /\ IsFiniteSet(awaiting \ {p}) /\ Cardinality(awaiting \ {p}) = Cardinality(awaiting) - 1
    BY FS_RemoveElement DEF AuthInv
  <2>3. IsFiniteSet(awaiting') /\ Cardinality(awaiting') = Cardinality(awaiting \ {p}) + 1
    BY <1>4, <2>1, <2>2, FS_AddElement
  <2>4. /\ Cardinality(awaiting) \in Nat /\ Cardinality(awaiting) <= MAX_PENDING
    BY FS_CardinalityType, AuthCounts
    DEF AuthInv, Shell!Auth!SignInIsSound, Shell!Auth!RequestsAreAnsweredOnce
  <2> QED
    BY <2>2, <2>3, <2>4
<1>9. Shell!Auth!RequestsAreAnsweredOnce'
  <2>1. /\ devices' \cap refused' = {}
        /\ \A v, w \in awaiting' : v.for = w.for => v = w
        /\ \A w \in awaiting' : w.for \notin refused' /\ (w.for \in devices' => w.granted)
    BY <1>2, <1>3, <1>4, <1>5
    DEF AuthInv, Shell!Auth!SignInIsSound, Shell!Auth!RequestsAreAnsweredOnce
  <2>2. \A w \in awaiting' : w.granted => \A s \in sessions : s.device # w.for
    BY <1>3, <1>4, <1>5
    DEF AuthInv, Shell!Auth!SignInIsSound, Shell!Auth!RequestsAreAnsweredOnce, Shell!Auth!Of
  <2> QED
    BY <1>2, <1>8, <2>1, <2>2, AuthCounts DEF Shell!Auth!RequestsAreAnsweredOnce, Shell!Auth!Of
<1>10. Verified' /\ Shell!Auth!NothingOfAnOldPassword'
  <2> PICK b \in Browsers : b = minted[q]
    BY <1>5, AuthRecords DEF AuthInv
  <2> QED
    BY AuthVerifies
<1> QED
  BY <1>6, <1>7, <1>8, <1>9, <1>10 DEF AuthInv, Shell!Auth!SignInIsSound

\* SetPassword ends every request and session.
LEMMA AuthSetsPassword ==
  ASSUME AuthInv, Shell!Auth!AuthTypeOK', Shell!Auth!SetPassword
  PROVE  AuthInv'
<1>1. /\ UNCHANGED <<token, verifying, devices, minted>>
      /\ awaiting' = {} /\ sessions' = {}
      /\ refused' \subseteq refused \cup {p.for : p \in {w \in awaiting \ awaiting' : ~ w.granted}}
      /\ ~ overtaken' => ~ \E b \in Browsers : verifying[b] # Nil /\ verifying[b].ok
  BY DEF Shell!Auth!SetPassword
<1>2. Asked' /\ IsFiniteSet(awaiting)' /\ Shell!Auth!SessionsAreApproved'
      /\ Shell!Auth!RequestsAreAnsweredOnce'
  BY <1>1, AuthShrinks
<1>3. Verified' /\ Shell!Auth!NothingOfAnOldPassword'
  BY <1>1 DEF Verified, Shell!Auth!NothingOfAnOldPassword
<1> QED
  BY <1>2, <1>3 DEF AuthInv, Shell!Auth!SignInIsSound

\* No step of a browser or of the desktop breaks it.
LEMMA AuthStep == AuthInv /\ [Shell!Auth!AuthNext]_(Shell!authVars) => AuthInv'
<1> SUFFICES ASSUME AuthInv, [Shell!Auth!AuthNext]_(Shell!authVars)
             PROVE  AuthInv'
  OBVIOUS
<1>1. CASE Shell!Auth!AuthNext
  <2>1. Shell!Auth!AuthTypeOK'
    BY <1>1, AuthTypes DEF AuthInv
  <2>2. ASSUME NEW b \in Browsers, NEW ok \in BOOLEAN, Shell!Auth!LoginBegins(b, ok)
        PROVE  AuthInv'
    <3>1. UNCHANGED <<token, awaiting, devices, sessions, minted, refused>>
      BY <2>2 DEF Shell!Auth!LoginBegins
    <3>2. Verified' /\ Shell!Auth!NothingOfAnOldPassword'
      BY <2>1, <2>2, AuthVerifies
    <3> QED
      BY <2>1, <3>1, <3>2 DEF AuthInv, Asked, Shell!Auth!SignInIsSound,
         Shell!Auth!SessionsAreApproved, Shell!Auth!RequestsAreAnsweredOnce, Shell!Auth!Of
  <2>3. ASSUME NEW b \in Browsers, Shell!Auth!LoginEnds(b), Shell!Auth!WrongPassword(b)
        PROVE  AuthInv'
    <3>1. UNCHANGED <<token, awaiting, devices, sessions, minted, refused>>
      BY <2>3 DEF Shell!Auth!LoginEnds, Shell!Auth!WrongPassword
    <3>2. Verified' /\ Shell!Auth!NothingOfAnOldPassword'
      BY <2>1, <2>3, AuthVerifies
    <3> QED
      BY <2>1, <3>1, <3>2 DEF AuthInv, Asked, Shell!Auth!SignInIsSound,
         Shell!Auth!SessionsAreApproved, Shell!Auth!RequestsAreAnsweredOnce, Shell!Auth!Of
  <2>4. ASSUME NEW b \in Browsers, Shell!Auth!LoginEnds(b)
        PROVE  AuthInv'
    BY <2>1, <2>3, <2>4, AuthSignsIn, AuthServesPending DEF Shell!Auth!LoginEnds
  <2>5. ASSUME NEW b \in Browsers, Shell!Auth!Poll(b)
        PROVE  AuthInv'
    BY <2>1, <2>5, AuthPolls
  <2>6. ASSUME NEW q \in Shell!Auth!Requests, Shell!Auth!ApproveDevice(q)
        PROVE  AuthInv'
    BY <2>1, <2>6, AuthApproves
  <2>7. CASE Shell!Auth!SetPassword
    BY <2>1, <2>7, AuthSetsPassword
  <2>8. CASE \/ \E b \in Browsers : Shell!Auth!Reload(b)
             \/ \E q \in Shell!Auth!Requests, denied \in BOOLEAN :
                  Shell!Auth!RemoveDevice(q) \/ Shell!Auth!RequestGone(q, denied)
             \/ \E there \in SUBSET Browsers : Shell!Auth!ForgetHost(there)
             \/ \E gone \in SUBSET sessions : Shell!Auth!SessionsEnd(gone)
    BY <2>1, <2>8, AuthTakesAway
  <2>9. \A s \in sessions : {s} \in SUBSET sessions
    OBVIOUS
  <2> QED
    BY <1>1, <2>2, <2>4, <2>5, <2>6, <2>7, <2>8, <2>9 DEF Shell!Auth!AuthNext
<1>2. CASE UNCHANGED Shell!authVars
  BY <1>2 DEF Shell!authVars, AuthInv, Shell!Auth!AuthTypeOK, Asked, Verified,
     Shell!Auth!SignInIsSound, Shell!Auth!SessionsAreApproved,
     Shell!Auth!NothingOfAnOldPassword, Shell!Auth!RequestsAreAnsweredOnce, Shell!Auth!Of
<1> QED
  BY <1>1, <1>2

-----------------------------------------------------------------------------
(****************************************************************************)
(* The shell: one part at a time.                                           *)
(****************************************************************************)
\* The invariant of the part at work.
ShellInv ==
  /\ part = "approvals" => ApprovalsInv
  /\ part = "work" => RowsInv
  /\ part = "logs" => LogsInv
  /\ part = "overlay" => OverlayInv
  /\ part = "tab" => TabInv
  /\ part = "bubbles" => BubblesInv
  /\ part = "reach" => ReachInv
  /\ part = "editor" => EditorInv
  /\ part = "auth" => AuthInv

\* The part at work is not set down for another, and it alone moves.
LEMMA OnePartMoves ==
  ASSUME [Shell!ShellNext]_(shellVars)
  PROVE  /\ part' = part
         /\ part = "approvals" => [Shell!Approvals!ApprovalsNext]_(Shell!approvalVars)
         /\ part = "work" => [Shell!Work!RowsNext]_(Shell!workVars)
         /\ part = "logs" => [Shell!Work!LogsNext]_(Shell!logVars)
         /\ part = "overlay" => [Shell!Views!OverlayNext]_(Shell!overlayVars)
         /\ part = "tab" => [Shell!Views!TabNext]_(Shell!tabVars)
         /\ part = "bubbles" => [Shell!Work!ToastsNext]_(Shell!bubbleVars)
         /\ part = "reach" => [Shell!Reach!TunnelNext]_(Shell!reachVars)
         /\ part = "editor" => [Shell!Editor!EditorNext]_(Shell!editorVars)
         /\ part = "auth" => [Shell!Auth!AuthNext]_(Shell!authVars)
<1>1. CASE Shell!ShellNext
  BY <1>1 DEF Shell!ShellNext, Shell!ApprovalsStep, Shell!WorkStep, Shell!LogsStep, Shell!OverlayStep, Shell!TabStep, Shell!BubblesStep, Shell!ReachStep, Shell!EditorStep, Shell!AuthStep
<1>2. CASE UNCHANGED shellVars
  BY <1>2 DEF shellVars, Shell!approvalVars, Shell!workVars, Shell!logVars, Shell!overlayVars, Shell!tabVars, Shell!bubbleVars, Shell!reachVars, Shell!editorVars, Shell!authVars
<1> QED
  BY <1>1, <1>2

\* Every part begins as its invariant says.
LEMMA ShellBegins == Shell!ShellInit => ShellInv
BY ApprovalsStart, RowsStart, LogsStart, OverlayStart, TabStart, BubblesStart, ReachStart, EditorStart, AuthStart DEF ShellInv, Shell!ShellInit

\* A step is one of the part at work, whose invariant it keeps.
LEMMA ShellGoesOn == ShellInv /\ [Shell!ShellNext]_(shellVars) => ShellInv'
<1> SUFFICES ASSUME ShellInv, [Shell!ShellNext]_(shellVars) PROVE ShellInv'
  OBVIOUS
<1>1. ASSUME part' = "approvals" PROVE ApprovalsInv'
  BY <1>1, OnePartMoves, ApprovalsStep DEF ShellInv
<1>2. ASSUME part' = "work" PROVE RowsInv'
  BY <1>2, OnePartMoves, RowsStep DEF ShellInv
<1>3. ASSUME part' = "logs" PROVE LogsInv'
  BY <1>3, OnePartMoves, LogsStep DEF ShellInv
<1>4. ASSUME part' = "overlay" PROVE OverlayInv'
  BY <1>4, OnePartMoves, OverlayStep DEF ShellInv
<1>5. ASSUME part' = "tab" PROVE TabInv'
  BY <1>5, OnePartMoves, TabStep DEF ShellInv
<1>6. ASSUME part' = "bubbles" PROVE BubblesInv'
  BY <1>6, OnePartMoves, BubblesStep DEF ShellInv
<1>7. ASSUME part' = "reach" PROVE ReachInv'
  BY <1>7, OnePartMoves, ReachStep DEF ShellInv
<1>8. ASSUME part' = "editor" PROVE EditorInv'
  BY <1>8, OnePartMoves, EditorStep DEF ShellInv
<1>9. ASSUME part' = "auth" PROVE AuthInv'
  BY <1>9, OnePartMoves, AuthStep DEF ShellInv
<1> QED
  BY <1>1, <1>2, <1>3, <1>4, <1>5, <1>6, <1>7, <1>8, <1>9 DEF ShellInv

\* Each part's invariant holds what the part promises.
LEMMA ShellKeepsPromises == ShellInv => Shell!ShellTypeOK /\ Shell!ShellIsSound
BY ApprovalsPromise, RowsPromise, LogsPromise, OverlayTypes, TabTypes, ReachPromise, EditorPromise
DEF ShellInv, Shell!ShellTypeOK, Shell!ShellIsSound, OverlayInv, BubblesInv, AuthInv

\* The stores' parts and the shell's begin and move with the whole.
LEMMA ShellInvariant == Spec => [](which = "shell" => ShellInv)
<1>1. Init => (which = "shell" => ShellInv)
  BY ShellBegins DEF Init
<1>2. (which = "shell" => ShellInv) /\ [Next]_vars => (which = "shell" => ShellInv)'
  <2> SUFFICES ASSUME which = "shell" => ShellInv, [Next]_vars, which' = "shell"
               PROVE  ShellInv'
    OBVIOUS
  <2>1. which = "shell" /\ [Shell!ShellNext]_(shellVars)
    BY DEF Next, vars, ConsoleStep, SchedulesStep, PanelStep, ConfigsStep, WrittenStep, HistoryStep,
       ShellStep, KeptStep
  <2> QED
    BY <2>1, ShellGoesOn
<1> QED
  BY <1>1, <1>2, PTL DEF Spec

\* The parts of no one tile keep their promises for any devices, jobs, tiles,
\* texts, runs, files and browsers, and any number of calls, events and requests:
\* a remote call runs with the desktop's leave (remote_approve.go), rows and logs
\* follow their jobs, no tile opens or closes unasked (Dashboard.tsx), a tab
\* keeps its server, a stopped tunnel ends (tunnel.go), what is typed is kept
\* (useConfigEditor.ts), and only approved devices hold sessions (remote_auth.go).
THEOREM ShellTheorem == Spec => [](which = "shell" => ShellIsSound)
<1>1. (which = "shell" => ShellInv) => (which = "shell" => ShellIsSound)
  BY ShellKeepsPromises DEF ShellIsSound
<1> QED
  BY <1>1, ShellInvariant, PTL
=============================================================================
