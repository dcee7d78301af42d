---------------------------- MODULE RemoteMirror ----------------------------
(***************************************************************************)
(* The event mirror of the remote dashboard: remoteHub and its handler     *)
(* (backend/services/remote_ws.go), the listener's Start and Stop          *)
(* (remote.go), and the page's side of the socket, connectEvents           *)
(* (frontend/src/lib/remoteRuntime.ts).  One page, signed in under one     *)
(* session; the sockets it opens outlive it on the server's side.          *)
(* What an event carries plays no part: an event is its number.            *)
(***************************************************************************)
EXTENDS Integers, Sequences

CONSTANTS
  Sockets,     \* the connections that can exist at once, reused when free
  Cap,         \* remoteReplayCap
  SendBuffer,  \* remoteSendBuffer
  MaxSeq,      \* bound: events numbered
  MaxRuns,     \* bound: times the listener starts
  MaxTrouble,  \* bound: lost connections, reloads by hand and revocations
  Nil          \* no socket

ASSUME MirrorAssumption ==
  /\ Sockets # {} /\ Nil \notin Sockets
  /\ Cap \in Nat \ {0} /\ SendBuffer \in Nat \ {0}
  /\ MaxSeq \in Nat /\ MaxRuns \in Nat \ {0} /\ MaxTrouble \in Nat

VARIABLES
  seq, ring, run,    \* remoteHub; run 0 is the empty id, before any Start
  running,           \* RemoteService.running
  stops,             \* the Stops between their critical section and closeAll
  alive,             \* does the session stand?
  closing,           \* is RemoteAuth's CloseSessions still to come?
  stage, since, claimed, buf,   \* per socket: handleWS's progress, the since and
                                \* run of its URL, until the replay used them,
                                \* what was sent and not received
  sock, sawHello, lastSeq, pageRun, stopped,   \* the page (connectEvents, state)
  owed,              \* observer: the events the page has not been shown
  trouble

hub == <<seq, ring, run, running, stops>>
session == <<alive, closing>>
conn == <<stage, since, claimed, buf>>
page == <<sock, sawHello, lastSeq, pageRun, stopped>>
vars == <<hub, session, conn, page, owed, trouble>>

Frame(n) == [hello |-> FALSE, seq |-> n, gap |-> FALSE, replayed |-> 0, run |-> 0]
Hello(n, gap, replayed) ==
  [hello |-> TRUE, seq |-> n, gap |-> gap, replayed |-> replayed, run |-> run]

Frames == [hello : BOOLEAN, seq : 0..MaxSeq, gap : BOOLEAN,
           replayed : 0..Cap, run : 0..MaxRuns]

\* "none": the mirror owes it with no excuse; "handshake": numbered while the
\* page's socket was between replay and add; "unheard": emitted with the
\* listener down while the page still had a socket the listener had accepted.
Excuses == {"none", "handshake", "unheard"}

TypeOK ==
  /\ seq \in 0..MaxSeq /\ run \in 0..MaxRuns /\ running \in BOOLEAN
  /\ ring \in Seq(1..MaxSeq) /\ Len(ring) <= Cap
  /\ stops \in 0..MaxRuns
  /\ alive \in BOOLEAN /\ closing \in BOOLEAN
  /\ stage \in [Sockets -> {"free", "dialing", "accepted", "replayed", "joined", "ended"}]
  /\ since \in [Sockets -> 0..MaxSeq] /\ claimed \in [Sockets -> 0..MaxRuns]
  /\ buf \in [Sockets -> Seq(Frames)]
  /\ \A k \in Sockets : Len(buf[k]) <= SendBuffer
  /\ sock \in Sockets \cup {Nil} /\ sawHello \in BOOLEAN
  /\ lastSeq \in 0..MaxSeq /\ pageRun \in 0..MaxRuns /\ stopped \in BOOLEAN
  /\ owed \subseteq [at : 1..MaxSeq+1, numbered : BOOLEAN, why : Excuses]
  /\ trouble \in 0..MaxTrouble

Init ==
  /\ seq = 0 /\ ring = <<>> /\ run = 0 /\ running = FALSE /\ stops = 0
  /\ alive = TRUE /\ closing = FALSE
  /\ stage = [k \in Sockets |-> "free"]
  /\ since = [k \in Sockets |-> 0] /\ claimed = [k \in Sockets |-> 0]
  /\ buf = [k \in Sockets |-> <<>>]
  /\ sock = Nil /\ sawHello = FALSE /\ lastSeq = 0 /\ pageRun = 0 /\ stopped = FALSE
  /\ owed = {}
  /\ trouble = 0

-----------------------------------------------------------------------------
(***************************************************************************)
(* Sockets that end.  A socket is free again once both sides let it go.    *)
(***************************************************************************)
\* c.close, and readPump's remove: what was written may still arrive.
Ended(gone) ==
  /\ stage' = [k \in Sockets |->
       IF k \notin gone THEN stage[k] ELSE IF k = sock THEN "ended" ELSE "free"]
  /\ buf' = [k \in Sockets |-> IF k \in gone /\ k # sock THEN <<>> ELSE buf[k]]

\* The page no longer has its socket; the server learns of it later.
PageLeaves ==
  /\ sock' = Nil
  /\ sawHello' = FALSE
  /\ IF sock # Nil /\ stage[sock] = "ended"
       THEN /\ stage' = [stage EXCEPT ![sock] = "free"]
            /\ buf' = [buf EXCEPT ![sock] = <<>>]
       ELSE UNCHANGED <<stage, buf>>
  /\ UNCHANGED <<since, claimed>>

Joined == {k \in Sockets : stage[k] = "joined"}

-----------------------------------------------------------------------------
(***************************************************************************)
(* The listener.                                                           *)
(***************************************************************************)
\* newRun: a fresh identity and an empty buffer; the numbering goes on.
Start ==
  /\ ~ running
  /\ run < MaxRuns
  /\ run' = run + 1
  /\ ring' = <<>>
  /\ running' = TRUE
  /\ UNCHANGED <<seq, stops, session, conn, page, owed, trouble>>

\* Stop's critical section; Shutdown may then take its whole grace, and a Start
\* need not wait for it.  idleWatch stops the listener the same way.
StopBegins ==
  /\ running
  /\ running' = FALSE
  /\ stops' = stops + 1
  /\ UNCHANGED <<seq, ring, run, session, conn, page, owed, trouble>>

\* closeAll: every client of the hub, and the buffer, whoever started since.
StopEnds ==
  /\ stops > 0
  /\ stops' = stops - 1
  /\ ring' = <<>>
  /\ Ended(Joined)
  /\ UNCHANGED <<seq, run, running, session, since, claimed, page, owed, trouble>>

\* Mutant: a send that waits instead of dropping the client it cannot reach.
PushUnbounded(c, n) == Append(buf[c], Frame(n))

\* publish's non-blocking send to a client with room for it.
Push(c, n) == IF Len(buf[c]) < SendBuffer THEN Append(buf[c], Frame(n)) ELSE buf[c]

\* The ring with the event numbered n, its head gone when it was full.
Buffered(n) == Append(IF Len(ring) >= Cap THEN Tail(ring) ELSE ring, n)

Owes(numbered, why) ==
  IF lastSeq = 0 THEN owed
  ELSE owed \cup {[at |-> seq + 1, numbered |-> numbered, why |-> why]}

\* An event while the listener runs: numbered, buffered, sent to every client.
Publish ==
  /\ running
  /\ seq < MaxSeq
  /\ seq' = seq + 1
  /\ ring' = Buffered(seq + 1)
  /\ LET slow == {k \in Joined : Push(k, seq + 1) = buf[k]} IN
       /\ stage' = [k \in Sockets |-> IF k \notin slow THEN stage[k]
                                      ELSE IF k = sock THEN "ended" ELSE "free"]
       /\ buf' = [k \in Sockets |-> IF k \in slow /\ k # sock THEN <<>>
                                    ELSE IF k \in Joined THEN Push(k, seq + 1)
                                    ELSE buf[k]]
  /\ owed' = Owes(TRUE, IF sock # Nil /\ stage[sock] = "replayed" THEN "handshake" ELSE "none")
  /\ UNCHANGED <<run, running, stops, session, since, claimed, page, trouble>>

\* An event while it does not: the tap drops it.
Unheard ==
  /\ ~ running
  /\ owed' = Owes(FALSE, IF sock # Nil /\ stage[sock] \in {"accepted", "replayed", "joined"}
                           THEN "unheard" ELSE "none")
  /\ UNCHANGED <<hub, session, conn, page, trouble>>

-----------------------------------------------------------------------------
(***************************************************************************)
(* handleWS.                                                               *)
(***************************************************************************)
\* authorize and the upgrade; a refusal ends the socket before it said anything.
Accept(k) ==
  /\ stage[k] = "dialing"
  /\ running /\ alive
  /\ stage' = [stage EXCEPT ![k] = "accepted"]
  /\ UNCHANGED <<hub, session, since, claimed, buf, page, owed, trouble>>

Refuse(k) ==
  /\ stage[k] = "dialing"
  /\ ~ running \/ ~ alive
  /\ Ended({k})
  /\ UNCHANGED <<hub, session, since, claimed, page, owed, trouble>>

\* Mutant: the number is taken at its word, whichever run it came from.
ForeignByNumber(s, r) == s > seq \/ (s < seq /\ ring = <<>>)

\* replay's cases that cannot be made whole, with no frames.
Foreign(s, r) ==
  \/ r = 0 \/ r # run
  \/ s > seq
  \/ s < seq /\ ring = <<>>

\* The buffered frames past s: the ring ascends, so they are its end from the
\* first of them on.
Newer(s) ==
  LET kept == {i \in 1..Len(ring) : ring[i] > s}
  IN  SubSeq(ring, CHOOSE i \in kept : \A j \in kept : i <= j, Len(ring))

\* What replay returns for since s of run r: the frames, and the gap.
Replayed(s, r) ==
  IF s = 0 THEN [frames |-> <<>>, gap |-> FALSE]
  ELSE IF Foreign(s, r) THEN [frames |-> <<>>, gap |-> TRUE]
  ELSE IF s = seq THEN [frames |-> <<>>, gap |-> FALSE]
  ELSE [frames |-> Newer(s), gap |-> ring[1] > s + 1]

\* Mutant: a replay is queued whatever its length, and the socket closed when
\* the send buffer is full.
QueuedWhole(s, r) ==
  LET found == Replayed(s, r) IN
    <<Hello(seq, found.gap, Len(found.frames))>>
      \o [i \in 1..Len(found.frames) |-> Frame(found.frames[i])]

\* The hello and the frames after it; a replay too long for the buffer is a gap.
Queued(s, r) ==
  LET found == Replayed(s, r)
      fits  == Len(found.frames) + 1 <= SendBuffer
      sent  == IF fits THEN found.frames ELSE <<>>
  IN  <<Hello(seq, found.gap \/ ~ fits, Len(sent))>>
        \o [i \in 1..Len(sent) |-> Frame(sent[i])]

\* Queued before the client joins the hub.
Replay(k) ==
  /\ stage[k] = "accepted"
  /\ LET queue == Queued(since[k], claimed[k]) IN
       IF Len(queue) <= SendBuffer
         THEN /\ buf' = [buf EXCEPT ![k] = queue]
              /\ stage' = [stage EXCEPT ![k] = "replayed"]
         ELSE Ended({k})
  /\ since' = [since EXCEPT ![k] = 0] /\ claimed' = [claimed EXCEPT ![k] = 0]
  /\ UNCHANGED <<hub, session, page, owed, trouble>>

\* hub.add, then writePump and readPump.
Join(k) ==
  /\ stage[k] = "replayed"
  /\ stage' = [stage EXCEPT ![k] = "joined"]
  /\ UNCHANGED <<hub, session, since, claimed, buf, page, owed, trouble>>

\* readPump: the connection is gone, at the latest by the pong deadline.
ServerNotices(k) ==
  /\ stage[k] = "joined"
  /\ sock # k
  /\ Ended({k})
  /\ UNCHANGED <<hub, session, since, claimed, page, owed, trouble>>

\* Mutant: a ping that asks nothing of the session.
PingOnly(k) == FALSE

\* writePump's ping ends a socket whose session no longer stands.
SessionGone(k) == ~ alive

Ping(k) ==
  /\ stage[k] = "joined"
  /\ SessionGone(k)
  /\ Ended({k})
  /\ UNCHANGED <<hub, session, since, claimed, page, owed, trouble>>

\* RemoteAuth ends the session, then has its sockets closed.
Revoke ==
  /\ alive
  /\ trouble < MaxTrouble
  /\ trouble' = trouble + 1
  /\ alive' = FALSE
  /\ closing' = TRUE
  /\ UNCHANGED <<hub, conn, page, owed>>

CloseSessions ==
  /\ closing
  /\ closing' = FALSE
  /\ Ended(Joined)
  /\ UNCHANGED <<hub, alive, since, claimed, page, owed, trouble>>

-----------------------------------------------------------------------------
(***************************************************************************)
(* The page.                                                               *)
(***************************************************************************)
\* open, by the backoff timer or by wake, on any socket that is free.
Dial ==
  /\ ~ stopped /\ sock = Nil
  /\ \E k \in Sockets : stage[k] = "free"
  /\ LET k == CHOOSE k \in Sockets : stage[k] = "free" IN
       /\ stage' = [stage EXCEPT ![k] = "dialing"]
       /\ since' = [since EXCEPT ![k] = lastSeq]
       /\ claimed' = [claimed EXCEPT ![k] = IF lastSeq > 0 THEN pageRun ELSE 0]
       /\ sock' = k
  /\ UNCHANGED <<hub, session, buf, sawHello, lastSeq, pageRun, stopped, owed, trouble>>

\* A page loaded afresh: installRemoteRuntime.
Reload ==
  /\ PageLeaves
  /\ lastSeq' = 0
  /\ pageRun' = 0
  /\ owed' = {}
  /\ UNCHANGED stopped

Resync(hello) == hello.gap \/ hello.seq < lastSeq

Received == buf' = [buf EXCEPT ![sock] = Tail(@)] /\ UNCHANGED <<stage, since, claimed>>

Arrives == sock # Nil /\ stage[sock] \in {"joined", "ended"} /\ buf[sock] # <<>>

\* onHello, and onResync, which reloads the page.
HearGap ==
  /\ Arrives
  /\ LET hello == Head(buf[sock]) IN hello.hello /\ Resync(hello)
  /\ Reload
  /\ UNCHANGED <<hub, session, trouble>>

HearHello ==
  /\ Arrives
  /\ LET hello == Head(buf[sock]) IN
       /\ hello.hello /\ ~ Resync(hello)
       /\ pageRun' = hello.run
       /\ lastSeq' = IF hello.replayed = 0 THEN hello.seq ELSE lastSeq
  /\ sawHello' = TRUE
  /\ Received
  /\ UNCHANGED <<hub, session, sock, stopped, owed, trouble>>

\* onmessage: a frame already seen is dropped, a later one dispatched.
HearFrame ==
  /\ Arrives
  /\ LET frame == Head(buf[sock]) IN
       /\ ~ frame.hello
       /\ lastSeq' = IF frame.seq > lastSeq THEN frame.seq ELSE lastSeq
       /\ owed' = {o \in owed : ~ (o.numbered /\ o.at = frame.seq /\ frame.seq > lastSeq)}
  /\ Received
  /\ UNCHANGED <<hub, session, sock, sawHello, pageRun, stopped, trouble>>

\* onclose; a socket that said nothing makes the page ask whether it is locked.
PageNotices ==
  /\ sock # Nil /\ stage[sock] = "ended"
  /\ PageLeaves
  /\ stopped' = (stopped \/ (~ sawHello /\ running /\ ~ alive))
  /\ UNCHANGED <<hub, session, lastSeq, pageRun, owed, trouble>>

\* The connection is lost: the page's side notices first, or the server's.
LoseConnection ==
  /\ trouble < MaxTrouble
  /\ trouble' = trouble + 1
  /\ sock # Nil
  /\ \/ PageLeaves
     \/ stage[sock] = "joined" /\ Ended({sock}) /\ UNCHANGED <<since, claimed, sock, sawHello>>
  /\ UNCHANGED <<hub, session, lastSeq, pageRun, stopped, owed>>

ReloadByHand ==
  /\ trouble < MaxTrouble
  /\ trouble' = trouble + 1
  /\ ~ stopped
  /\ Reload
  /\ UNCHANGED <<hub, session>>

-----------------------------------------------------------------------------
ServerSteps(k) == \/ Accept(k) \/ Refuse(k) \/ Replay(k) \/ Join(k)
                  \/ ServerNotices(k) \/ Ping(k)

PageSteps == Dial \/ HearGap \/ HearHello \/ HearFrame \/ PageNotices

Next ==
  \/ Start \/ StopBegins \/ StopEnds \/ Publish \/ Unheard
  \/ \E k \in Sockets : ServerSteps(k)
  \/ Revoke \/ CloseSessions
  \/ PageSteps
  \/ LoseConnection \/ ReloadByHand

Spec == Init /\ [][Next]_vars

\* Go runs every handler and pump; the browser runs the page's timers and
\* handlers; a Stop and a revocation in progress go on.  Nobody is bound to
\* emit, start, stop, revoke or lose a connection.
Fairness ==
  /\ WF_vars(StopEnds) /\ WF_vars(CloseSessions)
  /\ \A k \in Sockets : WF_vars(ServerSteps(k))
  /\ WF_vars(PageSteps)

FairSpec == Spec /\ Fairness

-----------------------------------------------------------------------------
\* Behind the page: the page's number has gone past an event it was not shown.
Passed == {o \in owed : o.at <= lastSeq}

\* The mirror's promise, less what it cannot keep: an event the page was never
\* shown is behind it, with no resync, only when it was numbered between the
\* page's own replay and add, or emitted with the listener down under a page
\* that still had an accepted socket.  Reconnects, ring overruns, slow clients, stops
\* and new runs lose nothing silently.
HoleOnlyInHandshake == \A o \in Passed : o.why # "none"

\* remote_ws.go's opening comment: every event "is numbered and buffered", so a
\* reconnect gets what it missed, in order, "rather than a console with a hole
\* in it".
NoSilentHole == \A o \in Passed : ~ o.numbered

\* A revoked session's sockets all end, one that joined after CloseSessions ran
\* by its next ping.
RevokedGoesQuiet == ~ alive ~> Joined = {}

CaughtUp ==
  /\ sock \in Joined /\ sawHello /\ buf[sock] = <<>>
  /\ \A o \in owed : o.why # "none"

\* Once the listener stays up and the session stands, the page ends up live
\* with nothing owed, however far behind it was: no reconnect repeats for ever.
CatchesUp == <>[](running /\ alive) => <>[]CaughtUp

=============================================================================
