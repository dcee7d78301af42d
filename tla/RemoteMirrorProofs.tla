------------------------ MODULE RemoteMirrorProofs ------------------------
(***************************************************************************)
(* Theorems about the event mirror, for any number of sockets, events,     *)
(* runs of the listener and troubles, and any buffer sizes.                *)
(***************************************************************************)
EXTENDS RemoteMirror, SequenceTheorems, TLAPS

\* The buffer holds the latest events, without a hole.
RingInv == \A i \in 1..Len(ring) : ring[i] = seq - Len(ring) + i

\* A run is stopped at most once.
StopsInv == stops <= run /\ (running => stops < run)

\* The page is never ahead of the hub, and a page that knows no number is owed
\* nothing.
PageInv ==
  /\ lastSeq <= seq /\ pageRun <= run
  /\ lastSeq = 0 => owed = {}
  /\ \A o \in owed : o.numbered => o.at <= seq

\* Nothing waits for a socket that has not been replayed to; the page's socket
\* carries what the page knew when it dialled, which it still knows.
ConnInv ==
  /\ \A k \in Sockets : stage[k] \in {"free", "dialing", "accepted"} => buf[k] = <<>>
  /\ sock # Nil =>
       /\ stage[sock] # "free"
       /\ stage[sock] \in {"dialing", "accepted"} =>
            /\ since[sock] = lastSeq
            /\ lastSeq > 0 => claimed[sock] = pageRun

\* The page's queue: a hello comes first, frames ascend, and a hello that makes
\* no gap moves a page that knows a number neither in number nor in run.
QueueInv ==
  sock # Nil =>
    LET queue == buf[sock] IN
      /\ \A i \in 1..Len(queue) : queue[i].seq <= seq /\ queue[i].run <= run
      /\ \A i \in 2..Len(queue) : ~ queue[i].hello
      /\ \A i, j \in 1..Len(queue) :
           i < j /\ ~ queue[i].hello => queue[i].seq < queue[j].seq
      /\ queue # <<>> /\ queue[1].hello /\ ~ queue[1].gap /\ lastSeq # 0 =>
           /\ queue[1].run = pageRun
           /\ queue[1].replayed = 0 => queue[1].seq = lastSeq

Gapped(queue) == queue # <<>> /\ queue[1].hello /\ queue[1].gap
Carries(queue, o) ==
  \E i \in 1..Len(queue) : ~ queue[i].hello /\ queue[i].seq = o.at
Before(queue, o) == \A i \in 1..Len(queue) : queue[i].seq < o.at

\* An event owed without excuse is still ahead of the page.  One that was
\* numbered is on its way to a live socket, or a gap is; one that was not makes
\* a gap of every replay to come.
Kept(o) ==
  /\ o.at > lastSeq
  /\ o.numbered /\ sock # Nil =>
       LET queue == buf[sock] IN
         /\ stage[sock] \in {"replayed", "joined"} => Carries(queue, o) \/ Gapped(queue)
         /\ stage[sock] = "ended" =>
              Carries(queue, o) \/ Gapped(queue) \/ Before(queue, o)
  /\ ~ o.numbered =>
       /\ pageRun < run \/ ~ running
       /\ sock # Nil =>
            LET queue == buf[sock] IN
              /\ stage[sock] = "accepted" => pageRun < run
              /\ stage[sock] \in {"replayed", "joined"} => Gapped(queue)
              /\ stage[sock] = "ended" => Gapped(queue) \/ Before(queue, o)

PromiseInv == \A o \in owed : o.why = "none" => Kept(o)

IInv == TypeOK /\ RingInv /\ StopsInv /\ PageInv /\ ConnInv /\ QueueInv /\ PromiseInv

-----------------------------------------------------------------------------
LEMMA Empty == <<>> \in Seq(1..MaxSeq) /\ <<>> \in Seq(Frames) /\ Len(<<>>) = 0
BY EmptySeq

LEMMA QueueTypes ==
  ASSUME TypeOK, NEW k \in Sockets
  PROVE  /\ buf[k] \in Seq(Frames) /\ Len(buf[k]) \in Nat
         /\ buf[k] # <<>> => 1 \in 1..Len(buf[k])
         /\ \A i \in 1..Len(buf[k]) :
              /\ buf[k][i] \in Frames /\ buf[k][i].hello \in BOOLEAN
              /\ buf[k][i].seq \in Nat /\ buf[k][i].run \in Nat
              /\ buf[k][i].replayed \in Nat /\ buf[k][i].gap \in BOOLEAN
<1>1. buf[k] \in Seq(Frames) /\ Len(buf[k]) \in Nat
  BY LenProperties DEF TypeOK
<1>2. \A i \in 1..Len(buf[k]) : buf[k][i] \in Frames
  BY <1>1, ElementOfSeq
<1>3. buf[k] # <<>> => 1 \in 1..Len(buf[k])
  BY <1>1, EmptySeq
<1>4. QED
  BY <1>1, <1>2, <1>3, MirrorAssumption, SMTT(20) DEF Frames

-----------------------------------------------------------------------------
(***************************************************************************)
(* What a replay queues.                                                   *)
(***************************************************************************)
\* The frames past s are the latest ones; when the buffer reaches back to s,
\* they are all of them.
LEMMA NewerFrames ==
  ASSUME TypeOK, RingInv, NEW s \in Nat, s < seq, ring # <<>>
  PROVE  LET sent == Newer(s) IN
           /\ sent \in Seq(1..MaxSeq) /\ Len(sent) \in 1..Len(ring)
           /\ \A i \in 1..Len(sent) : sent[i] = seq - Len(sent) + i
           /\ ring[1] <= s + 1 => Len(sent) = seq - s
<1> DEFINE kept == {i \in 1..Len(ring) : ring[i] > s}
           first == CHOOSE i \in kept : \A j \in kept : i <= j
           sent == SubSeq(ring, first, Len(ring))
<1>1. ring \in Seq(1..MaxSeq) /\ Len(ring) \in Nat \ {0} /\ seq \in Nat
  BY MirrorAssumption, EmptySeq DEF TypeOK
<1>2. \A i \in 1..Len(ring) : ring[i] = seq - Len(ring) + i
  BY DEF RingInv
<1>3. \E i \in kept : \A j \in kept : i <= j
  <2> DEFINE low == s + Len(ring) - seq
  <2>1. CASE low < 1
    <3>1. 1 \in kept
      BY <1>1, <1>2, <2>1
    <3>2. QED
      BY <1>1, <3>1
  <2>2. CASE low >= 1
    <3>1. low + 1 \in kept
      BY <1>1, <1>2, <2>2
    <3>2. \A j \in kept : low + 1 <= j
      BY <1>1, <1>2
    <3>3. QED
      BY <3>1, <3>2
  <2>3. QED
    BY <1>1, <2>1, <2>2
<1>4. first \in kept /\ \A j \in kept : first <= j
  BY <1>3
<1> HIDE DEF first
<1>5. first \in 1..Len(ring) /\ ring[first] > s
  BY <1>4
<1>6. /\ sent \in Seq(1..MaxSeq) /\ Len(sent) = Len(ring) - first + 1
      /\ \A i \in 1..Len(sent) : sent[i] = ring[first + i - 1]
  <2>1. \A i \in first..Len(ring) : ring[i] \in 1..MaxSeq
    <3>1. \A i \in first..Len(ring) : i \in 1..Len(ring)
      BY <1>1, <1>5
    <3>2. QED
      BY <1>1, <3>1, ElementOfSeq
  <2>2. first \in Int /\ Len(ring) \in Int /\ first <= Len(ring)
    BY <1>1, <1>5
  <2>3. QED
    BY <2>1, <2>2, SubSeqProperties
<1> HIDE DEF sent
<1>7. \A i \in 1..Len(sent) : sent[i] = seq - Len(sent) + i
  <2>1. SUFFICES ASSUME NEW i \in 1..Len(sent)
                 PROVE  sent[i] = seq - Len(sent) + i
    OBVIOUS
  <2>2. /\ Len(sent) = Len(ring) - first + 1 /\ first + i - 1 \in 1..Len(ring)
        /\ seq \in Int /\ Len(ring) \in Int /\ first \in Int /\ i \in Int
    BY <1>1, <1>5, <1>6
  <2>3. sent[i] = seq - Len(ring) + (first + i - 1)
    BY <1>2, <1>6, <2>2
  <2>4. QED
    BY <2>2, <2>3
<1>8. ring[1] <= s + 1 => Len(sent) = seq - s
  <2>1. CASE first = 1
    BY <1>1, <1>2, <1>5, <1>6, <2>1
  <2>2. CASE first # 1
    <3>1. first - 1 \notin kept
      BY <1>1, <1>4, <1>5
    <3>2. ring[first - 1] <= s
      BY <1>1, <1>2, <1>5, <2>2, <3>1
    <3>3. /\ seq - Len(ring) + first - 1 <= s /\ seq - Len(ring) + first > s
          /\ first - 1 \in 1..Len(ring)
      BY <1>1, <1>2, <1>5, <2>2, <3>2, SMTT(20)
    <3>4. /\ Len(sent) = Len(ring) - first + 1 /\ first \in Int
          /\ Len(ring) \in Int /\ seq \in Int /\ s \in Int
      BY <1>1, <1>5, <1>6
    <3>5. QED
      BY <3>3, <3>4
  <2>3. QED
    BY <2>1, <2>2
<1>9. Newer(s) = sent
  BY DEF Newer, first, sent
<1>10. Len(sent) \in 1..Len(ring)
  BY <1>1, <1>5, <1>6
<1>11. QED
  BY <1>6, <1>7, <1>8, <1>9, <1>10

\* A hello, and the latest frames after it: all the missed ones, unless the
\* hello says there is a gap or the page knew no number.
ReplayOf(queue, s, r) ==
  /\ queue \in Seq(Frames) /\ Len(queue) \in 1..SendBuffer
  /\ queue[1].hello /\ queue[1].seq = seq /\ queue[1].run = run
  /\ queue[1].replayed = Len(queue) - 1
  /\ \A i \in 2..Len(queue) : /\ ~ queue[i].hello /\ queue[i].run = 0
                              /\ queue[i].seq = seq - Len(queue) + i
  /\ queue[1].gap \/ s = 0 \/ (r = run /\ s <= seq /\ Len(queue) - 1 = seq - s)

LEMMA QueuedIsReplay ==
  ASSUME TypeOK, RingInv, NEW s \in 0..MaxSeq, NEW r \in 0..MaxRuns
  PROVE  ReplayOf(Queued(s, r), s, r)
<1> DEFINE found == Replayed(s, r)
           fits == Len(found.frames) + 1 <= SendBuffer
           sent == IF fits THEN found.frames ELSE <<>>
           tail == [i \in 1..Len(sent) |-> Frame(sent[i])]
           head == Hello(seq, found.gap \/ ~ fits, Len(sent))
<1>1. /\ found.frames \in Seq(1..MaxSeq) /\ Len(found.frames) \in 0..Cap
      /\ \A i \in 1..Len(found.frames) : found.frames[i] = seq - Len(found.frames) + i
      /\ found.gap \in BOOLEAN
      /\ found.gap \/ s = 0 \/ (r = run /\ s <= seq /\ Len(found.frames) = seq - s)
  <2>1. CASE s = 0 \/ Foreign(s, r) \/ s = seq
    <3>1. found.frames = <<>> /\ Len(found.frames) = 0 /\ found.gap \in BOOLEAN
      BY <2>1, EmptySeq DEF Replayed
    <3>2. found.gap \/ s = 0 \/ (s = seq /\ r = run)
      BY <2>1 DEF Replayed, Foreign
    <3>3. QED
      BY <3>1, <3>2, EmptySeq, MirrorAssumption DEF TypeOK
  <2>2. CASE ~ (s = 0 \/ Foreign(s, r) \/ s = seq)
    <3>1. s < seq /\ ring # <<>> /\ r = run /\ s \in Nat
      BY <2>2, MirrorAssumption DEF Foreign, TypeOK
    <3> DEFINE late == ring[1] > s + 1
    <3>2. found = [frames |-> Newer(s), gap |-> late]
      BY <2>2 DEF Replayed
    <3>3. late \in BOOLEAN
      OBVIOUS
    <3>4. ring[1] \in Nat /\ Len(ring) \in 0..Cap
      BY <3>1, EmptySeq, ElementOfSeq, MirrorAssumption DEF TypeOK
    <3>5. late \/ ring[1] <= s + 1
      BY <3>1, <3>4
    <3> HIDE DEF late
    <3>6. found.frames = Newer(s) /\ found.gap \in BOOLEAN /\ found.gap = late
      BY <3>2, <3>3
    <3> HIDE DEF found
    <3>7. /\ found.frames \in Seq(1..MaxSeq) /\ Len(found.frames) \in 1..Len(ring)
          /\ \A i \in 1..Len(found.frames) : found.frames[i] = seq - Len(found.frames) + i
          /\ ring[1] <= s + 1 => Len(found.frames) = seq - s
      BY <3>1, <3>6, NewerFrames
    <3>8. found.gap \/ (r = run /\ s <= seq /\ Len(found.frames) = seq - s)
      <4>1. CASE late
        BY <3>6, <4>1
      <4>2. CASE ~ late
        BY <3>1, <3>5, <3>7, <4>2, MirrorAssumption DEF TypeOK
      <4>3. QED
        BY <4>1, <4>2
    <3>9. Len(found.frames) \in 0..Cap
      BY <3>4, <3>7, MirrorAssumption
    <3>10. QED
      BY <3>6, <3>7, <3>8, <3>9
  <2>3. QED
    BY <2>1, <2>2
<1> HIDE DEF found
<1>2. /\ sent \in Seq(1..MaxSeq) /\ Len(sent) \in 0..Cap /\ Len(sent) + 1 <= SendBuffer
      /\ \A i \in 1..Len(sent) : sent[i] = seq - Len(sent) + i
  <2>1. CASE fits
    BY <1>1, <2>1
  <2>2. CASE ~ fits
    <3>1. sent = <<>>
      BY <2>2
    <3>2. <<>> \in Seq(1..MaxSeq) /\ Len(<<>>) = 0 /\ 1 <= SendBuffer
      BY EmptySeq, MirrorAssumption
    <3> HIDE DEF sent
    <3>3. QED
      BY <3>1, <3>2, MirrorAssumption
  <2>3. QED
    BY <2>1, <2>2
<1>3. (found.gap \/ ~ fits) \/ s = 0 \/ (r = run /\ s <= seq /\ Len(sent) = seq - s)
  BY <1>1
<1> HIDE DEF sent, fits
<1>4. head \in Frames
  BY <1>1, <1>2, MirrorAssumption DEF Hello, Frames, TypeOK
<1>5. tail \in Seq(Frames) /\ Len(tail) = Len(sent)
      /\ \A i \in 1..Len(tail) : tail[i] = Frame(sent[i])
  <2>1. \A i \in 1..Len(sent) : Frame(sent[i]) \in Frames
    BY <1>2, MirrorAssumption, ElementOfSeq DEF Frame, Frames
  <2>2. QED
    BY <1>2, <2>1
<1>6. Queued(s, r) = <<head>> \o tail
  BY DEF Queued, found, fits, sent
<1> HIDE DEF head, tail
<1>7. /\ <<head>> \o tail \in Seq(Frames) /\ Len(<<head>> \o tail) = 1 + Len(tail)
      /\ (<<head>> \o tail)[1] = head
      /\ \A i \in 2..Len(tail) + 1 : (<<head>> \o tail)[i] = tail[i - 1]
  <2>1. <<head>> \in Seq(Frames) /\ Len(<<head>>) = 1 /\ <<head>>[1] = head
    BY <1>4
  <2>2. QED
    BY <1>5, <2>1, ConcatProperties
<1>8. /\ head.hello /\ head.seq = seq /\ head.run = run /\ head.replayed = Len(sent)
      /\ head.gap = (found.gap \/ ~ fits)
  BY DEF head, Hello
<1>9. \A i \in 2..Len(tail) + 1 : /\ ~ tail[i - 1].hello /\ tail[i - 1].run = 0
                                  /\ tail[i - 1].seq = seq - Len(tail) + (i - 1)
  <2>1. SUFFICES ASSUME NEW i \in 2..Len(tail) + 1
                 PROVE  /\ ~ tail[i - 1].hello /\ tail[i - 1].run = 0
                        /\ tail[i - 1].seq = seq - Len(tail) + (i - 1)
    OBVIOUS
  <2>2. i - 1 \in 1..Len(tail) /\ i - 1 \in 1..Len(sent)
    BY <1>2, <1>5
  <2>3. tail[i - 1] = Frame(sent[i - 1]) /\ sent[i - 1] = seq - Len(sent) + (i - 1)
    BY <1>2, <1>5, <2>2
  <2>4. QED
    BY <1>5, <2>3 DEF Frame
<1> DEFINE queue == <<head>> \o tail
<1>10. /\ queue \in Seq(Frames) /\ Len(queue) = 1 + Len(sent) /\ queue[1] = head
       /\ \A i \in 2..Len(queue) : queue[i] = tail[i - 1]
  BY <1>5, <1>7
<1> HIDE DEF queue
<1>11. /\ Len(queue) \in 1..SendBuffer
       /\ queue[1].replayed = Len(queue) - 1
  BY <1>2, <1>8, <1>10, MirrorAssumption
<1>12. \A i \in 2..Len(queue) : /\ ~ queue[i].hello /\ queue[i].run = 0
                                /\ queue[i].seq = seq - Len(queue) + i
  <2>1. SUFFICES ASSUME NEW i \in 2..Len(queue)
                 PROVE  /\ ~ queue[i].hello /\ queue[i].run = 0
                        /\ queue[i].seq = seq - Len(queue) + i
    OBVIOUS
  <2>2. i \in 2..Len(tail) + 1 /\ queue[i] = tail[i - 1]
    BY <1>2, <1>5, <1>10
  <2>3. queue[i].seq = seq - Len(tail) + (i - 1) /\ ~ queue[i].hello /\ queue[i].run = 0
    BY <1>9, <2>2
  <2>4. Len(tail) = Len(queue) - 1 /\ seq \in Int /\ Len(tail) \in Int /\ i \in Int
    BY <1>2, <1>5, <1>10, MirrorAssumption DEF TypeOK
  <2>5. QED
    BY <2>3, <2>4
<1>13. queue[1].gap \/ s = 0 \/ (r = run /\ s <= seq /\ Len(queue) - 1 = seq - s)
  <2>1. Len(queue) - 1 = Len(sent)
    BY <1>2, <1>10
  <2>2. queue[1].gap = (found.gap \/ ~ fits)
    BY <1>8, <1>10
  <2>3. QED
    BY <1>3, <2>1, <2>2
<1>14. ReplayOf(queue, s, r)
  BY <1>8, <1>10, <1>11, <1>12, <1>13 DEF ReplayOf
<1>15. QED
  BY <1>6, <1>14 DEF queue

-----------------------------------------------------------------------------
LEMMA MirrorInit == Init => IInv
<1> SUFFICES ASSUME Init
             PROVE  IInv
  OBVIOUS
<1> USE MirrorAssumption DEF Init
<1>1. <<>> \in Seq(1..MaxSeq) /\ <<>> \in Seq(Frames) /\ Len(<<>>) = 0
  BY Empty
<1>2. TypeOK
  <2>1. /\ stage \in [Sockets -> {"free"}] /\ since \in [Sockets -> {0}]
        /\ claimed \in [Sockets -> {0}] /\ buf \in [Sockets -> {<<>>}]
    OBVIOUS
  <2>2. /\ running \in BOOLEAN /\ alive \in BOOLEAN /\ closing \in BOOLEAN
        /\ sawHello \in BOOLEAN /\ stopped \in BOOLEAN
    OBVIOUS
  <2>3. QED
    BY <1>1, <2>1, <2>2 DEF TypeOK
<1>3. RingInv /\ StopsInv /\ PageInv /\ ConnInv
  BY <1>1 DEF RingInv, StopsInv, PageInv, ConnInv
<1>4. QueueInv /\ PromiseInv
  BY DEF QueueInv, PromiseInv
<1>5. QED
  BY <1>2, <1>3, <1>4 DEF IInv

-----------------------------------------------------------------------------
(***************************************************************************)
(* Steps that leave the page's socket alone, or end sockets.               *)
(***************************************************************************)
\* The listener starts, begins to stop, or the session is revoked.
LEMMA ListenerKeeps ==
  ASSUME IInv, Start \/ StopBegins \/ Revoke
  PROVE  IInv'
<1> USE MirrorAssumption DEF hub, session, conn, page
<1>1. TypeOK /\ RingInv /\ StopsInv /\ PageInv /\ ConnInv /\ QueueInv /\ PromiseInv
  BY DEF IInv
<1>2. /\ ring' = ring \/ ring' = <<>>
      /\ run' \in 0..MaxRuns /\ run <= run'
      /\ run < run' \/ (run' = run /\ (running' => running))
      /\ UNCHANGED <<seq, conn, page, owed>>
  BY <1>1, SMTT(20) DEF TypeOK, Start, StopBegins, Revoke
<1>3. TypeOK'
  <2>1. ring' \in Seq(1..MaxSeq) /\ Len(ring') <= Cap
    <3>1. CASE ring' = ring
      BY <1>1, <3>1 DEF TypeOK
    <3>2. CASE ring' = <<>>
      BY <3>2, Empty
    <3>3. QED
      BY <1>2, <3>1, <3>2
  <2>2. /\ running' \in BOOLEAN /\ alive' \in BOOLEAN /\ closing' \in BOOLEAN
    BY <1>1 DEF TypeOK, Start, StopBegins, Revoke
  <2>3. stops' \in 0..MaxRuns /\ trouble' \in 0..MaxTrouble
    <3>1. CASE Start
      BY <1>1, <3>1 DEF TypeOK, Start
    <3>2. CASE StopBegins
      BY <1>1, <3>2 DEF TypeOK, StopsInv, StopBegins
    <3>3. CASE Revoke
      BY <1>1, <3>3 DEF TypeOK, Revoke
    <3>4. QED
      BY <3>1, <3>2, <3>3
  <2>4. QED
    BY <1>1, <1>2, <2>1, <2>2, <2>3 DEF TypeOK
<1>4. RingInv' /\ StopsInv' /\ PageInv' /\ ConnInv'
  <2>1. RingInv'
    BY <1>1, <1>2, Empty, SMTT(20) DEF TypeOK, RingInv
  <2>2. StopsInv'
    BY <1>1, SMTT(20) DEF TypeOK, StopsInv, Start, StopBegins, Revoke
  <2>3. PageInv' /\ ConnInv'
    BY <1>1, <1>2 DEF TypeOK, PageInv, ConnInv
  <2>4. QED
    BY <2>1, <2>2, <2>3
<1>5. QueueInv'
  <2>1. SUFFICES ASSUME sock # Nil
                 PROVE  QueueInv'
    BY <1>2 DEF QueueInv
  <2>2. \A i \in 1..Len(buf[sock]) : buf[sock][i].run \in Nat
    BY <1>1, <2>1, QueueTypes DEF TypeOK
  <2>3. \A i \in 1..Len(buf[sock]) : buf[sock][i].run <= run'
    <3>1. run \in Nat /\ run' \in Nat /\ run <= run'
      BY <1>1, <1>2 DEF TypeOK
    <3>2. \A i \in 1..Len(buf[sock]) : buf[sock][i].run <= run
      BY <1>1, <2>1 DEF QueueInv
    <3>3. QED
      BY <2>2, <3>1, <3>2
  <2>4. UNCHANGED <<seq, buf, sock, lastSeq, pageRun>>
    BY <1>2
  <2>5. QED
    BY <1>1, <2>1, <2>3, <2>4 DEF QueueInv
<1>6. PromiseInv'
  <2>1. SUFFICES ASSUME NEW o \in owed, o.why = "none"
                 PROVE  Kept(o)'
    BY <1>2 DEF PromiseInv
  <2>2. Kept(o)
    BY <1>1, <2>1 DEF PromiseInv
  <2>3. pageRun < run' \/ ~ running' \/ ~ (pageRun < run \/ ~ running)
    BY <1>1, <1>2 DEF TypeOK, PageInv
  <2>4. pageRun < run => pageRun < run'
    BY <1>1, <1>2 DEF TypeOK
  <2>5. QED
    BY <1>2, <2>2, <2>3, <2>4 DEF Kept
<1>7. QED
  BY <1>3, <1>4, <1>5, <1>6 DEF IInv

\* What ends sockets keeps what the page's socket, ended or not, carries.
LEMMA EndedConn ==
  ASSUME IInv, NEW gone \in SUBSET Sockets, Ended(gone),
         sock \in gone => stage[sock] \in {"dialing", "joined"},
         UNCHANGED <<seq, run, running, since, claimed, sock, lastSeq, pageRun, owed>>
  PROVE  /\ stage' \in [Sockets -> {"free", "dialing", "accepted", "replayed",
                                    "joined", "ended"}]
         /\ buf' \in [Sockets -> Seq(Frames)]
         /\ \A k \in Sockets : Len(buf'[k]) <= SendBuffer
         /\ ConnInv' /\ QueueInv' /\ PromiseInv'
<1> USE MirrorAssumption DEF IInv
<1>1. /\ stage' \in [Sockets -> {"free", "dialing", "accepted", "replayed",
                                 "joined", "ended"}]
      /\ buf' \in [Sockets -> Seq(Frames)]
      /\ \A k \in Sockets :
           /\ stage'[k] = (IF k \notin gone THEN stage[k]
                           ELSE IF k = sock THEN "ended" ELSE "free")
           /\ buf'[k] = IF k \in gone /\ k # sock THEN <<>> ELSE buf[k]
  BY Empty DEF Ended, TypeOK
<1>2. \A k \in Sockets : Len(buf'[k]) <= SendBuffer
  BY <1>1, Empty DEF TypeOK
<1>3. sock # Nil =>
        /\ sock \in Sockets /\ buf'[sock] = buf[sock]
        /\ stage'[sock] = stage[sock]
             \/ (stage'[sock] = "ended" /\ stage[sock] \in {"dialing", "joined"})
  BY <1>1 DEF TypeOK
<1>4. ConnInv'
  BY <1>1, <1>3 DEF ConnInv
<1>5. QueueInv'
  BY <1>3 DEF QueueInv
<1>6. PromiseInv'
  <2>1. SUFFICES ASSUME NEW o \in owed, o.why = "none"
                 PROVE  Kept(o)'
    BY DEF PromiseInv
  <2>2. Kept(o)
    BY <2>1 DEF PromiseInv
  <2>3. CASE sock = Nil \/ stage'[sock] = stage[sock]
    BY <1>3, <2>2, <2>3 DEF Kept
  <2>4. CASE sock # Nil /\ stage[sock] = "dialing"
    <3>1. Before(buf[sock], o)
      BY <1>3, <2>4, Empty DEF ConnInv, Before
    <3>2. QED
      BY <1>3, <2>2, <2>4, <3>1 DEF Kept
  <2>5. CASE sock # Nil /\ stage[sock] = "joined"
    BY <1>3, <2>2, <2>5 DEF Kept
  <2>6. QED
    BY <1>3, <2>3, <2>4, <2>5
<1>7. QED
  BY <1>1, <1>2, <1>4, <1>5, <1>6

\* A Stop ends, a socket is refused, pinged or noticed gone, and a session's
\* sockets are closed.
LEMMA EndingsKeep ==
  ASSUME IInv, \/ StopEnds \/ CloseSessions
               \/ \E k \in Sockets : Refuse(k) \/ ServerNotices(k) \/ Ping(k)
               \/ LoseConnection /\ sock' # Nil
  PROVE  IInv'
<1> USE MirrorAssumption DEF hub, session, page
<1>1. TypeOK /\ RingInv /\ StopsInv /\ PageInv
  BY DEF IInv
<1>2. /\ \E gone \in SUBSET Sockets :
           /\ Ended(gone)
           /\ sock \in gone => stage[sock] \in {"dialing", "joined"}
      /\ UNCHANGED <<seq, run, running, since, claimed, page, owed>>
      /\ ring' = ring \/ ring' = <<>>
      /\ stops' = stops \/ (stops' = stops - 1 /\ stops > 0)
      /\ alive' = alive
  <2>1. CASE StopEnds \/ CloseSessions
    <3>1. Ended(Joined) /\ Joined \in SUBSET Sockets
      BY <2>1 DEF StopEnds, CloseSessions, Joined
    <3>2. sock \in Joined => stage[sock] \in {"dialing", "joined"}
      BY DEF Joined
    <3>3. QED
      BY <2>1, <3>1, <3>2 DEF StopEnds, CloseSessions
  <2>2. CASE \E k \in Sockets : Refuse(k) \/ ServerNotices(k) \/ Ping(k)
    BY <2>2 DEF Refuse, ServerNotices, Ping
  <2>3. CASE LoseConnection /\ sock' # Nil
    <3>1. Ended({sock}) /\ stage[sock] = "joined" /\ sock \in Sockets
      BY <1>1, <2>3 DEF LoseConnection, PageLeaves, TypeOK
    <3>2. UNCHANGED <<since, claimed, sock, sawHello>>
      BY <2>3 DEF LoseConnection, PageLeaves
    <3>3. QED
      BY <2>3, <3>1, <3>2 DEF LoseConnection
  <2>4. QED
    BY <2>1, <2>2, <2>3
<1>3. closing' \in BOOLEAN /\ trouble' \in 0..MaxTrouble
  <2>1. closing' \in BOOLEAN
    BY <1>1 DEF TypeOK, StopEnds, CloseSessions, Refuse, ServerNotices, Ping, LoseConnection
  <2>2. CASE LoseConnection
    BY <1>1, <2>2 DEF TypeOK, LoseConnection
  <2>3. CASE ~ LoseConnection
    BY <1>1, <2>3 DEF TypeOK, StopEnds, CloseSessions, Refuse, ServerNotices, Ping
  <2>4. QED
    BY <2>1, <2>2, <2>3
<1>4. /\ stage' \in [Sockets -> {"free", "dialing", "accepted", "replayed",
                                 "joined", "ended"}]
      /\ buf' \in [Sockets -> Seq(Frames)]
      /\ \A k \in Sockets : Len(buf'[k]) <= SendBuffer
      /\ ConnInv' /\ QueueInv' /\ PromiseInv'
  BY <1>2, EndedConn
<1>5. /\ ring' \in Seq(1..MaxSeq) /\ Len(ring') <= Cap
      /\ RingInv'
  <2>1. CASE ring' = ring
    BY <1>1, <1>2, <2>1 DEF TypeOK, RingInv
  <2>2. CASE ring' = <<>>
    BY <2>2, Empty DEF RingInv
  <2>3. QED
    BY <1>2, <2>1, <2>2
<1>6. TypeOK'
  <2>1. stops' \in 0..MaxRuns
    BY <1>1, <1>2 DEF TypeOK
  <2>2. alive' \in BOOLEAN /\ running' \in BOOLEAN /\ sawHello' \in BOOLEAN
        /\ stopped' \in BOOLEAN
    BY <1>1, <1>2 DEF TypeOK
  <2>3. QED
    BY <1>1, <1>2, <1>3, <1>4, <1>5, <2>1, <2>2 DEF TypeOK
<1>7. StopsInv' /\ PageInv'
  BY <1>1, <1>2 DEF TypeOK, StopsInv, PageInv
<1>8. QED
  BY <1>4, <1>5, <1>6, <1>7 DEF IInv

-----------------------------------------------------------------------------
(***************************************************************************)
(* A socket on its way to the hub.                                         *)
(***************************************************************************)
\* It is accepted while the listener runs, or it joins.
LEMMA AcceptKeeps ==
  ASSUME IInv, NEW k \in Sockets, Accept(k) \/ Join(k)
  PROVE  IInv'
<1> USE MirrorAssumption DEF hub, session, page, IInv
<1>1. TypeOK' /\ RingInv' /\ StopsInv' /\ PageInv'
  <2>1. stage' \in [Sockets -> {"free", "dialing", "accepted", "replayed", "joined", "ended"}]
    BY DEF Accept, Join, TypeOK
  <2>2. TypeOK'
    BY <2>1 DEF Accept, Join, TypeOK
  <2>3. RingInv' /\ StopsInv' /\ PageInv'
    BY DEF Accept, Join, RingInv, StopsInv, PageInv
  <2>4. QED
    BY <2>2, <2>3
<1>2. /\ UNCHANGED <<seq, run, running, since, claimed, buf, page, owed>>
      /\ \A j \in Sockets \ {k} : stage'[j] = stage[j]
      /\ \/ stage[k] = "dialing" /\ stage'[k] = "accepted" /\ running
         \/ stage[k] = "replayed" /\ stage'[k] = "joined"
      /\ sock # Nil => sock \in Sockets
  BY DEF Accept, Join, TypeOK
<1>3. ConnInv' /\ QueueInv'
  BY <1>2 DEF ConnInv, QueueInv
<1>4. PromiseInv'
  <2>1. SUFFICES ASSUME NEW o \in owed, o.why = "none"
                 PROVE  Kept(o)'
    BY <1>2 DEF PromiseInv
  <2>2. Kept(o)
    BY <2>1 DEF PromiseInv
  <2>3. QED
    BY <1>2, <2>2 DEF Kept
<1>5. QED
  BY <1>1, <1>3, <1>4

\* It is replayed to: what the page misses is queued, or a gap.
LEMMA ReplayKeeps ==
  ASSUME IInv, NEW k \in Sockets, Replay(k)
  PROVE  IInv'
<1> USE MirrorAssumption DEF hub, session, page
<1>1. TypeOK /\ RingInv /\ StopsInv /\ PageInv /\ ConnInv /\ QueueInv /\ PromiseInv
  BY DEF IInv
<1> DEFINE queue == Queued(since[k], claimed[k])
<1>2. ReplayOf(queue, since[k], claimed[k])
  BY <1>1, QueuedIsReplay DEF TypeOK
<1> HIDE DEF queue
<1>3. queue \in Seq(Frames) /\ Len(queue) \in 1..SendBuffer
  BY <1>2 DEF ReplayOf
<1>4. buf' = [buf EXCEPT ![k] = queue] /\ stage' = [stage EXCEPT ![k] = "replayed"]
  BY <1>3 DEF Replay, queue
<1>5. /\ UNCHANGED <<hub, session, page, owed, trouble>>
      /\ since' = [since EXCEPT ![k] = 0] /\ claimed' = [claimed EXCEPT ![k] = 0]
      /\ stage[k] = "accepted"
  BY DEF Replay
<1>6. TypeOK'
  <2>1. stage' \in [Sockets -> {"free", "dialing", "accepted", "replayed", "joined", "ended"}]
    BY <1>1, <1>4 DEF TypeOK
  <2>2. buf' \in [Sockets -> Seq(Frames)] /\ \A j \in Sockets : Len(buf'[j]) <= SendBuffer
    BY <1>1, <1>3, <1>4 DEF TypeOK
  <2>3. since' \in [Sockets -> 0..MaxSeq] /\ claimed' \in [Sockets -> 0..MaxRuns]
    BY <1>1, <1>5 DEF TypeOK
  <2>4. QED
    BY <1>1, <1>5, <2>1, <2>2, <2>3 DEF TypeOK
<1>7. RingInv' /\ StopsInv' /\ PageInv'
  BY <1>1, <1>5 DEF RingInv, StopsInv, PageInv
<1>8. /\ \A j \in Sockets \ {k} : /\ stage'[j] = stage[j] /\ buf'[j] = buf[j]
                                 /\ since'[j] = since[j] /\ claimed'[j] = claimed[j]
      /\ stage'[k] = "replayed" /\ buf'[k] = queue
      /\ sock # Nil => sock \in Sockets
  BY <1>1, <1>4, <1>5 DEF TypeOK
<1>9. ConnInv'
  BY <1>1, <1>5, <1>8 DEF ConnInv
<1>10. CASE sock # k
  <2>1. QueueInv'
    BY <1>1, <1>5, <1>8, <1>10 DEF QueueInv
  <2>2. PromiseInv'
    BY <1>1, <1>5, <1>8, <1>10 DEF PromiseInv, Kept
  <2>3. QED
    BY <1>6, <1>7, <1>9, <2>1, <2>2 DEF IInv
<1>11. CASE sock = k
  <2>1. /\ seq \in Nat /\ run \in Nat /\ lastSeq \in Nat /\ pageRun \in Nat
        /\ sock # Nil /\ since[k] = lastSeq /\ (lastSeq > 0 => claimed[k] = pageRun)
        /\ lastSeq <= seq
    BY <1>1, <1>5, <1>11 DEF TypeOK, ConnInv, PageInv
  <2>2. /\ Len(queue) \in Nat \ {0} /\ queue # <<>>
        /\ queue[1].hello /\ queue[1].seq = seq /\ queue[1].run = run
        /\ queue[1].replayed = Len(queue) - 1
        /\ \A i \in 2..Len(queue) : /\ ~ queue[i].hello /\ queue[i].run = 0
                                    /\ queue[i].seq = seq - Len(queue) + i
    BY <1>2, Empty DEF ReplayOf
  <2>3. queue[1].gap \/ lastSeq = 0 \/ (pageRun = run /\ Len(queue) - 1 = seq - lastSeq)
    BY <1>2, <2>1 DEF ReplayOf
  <2>4. QueueInv'
    <3>1. \A i \in 1..Len(queue) : queue[i].seq <= seq /\ queue[i].run <= run
      BY <2>1, <2>2
    <3>2. \A i, j \in 1..Len(queue) :
            i < j /\ ~ queue[i].hello => queue[i].seq < queue[j].seq
      BY <2>1, <2>2
    <3>3. ~ queue[1].gap /\ lastSeq # 0 =>
            /\ queue[1].run = pageRun
            /\ queue[1].replayed = 0 => queue[1].seq = lastSeq
      BY <2>1, <2>2, <2>3
    <3>4. QED
      BY <1>5, <1>8, <1>11, <2>1, <2>2, <3>1, <3>2, <3>3 DEF QueueInv
  <2>5. PromiseInv'
    <3>1. SUFFICES ASSUME NEW o \in owed, o.why = "none"
                   PROVE  Kept(o)'
      BY <1>5 DEF PromiseInv
    <3>2. Kept(o) /\ lastSeq # 0 /\ o.at \in Nat /\ (o.numbered => o.at <= seq)
      BY <1>1, <3>1 DEF PromiseInv, PageInv, TypeOK
    <3>3. ~ o.numbered => pageRun < run
      BY <1>5, <1>11, <2>1, <3>2 DEF Kept
    <3>4. queue[1].gap \/ (o.numbered /\ Carries(queue, o))
      <4>1. SUFFICES ASSUME ~ queue[1].gap
                     PROVE  o.numbered /\ Carries(queue, o)
        OBVIOUS
      <4>2. pageRun = run /\ Len(queue) - 1 = seq - lastSeq
        BY <2>3, <3>2, <4>1
      <4>3. o.numbered
        BY <2>1, <3>3, <4>2
      <4>4. o.at > lastSeq /\ o.at <= seq
        BY <3>2, <4>3 DEF Kept
      <4>5. o.at - seq + Len(queue) \in 2..Len(queue)
        BY <2>1, <2>2, <3>2, <4>2, <4>4
      <4>6. ~ queue[o.at - seq + Len(queue)].hello /\ queue[o.at - seq + Len(queue)].seq = o.at
        BY <2>1, <2>2, <3>2, <4>5
      <4>7. o.at - seq + Len(queue) \in 1..Len(queue)
        BY <4>5
      <4>8. QED
        BY <4>3, <4>6, <4>7 DEF Carries
    <3>5. queue[1].gap => Gapped(queue)
      BY <2>2 DEF Gapped
    <3>6. QED
      BY <1>5, <1>8, <1>11, <3>2, <3>3, <3>4, <3>5 DEF Kept
  <2>6. QED
    BY <1>6, <1>7, <1>9, <2>4, <2>5 DEF IInv
<1>12. QED
  BY <1>10, <1>11

-----------------------------------------------------------------------------
(***************************************************************************)
(* Events.                                                                 *)
(***************************************************************************)
\* What the page is owed grows by one event at most.
LEMMA OwesTypes ==
  ASSUME TypeOK, NEW numbered \in BOOLEAN, NEW why \in Excuses
  PROVE  /\ Owes(numbered, why) \subseteq [at : 1..MaxSeq + 1, numbered : BOOLEAN, why : Excuses]
         /\ lastSeq = 0 => Owes(numbered, why) = owed
         /\ \A o \in Owes(numbered, why) \ owed :
              o.at = seq + 1 /\ o.numbered = numbered /\ o.why = why
<1>1. [at |-> seq + 1, numbered |-> numbered, why |-> why]
        \in [at : 1..MaxSeq + 1, numbered : BOOLEAN, why : Excuses]
  BY MirrorAssumption DEF TypeOK
<1>2. QED
  BY <1>1 DEF Owes, TypeOK

\* With the listener down.
LEMMA UnheardKeeps ==
  ASSUME IInv, Unheard
  PROVE  IInv'
<1> USE MirrorAssumption DEF hub, session, conn, page
<1>1. TypeOK /\ RingInv /\ StopsInv /\ PageInv /\ ConnInv /\ QueueInv /\ PromiseInv
  BY DEF IInv
<1> DEFINE why == IF sock # Nil /\ stage[sock] \in {"accepted", "replayed", "joined"}
                    THEN "unheard" ELSE "none"
<1>2. why \in Excuses
  BY DEF Excuses
<1>3. owed' = Owes(FALSE, why) /\ ~ running /\ UNCHANGED <<hub, session, conn, page, trouble>>
  BY DEF Unheard
<1>4. why = "none" /\ sock # Nil => stage[sock] \in {"dialing", "ended"} /\ sock \in Sockets
  BY <1>1 DEF TypeOK, ConnInv
<1> HIDE DEF why
<1>5. /\ owed' \subseteq [at : 1..MaxSeq + 1, numbered : BOOLEAN, why : Excuses]
      /\ lastSeq = 0 => owed' = owed
      /\ \A o \in owed' \ owed : o.at = seq + 1 /\ ~ o.numbered /\ o.why = why
  BY <1>1, <1>2, <1>3, OwesTypes
<1>6. TypeOK' /\ RingInv' /\ StopsInv' /\ ConnInv' /\ QueueInv'
  BY <1>1, <1>3, <1>5 DEF TypeOK, RingInv, StopsInv, ConnInv, QueueInv
<1>7. PageInv'
  BY <1>1, <1>3, <1>5 DEF PageInv
<1>8. PromiseInv'
  <2>1. SUFFICES ASSUME NEW o \in owed', o.why = "none"
                 PROVE  Kept(o)'
    BY DEF PromiseInv
  <2>2. CASE o \in owed
    BY <1>1, <1>3, <2>1, <2>2 DEF PromiseInv, Kept
  <2>3. CASE o \notin owed
    <3>1. o.at = seq + 1 /\ ~ o.numbered /\ why = "none"
      BY <1>5, <2>1, <2>3
    <3>2. o.at > lastSeq
      BY <1>1, <3>1 DEF TypeOK, PageInv
    <3>3. sock # Nil => Before(buf[sock], o)
      <4>1. SUFFICES ASSUME sock # Nil, NEW i \in 1..Len(buf[sock])
                     PROVE  buf[sock][i].seq < o.at
        BY DEF Before
      <4>2. buf[sock][i].seq <= seq /\ buf[sock][i].seq \in Nat
        BY <1>1, <1>4, <3>1, <4>1, QueueTypes DEF QueueInv
      <4>3. QED
        BY <1>1, <3>1, <4>2, SMTT(20) DEF TypeOK
    <3>4. QED
      BY <1>3, <1>4, <3>1, <3>2, <3>3 DEF Kept
  <2>4. QED
    BY <2>2, <2>3
<1>9. QED
  BY <1>6, <1>7, <1>8 DEF IInv

\* The buffer takes the event, in order and never beyond its cap.
LEMMA BufferedRing ==
  ASSUME TypeOK, RingInv, seq < MaxSeq
  PROVE  /\ Buffered(seq + 1) \in Seq(1..MaxSeq) /\ Len(Buffered(seq + 1)) <= Cap
         /\ \A i \in 1..Len(Buffered(seq + 1)) :
              Buffered(seq + 1)[i] = seq + 1 - Len(Buffered(seq + 1)) + i
<1> USE MirrorAssumption
<1> DEFINE kept == IF Len(ring) >= Cap THEN Tail(ring) ELSE ring
<1>1. /\ ring \in Seq(1..MaxSeq) /\ Len(ring) \in 0..Cap /\ seq \in Nat
      /\ seq + 1 \in 1..MaxSeq
      /\ \A i \in 1..Len(ring) : ring[i] = seq - Len(ring) + i
  BY LenProperties DEF TypeOK, RingInv
<1>2. /\ kept \in Seq(1..MaxSeq) /\ Len(kept) \in Nat /\ Len(kept) < Cap
      /\ \A i \in 1..Len(kept) : kept[i] = seq - Len(kept) + i
  <2>1. CASE Len(ring) >= Cap
    <3>1. ring # <<>>
      BY <1>1, <2>1, Empty
    <3>2. /\ Tail(ring) \in Seq(1..MaxSeq) /\ Len(Tail(ring)) = Len(ring) - 1
          /\ \A i \in 1..Len(Tail(ring)) : Tail(ring)[i] = ring[i + 1]
      BY <1>1, <3>1, HeadTailProperties
    <3>3. \A i \in 1..Len(Tail(ring)) : Tail(ring)[i] = seq - Len(Tail(ring)) + i
      BY <1>1, <3>2
    <3>4. QED
      BY <1>1, <2>1, <3>2, <3>3
  <2>2. CASE ~ (Len(ring) >= Cap)
    BY <1>1, <2>2
  <2>3. QED
    BY <2>1, <2>2
<1> HIDE DEF kept
<1>3. /\ Append(kept, seq + 1) \in Seq(1..MaxSeq)
      /\ Len(Append(kept, seq + 1)) = Len(kept) + 1
      /\ \A i \in 1..Len(kept) : Append(kept, seq + 1)[i] = kept[i]
      /\ Append(kept, seq + 1)[Len(kept) + 1] = seq + 1
  BY <1>1, <1>2, AppendProperties
<1>4. \A i \in 1..Len(kept) + 1 :
        Append(kept, seq + 1)[i] = seq + 1 - (Len(kept) + 1) + i
  BY <1>1, <1>2, <1>3
<1> DEFINE new == Append(kept, seq + 1)
<1>5. Buffered(seq + 1) = new
  BY DEF Buffered, kept
<1>6. /\ new \in Seq(1..MaxSeq) /\ Len(new) <= Cap
      /\ \A i \in 1..Len(new) : new[i] = seq + 1 - Len(new) + i
  BY <1>2, <1>3, <1>4
<1> HIDE DEF new
<1>7. QED
  BY <1>5, <1>6

\* What becomes of a socket: a joined one takes the frame or, full, is dropped.
LEMMA PublishedSocket ==
  ASSUME TypeOK, Publish, NEW k \in Sockets
  PROVE  /\ buf'[k] \in Seq(Frames) /\ Len(buf'[k]) <= SendBuffer
         /\ stage[k] # "joined" => stage'[k] = stage[k] /\ buf'[k] = buf[k]
         /\ stage[k] = "joined" =>
              \/ stage'[k] = "joined" /\ buf'[k] = Append(buf[k], Frame(seq + 1))
              \/ k = sock /\ stage'[k] = "ended" /\ buf'[k] = buf[k]
              \/ k # sock /\ stage'[k] = "free" /\ buf'[k] = <<>>
<1> USE MirrorAssumption
<1> DEFINE full == Push(k, seq + 1) = buf[k]
<1>1. /\ buf[k] \in Seq(Frames) /\ Len(buf[k]) \in Nat /\ Len(buf[k]) <= SendBuffer
      /\ seq \in Nat /\ seq + 1 \in 0..MaxSeq
  BY LenProperties DEF TypeOK, Publish
<1>2. Frame(seq + 1) \in Frames
  BY <1>1 DEF Frame, Frames
<1>3. /\ Append(buf[k], Frame(seq + 1)) \in Seq(Frames)
      /\ Len(Append(buf[k], Frame(seq + 1))) = Len(buf[k]) + 1
  BY <1>1, <1>2, AppendProperties
<1>4. CASE stage[k] # "joined"
  <2>1. k \notin Joined
    BY <1>4 DEF Joined
  <2>2. stage'[k] = stage[k] /\ buf'[k] = buf[k]
    BY <2>1 DEF Publish
  <2>3. QED
    BY <1>1, <1>4, <2>2
<1>5. CASE stage[k] = "joined"
  <2>1. k \in Joined
    BY <1>5 DEF Joined
  <2>2. /\ stage'[k] = (IF ~ full THEN stage[k] ELSE IF k = sock THEN "ended" ELSE "free")
        /\ buf'[k] = IF full /\ k # sock THEN <<>> ELSE Push(k, seq + 1)
    BY <2>1 DEF Publish
  <2>3. CASE Len(buf[k]) < SendBuffer
    <3>1. Push(k, seq + 1) = Append(buf[k], Frame(seq + 1))
      BY <2>3 DEF Push
    <3>2. ~ full
      BY <1>1, <1>3, <3>1
    <3>3. QED
      BY <1>1, <1>3, <1>5, <2>2, <2>3, <3>1, <3>2, SMTT(20)
  <2>4. CASE ~ (Len(buf[k]) < SendBuffer)
    <3>1. full
      BY <2>4 DEF Push
    <3>2. QED
      BY <1>1, <1>5, <2>2, <3>1, Empty
  <2>5. QED
    BY <2>3, <2>4
<1>6. QED
  BY <1>4, <1>5

\* While it runs.
LEMMA PublishKeeps ==
  ASSUME IInv, Publish
  PROVE  IInv'
<1> USE MirrorAssumption DEF session, page
<1>1. TypeOK /\ RingInv /\ StopsInv /\ PageInv /\ ConnInv /\ QueueInv /\ PromiseInv
  BY DEF IInv
<1> DEFINE why == IF sock # Nil /\ stage[sock] = "replayed" THEN "handshake" ELSE "none"
<1>2. /\ owed' = Owes(TRUE, why) /\ running /\ seq < MaxSeq /\ seq' = seq + 1
      /\ UNCHANGED <<run, running, stops, session, since, claimed, page, trouble>>
      /\ ring' = Buffered(seq + 1)
  BY DEF Publish
<1>3. why \in Excuses
  BY DEF Excuses
<1>4. why = "none" /\ sock # Nil => stage[sock] # "replayed"
  OBVIOUS
<1> HIDE DEF why
<1>5. /\ owed' \subseteq [at : 1..MaxSeq + 1, numbered : BOOLEAN, why : Excuses]
      /\ lastSeq = 0 => owed' = owed
      /\ owed \subseteq owed'
      /\ \A o \in owed' \ owed : o.at = seq + 1 /\ o.numbered /\ o.why = why
  BY <1>1, <1>2, <1>3, OwesTypes DEF Owes
<1>6. TypeOK'
  <2>1. ring' \in Seq(1..MaxSeq) /\ Len(ring') <= Cap
    BY <1>1, <1>2, BufferedRing
  <2>2. buf' \in [Sockets -> Seq(Frames)] /\ \A k \in Sockets : Len(buf'[k]) <= SendBuffer
    <3>1. buf' = [k \in Sockets |-> buf'[k]]
      BY DEF Publish
    <3>2. \A k \in Sockets : buf'[k] \in Seq(Frames) /\ Len(buf'[k]) <= SendBuffer
      BY <1>1, PublishedSocket
    <3>3. QED
      BY <3>1, <3>2
  <2>3. stage' \in [Sockets -> {"free", "dialing", "accepted", "replayed", "joined", "ended"}]
    <3>1. stage' = [k \in Sockets |-> stage'[k]]
      BY DEF Publish
    <3>2. \A k \in Sockets :
            stage'[k] \in {"free", "dialing", "accepted", "replayed", "joined", "ended"}
      BY <1>1, PublishedSocket DEF TypeOK
    <3>3. QED
      BY <3>1, <3>2
  <2>4. seq' \in 0..MaxSeq
    BY <1>1, <1>2 DEF TypeOK
  <2>5. QED
    BY <1>1, <1>2, <1>5, <2>1, <2>2, <2>3, <2>4 DEF TypeOK
<1>7. RingInv' /\ StopsInv' /\ PageInv'
  <2>1. RingInv'
    <3> DEFINE new == Buffered(seq + 1)
    <3>1. \A i \in 1..Len(new) : new[i] = seq + 1 - Len(new) + i
      BY <1>1, <1>2, BufferedRing
    <3>2. ring' = new /\ seq' = seq + 1 /\ seq \in Int /\ Len(new) \in Int
      BY <1>1, <1>2, BufferedRing, LenProperties DEF TypeOK
    <3> HIDE DEF new
    <3>3. \A i \in 1..Len(ring') : ring'[i] = seq' - Len(ring') + i
      <4>1. SUFFICES ASSUME NEW i \in 1..Len(ring')
                     PROVE  ring'[i] = seq' - Len(ring') + i
        OBVIOUS
      <4>2. new[i] = seq + 1 - Len(new) + i /\ ring'[i] = new[i] /\ Len(ring') = Len(new)
        BY <3>1, <3>2
      <4>3. QED
        BY <3>2, <4>2
    <3>4. QED
      BY <3>3 DEF RingInv
  <2>2. StopsInv'
    BY <1>1, <1>2 DEF StopsInv
  <2>3. PageInv'
    <3>1. seq \in Int /\ lastSeq \in Int /\ \A o \in owed : o.at \in Int
      BY <1>1 DEF TypeOK
    <3>2. lastSeq <= seq /\ pageRun <= run /\ (lastSeq = 0 => owed = {})
      BY <1>1 DEF PageInv
    <3>3. \A o \in owed : o.numbered => o.at <= seq
      BY <1>1 DEF PageInv
    <3>4. \A o \in owed' : o.numbered => o.at <= seq + 1
      <4>1. SUFFICES ASSUME NEW o \in owed', o.numbered
                     PROVE  o.at <= seq + 1
        OBVIOUS
      <4>2. CASE o \in owed
        BY <3>1, <3>3, <4>1, <4>2
      <4>3. CASE o \notin owed
        BY <1>5, <3>1, <4>1, <4>3
      <4>4. QED
        BY <4>2, <4>3
    <3>5. lastSeq' = 0 => owed' = {}
      BY <1>2, <1>5, <3>2
    <3>6. lastSeq' <= seq' /\ pageRun' <= run'
      BY <1>2, <3>1, <3>2
    <3>7. QED
      BY <1>2, <3>4, <3>5, <3>6 DEF PageInv
  <2>4. QED
    BY <2>1, <2>2, <2>3
<1>8. ConnInv'
  BY <1>1, <1>2, PublishedSocket, Empty DEF TypeOK, ConnInv
<1>9. CASE sock = Nil
  <2>1. QueueInv'
    BY <1>2, <1>9 DEF QueueInv
  <2>2. PromiseInv'
    <3>1. SUFFICES ASSUME NEW o \in owed', o.why = "none"
                   PROVE  Kept(o)'
      BY DEF PromiseInv
    <3>2. CASE o \in owed
      BY <1>1, <1>2, <1>9, <3>1, <3>2 DEF PromiseInv, Kept
    <3>3. CASE o \notin owed
      <4>1. o.at = seq + 1 /\ o.numbered
        BY <1>5, <3>3
      <4>2. o.at > lastSeq
        BY <1>1, <4>1 DEF TypeOK, PageInv
      <4>3. QED
        BY <1>2, <1>9, <4>1, <4>2 DEF Kept
    <3>4. QED
      BY <3>2, <3>3
  <2>3. QED
    BY <1>6, <1>7, <1>8, <2>1, <2>2 DEF IInv
<1>10. CASE sock # Nil
  <2> DEFINE queue == buf[sock]
  <2>1. /\ sock \in Sockets /\ queue \in Seq(Frames) /\ Len(queue) \in Nat
        /\ queue # <<>> => 1 \in 1..Len(queue)
        /\ \A i \in 1..Len(queue) : queue[i].seq \in Nat /\ queue[i].seq <= seq
        /\ seq \in Nat /\ run \in Nat /\ lastSeq \in Nat /\ lastSeq <= seq
    <3>1. sock \in Sockets
      BY <1>1, <1>10 DEF TypeOK
    <3>2. seq \in Nat /\ run \in Nat /\ lastSeq \in Nat /\ lastSeq <= seq
      BY <1>1 DEF TypeOK, PageInv
    <3>3. \A i \in 1..Len(queue) : queue[i].seq <= seq
      BY <1>1, <1>10 DEF QueueInv
    <3>4. QED
      BY <1>1, <3>1, <3>2, <3>3, QueueTypes
  <2>2. \/ /\ stage[sock] # "joined" /\ stage'[sock] = stage[sock] /\ buf'[sock] = queue
        \/ /\ stage[sock] = "joined" /\ stage'[sock] = "joined"
           /\ buf'[sock] = Append(queue, Frame(seq + 1))
        \/ stage[sock] = "joined" /\ stage'[sock] = "ended" /\ buf'[sock] = queue
    BY <1>1, <2>1, PublishedSocket
  <2>3. ASSUME buf'[sock] = Append(queue, Frame(seq + 1))
        PROVE  /\ Len(buf'[sock]) = Len(queue) + 1 /\ buf'[sock] # <<>>
               /\ \A i \in 1..Len(queue) : buf'[sock][i] = queue[i]
               /\ ~ buf'[sock][Len(queue) + 1].hello
               /\ buf'[sock][Len(queue) + 1].seq = seq + 1
               /\ buf'[sock][Len(queue) + 1].run = 0
    <3>1. Frame(seq + 1) \in Frames
      BY <1>2, <2>1 DEF Frame, Frames
    <3>2. QED
      BY <2>1, <2>3, <3>1, AppendProperties DEF Frame
  <2> HIDE DEF queue
  <2>4. QueueInv'
    <3>1. CASE buf'[sock] = queue
      BY <1>1, <1>2, <1>10, <2>1, <3>1, SMTT(20) DEF QueueInv, queue
    <3>2. CASE buf'[sock] = Append(queue, Frame(seq + 1))
      <4> DEFINE new == buf'[sock]
      <4>1. /\ Len(new) = Len(queue) + 1 /\ new # <<>>
            /\ \A i \in 1..Len(queue) : new[i] = queue[i]
            /\ ~ new[Len(queue) + 1].hello
            /\ new[Len(queue) + 1].seq = seq + 1 /\ new[Len(queue) + 1].run = 0
        BY <2>3, <3>2
      <4>2. /\ \A i \in 1..Len(queue) : queue[i].seq <= seq /\ queue[i].run <= run
            /\ \A i \in 2..Len(queue) : ~ queue[i].hello
            /\ \A i, j \in 1..Len(queue) :
                 i < j /\ ~ queue[i].hello => queue[i].seq < queue[j].seq
            /\ queue # <<>> /\ queue[1].hello /\ ~ queue[1].gap /\ lastSeq # 0 =>
                 /\ queue[1].run = pageRun
                 /\ queue[1].replayed = 0 => queue[1].seq = lastSeq
        BY <1>1, <1>10 DEF QueueInv, queue
      <4> HIDE DEF new
      <4>3. \A i \in 1..Len(new) : new[i].seq <= seq + 1 /\ new[i].run <= run
        BY <2>1, <4>1, <4>2
      <4>7. \A i \in 2..Len(new) : ~ new[i].hello
        <5>1. \A i \in 2..Len(new) : i \in 2..Len(queue) \/ i = Len(queue) + 1
          BY <2>1, <4>1
        <5>2. \A i \in 2..Len(queue) : i \in 1..Len(queue)
          OBVIOUS
        <5>3. QED
          BY <4>1, <4>2, <5>1, <5>2
      <4>4. \A i, j \in 1..Len(new) :
              i < j /\ ~ new[i].hello => new[i].seq < new[j].seq
        <5>1. SUFFICES ASSUME NEW i \in 1..Len(new), NEW j \in 1..Len(new),
                              i < j, ~ new[i].hello
                       PROVE  new[i].seq < new[j].seq
          OBVIOUS
        <5>2. i \in 1..Len(queue) /\ (j \in 1..Len(queue) \/ j = Len(queue) + 1)
          BY <2>1, <4>1, <5>1, SMTT(20)
        <5>3. CASE j \in 1..Len(queue)
          BY <4>1, <4>2, <5>1, <5>2, <5>3
        <5>4. CASE j = Len(queue) + 1
          <6>1. new[i] = queue[i] /\ queue[i].seq \in Nat /\ queue[i].seq <= seq
            BY <2>1, <4>1, <5>2
          <6>2. new[j].seq = seq + 1
            BY <4>1, <5>4
          <6>3. QED
            BY <2>1, <6>1, <6>2
        <5>5. QED
          BY <5>2, <5>3, <5>4
      <4>5. new[1].hello => queue # <<>> /\ new[1] = queue[1]
        BY <2>1, <4>1, Empty
      <4>6. QED
        BY <1>2, <4>2, <4>3, <4>4, <4>5, <4>7 DEF QueueInv, new
    <3>3. QED
      BY <2>2, <3>1, <3>2
  <2>5. PromiseInv'
    <3>1. SUFFICES ASSUME NEW o \in owed', o.why = "none"
                   PROVE  Kept(o)'
      BY DEF PromiseInv
    <3>2. CASE o \in owed
      <4>1. Kept(o) /\ o.at \in Nat
        BY <1>1, <3>1, <3>2 DEF PromiseInv, TypeOK
      <4>2. CASE buf'[sock] = queue
        BY <1>2, <1>10, <2>2, <4>1, <4>2 DEF Kept, queue
      <4>3. CASE stage[sock] = "joined" /\ stage'[sock] = "joined"
                   /\ buf'[sock] = Append(queue, Frame(seq + 1))
        <5>1. Carries(queue, o) => Carries(buf'[sock], o)
          BY <2>1, <2>3, <4>3 DEF Carries
        <5>2. Gapped(queue) => Gapped(buf'[sock])
          BY <2>1, <2>3, <4>3 DEF Gapped
        <5>3. QED
          BY <1>2, <1>10, <4>1, <4>3, <5>1, <5>2 DEF Kept, queue
      <4>4. QED
        BY <2>2, <4>2, <4>3
    <3>3. CASE o \notin owed
      <4>1. o.at = seq + 1 /\ o.numbered /\ stage[sock] # "replayed"
        BY <1>4, <1>5, <1>10, <3>1, <3>3
      <4>2. CASE buf'[sock] = Append(queue, Frame(seq + 1))
        <5>1. Carries(buf'[sock], o)
          <6>1. Len(queue) + 1 \in 1..Len(buf'[sock])
            BY <2>1, <2>3, <4>2
          <6>2. QED
            BY <2>3, <4>1, <4>2, <6>1 DEF Carries
        <5>2. QED
          BY <1>2, <2>1, <4>1, <5>1 DEF Kept
      <4>3. CASE buf'[sock] = queue
        <5>1. Before(queue, o)
          BY <2>1, <4>1 DEF Before
        <5>2. stage'[sock] \notin {"replayed", "joined"} \/ buf'[sock] = Append(queue, Frame(seq + 1))
          BY <2>2, <4>1
        <5>3. QED
          BY <1>2, <2>1, <4>1, <4>2, <4>3, <5>1, <5>2 DEF Kept
      <4>4. QED
        BY <2>2, <4>2, <4>3
    <3>4. QED
      BY <3>2, <3>3
  <2>6. QED
    BY <1>6, <1>7, <1>8, <2>4, <2>5 DEF IInv
<1>11. QED
  BY <1>9, <1>10

-----------------------------------------------------------------------------
(***************************************************************************)
(* The page.                                                               *)
(***************************************************************************)
\* It leaves its socket and keeps what it knows, or loads afresh.
LEMMA LeavingKeeps ==
  ASSUME IInv, PageLeaves, UNCHANGED <<hub, session>>,
         trouble' \in 0..MaxTrouble, stopped' \in BOOLEAN,
         \/ UNCHANGED <<lastSeq, pageRun, owed>>
         \/ lastSeq' = 0 /\ pageRun' = 0 /\ owed' = {}
  PROVE  IInv'
<1> USE MirrorAssumption DEF hub, session
<1>1. TypeOK /\ RingInv /\ StopsInv /\ PageInv /\ ConnInv /\ PromiseInv
  BY DEF IInv
<1>2. /\ stage' \in [Sockets -> {"free", "dialing", "accepted", "replayed",
                                 "joined", "ended"}]
      /\ buf' \in [Sockets -> Seq(Frames)]
      /\ \A k \in Sockets :
           \/ stage'[k] = stage[k] /\ buf'[k] = buf[k]
           \/ stage'[k] = "free" /\ buf'[k] = <<>>
      /\ sock' = Nil /\ sawHello' = FALSE /\ UNCHANGED <<since, claimed>>
  <2>1. CASE sock # Nil /\ stage[sock] = "ended"
    <3>1. /\ stage' = [stage EXCEPT ![sock] = "free"] /\ buf' = [buf EXCEPT ![sock] = <<>>]
          /\ sock \in Sockets
      BY <1>1, <2>1 DEF PageLeaves, TypeOK
    <3>2. QED
      BY <1>1, <3>1, Empty DEF PageLeaves, TypeOK
  <2>2. CASE ~ (sock # Nil /\ stage[sock] = "ended")
    BY <1>1, <2>2 DEF PageLeaves, TypeOK
  <2>3. QED
    BY <2>1, <2>2
<1>3. /\ lastSeq' \in 0..MaxSeq /\ pageRun' \in 0..MaxRuns
      /\ owed' \subseteq [at : 1..MaxSeq + 1, numbered : BOOLEAN, why : Excuses]
  BY <1>1, SMTT(20) DEF TypeOK
<1>4. \A k \in Sockets : Len(buf'[k]) <= SendBuffer
  BY <1>1, <1>2, Empty DEF TypeOK
<1>5. TypeOK'
  <2>1. running' \in BOOLEAN /\ alive' \in BOOLEAN /\ closing' \in BOOLEAN
        /\ sawHello' \in BOOLEAN
    BY <1>1, <1>2 DEF TypeOK
  <2>2. QED
    BY <1>1, <1>2, <1>3, <1>4, <2>1 DEF TypeOK
<1>6. RingInv' /\ StopsInv'
  BY <1>1 DEF RingInv, StopsInv
<1>7. PageInv'
  BY <1>1 DEF TypeOK, PageInv
<1>8. ConnInv' /\ QueueInv'
  BY <1>1, <1>2 DEF ConnInv, QueueInv
<1>9. PromiseInv'
  BY <1>1, <1>2 DEF PromiseInv, Kept
<1>10. QED
  BY <1>5, <1>6, <1>7, <1>8, <1>9 DEF IInv

LEMMA PageLeavesKeeps ==
  ASSUME IInv, \/ HearGap \/ PageNotices \/ ReloadByHand
               \/ LoseConnection /\ sock' = Nil
  PROVE  IInv'
<1> USE MirrorAssumption DEF hub, session, IInv
<1>1. CASE HearGap
  BY <1>1, LeavingKeeps DEF HearGap, Reload, TypeOK
<1>2. CASE PageNotices
  <2>1. stopped' \in BOOLEAN
    BY <1>2 DEF PageNotices, TypeOK
  <2>2. QED
    BY <1>2, <2>1, LeavingKeeps DEF PageNotices, TypeOK
<1>3. CASE ReloadByHand
  <2>1. trouble' \in 0..MaxTrouble
    BY <1>3 DEF ReloadByHand, TypeOK
  <2>2. QED
    BY <1>3, <2>1, LeavingKeeps DEF ReloadByHand, Reload, TypeOK
<1>4. CASE LoseConnection /\ sock' = Nil
  <2>1. trouble' \in 0..MaxTrouble
    BY <1>4 DEF LoseConnection, TypeOK
  <2>2. PageLeaves
    BY <1>4 DEF LoseConnection
  <2>3. QED
    BY <1>4, <2>1, <2>2, LeavingKeeps DEF LoseConnection, TypeOK
<1>5. QED
  BY <1>1, <1>2, <1>3, <1>4

\* It dials with what it knows.
LEMMA DialKeeps ==
  ASSUME IInv, Dial
  PROVE  IInv'
<1> USE MirrorAssumption DEF hub, session
<1>1. TypeOK /\ RingInv /\ StopsInv /\ PageInv /\ ConnInv /\ PromiseInv
  BY DEF IInv
<1> DEFINE claim == IF lastSeq > 0 THEN pageRun ELSE 0
<1>2. PICK k \in Sockets :
        /\ stage[k] = "free" /\ sock' = k
        /\ stage' = [stage EXCEPT ![k] = "dialing"]
        /\ since' = [since EXCEPT ![k] = lastSeq]
        /\ claimed' = [claimed EXCEPT ![k] = claim]
  BY DEF Dial
<1>3. /\ sock = Nil
      /\ UNCHANGED <<hub, session, buf, sawHello, lastSeq, pageRun, stopped, owed, trouble>>
  BY DEF Dial
<1>4. claim \in 0..MaxRuns /\ (lastSeq > 0 => claim = pageRun)
  BY <1>1 DEF TypeOK
<1> HIDE DEF claim
<1>5. /\ stage' \in [Sockets -> {"free", "dialing", "accepted", "replayed", "joined", "ended"}]
      /\ since' \in [Sockets -> 0..MaxSeq] /\ claimed' \in [Sockets -> 0..MaxRuns]
      /\ stage'[k] = "dialing" /\ since'[k] = lastSeq /\ claimed'[k] = claim
      /\ \A j \in Sockets \ {k} : stage'[j] = stage[j]
      /\ buf[k] = <<>> /\ k # Nil
  BY <1>1, <1>2, <1>4 DEF TypeOK, ConnInv
<1>6. TypeOK'
  BY <1>1, <1>2, <1>3, <1>5 DEF TypeOK
<1>7. RingInv' /\ StopsInv' /\ PageInv'
  BY <1>1, <1>3 DEF RingInv, StopsInv, PageInv
<1>8. ConnInv'
  BY <1>1, <1>2, <1>3, <1>4, <1>5 DEF ConnInv
<1>9. QueueInv'
  BY <1>2, <1>3, <1>5, Empty DEF QueueInv
<1>10. PromiseInv'
  BY <1>1, <1>2, <1>3, <1>5 DEF PromiseInv, Kept
<1>11. QED
  BY <1>6, <1>7, <1>8, <1>9, <1>10 DEF IInv

\* What a received frame leaves waiting.
LEMMA ReceivedKeeps ==
  ASSUME IInv, Arrives, Received, UNCHANGED <<seq, run, sock>>
  PROVE  /\ sock \in Sockets /\ buf[sock] # <<>> /\ Len(buf[sock]) \in Nat
         /\ Head(buf[sock]) = buf[sock][1] /\ 1 \in 1..Len(buf[sock])
         /\ Len(buf'[sock]) = Len(buf[sock]) - 1
         /\ \A i \in 1..Len(buf'[sock]) : buf'[sock][i] = buf[sock][i + 1]
         /\ buf' \in [Sockets -> Seq(Frames)]
         /\ \A k \in Sockets : Len(buf'[k]) <= SendBuffer
         /\ ConnInv' /\ QueueInv'
<1> USE MirrorAssumption
<1>1. TypeOK /\ ConnInv /\ QueueInv
  BY DEF IInv
<1>2. /\ sock \in Sockets /\ sock # Nil /\ buf[sock] # <<>>
      /\ stage[sock] \in {"joined", "ended"}
  BY <1>1 DEF Arrives, TypeOK
<1> DEFINE queue == buf[sock]
           rest == Tail(queue)
<1>3. /\ queue \in Seq(Frames) /\ Len(queue) \in Nat /\ 1 \in 1..Len(queue)
      /\ Len(queue) <= SendBuffer
  BY <1>1, <1>2, QueueTypes DEF TypeOK
<1>4. /\ rest \in Seq(Frames) /\ Len(rest) = Len(queue) - 1
      /\ \A i \in 1..Len(rest) : rest[i] = queue[i + 1]
      /\ Head(queue) = queue[1]
  BY <1>2, <1>3, HeadTailProperties
<1>5. buf' = [buf EXCEPT ![sock] = rest] /\ UNCHANGED <<stage, since, claimed>>
  BY DEF Received
<1> HIDE DEF rest
<1>6. /\ buf' \in [Sockets -> Seq(Frames)] /\ buf'[sock] = rest
      /\ \A k \in Sockets \ {sock} : buf'[k] = buf[k]
  BY <1>1, <1>2, <1>4, <1>5 DEF TypeOK
<1>7. \A k \in Sockets : Len(buf'[k]) <= SendBuffer
  <2>1. Len(rest) <= SendBuffer
    BY <1>3, <1>4
  <2>2. QED
    BY <1>1, <1>6, <2>1 DEF TypeOK
<1>8. \A i \in 1..Len(rest) : i + 1 \in 2..Len(queue) /\ i + 1 \in 1..Len(queue) /\ i \in Int
  BY <1>3, <1>4
<1>9. \A i \in 1..Len(rest) :
        /\ ~ rest[i].hello /\ rest[i].seq <= seq /\ rest[i].run <= run
        /\ \A j \in 1..Len(rest) : i < j => rest[i].seq < rest[j].seq
  <2>1. SUFFICES ASSUME NEW i \in 1..Len(rest)
                 PROVE  /\ ~ rest[i].hello /\ rest[i].seq <= seq /\ rest[i].run <= run
                        /\ \A j \in 1..Len(rest) : i < j => rest[i].seq < rest[j].seq
    OBVIOUS
  <2>2. ~ queue[i + 1].hello /\ queue[i + 1].seq <= seq /\ queue[i + 1].run <= run
    BY <1>1, <1>2, <1>8 DEF QueueInv
  <2>3. ASSUME NEW j \in 1..Len(rest), i < j
        PROVE  rest[i].seq < rest[j].seq
    <3>1. i + 1 < j + 1 /\ i + 1 \in 1..Len(queue) /\ j + 1 \in 1..Len(queue)
      BY <1>8, <2>3
    <3>2. queue[i + 1].seq < queue[j + 1].seq
      BY <1>1, <1>2, <2>2, <3>1 DEF QueueInv
    <3>3. QED
      BY <1>4, <2>3, <3>2
  <2>4. QED
    BY <1>4, <2>2, <2>3
<1>10. rest # <<>> => 1 \in 1..Len(rest)
  BY <1>4, EmptySeq, LenProperties
<1>11. QueueInv'
  <2>1. \A i \in 2..Len(rest) : i \in 1..Len(rest)
    OBVIOUS
  <2>2. rest # <<>> => ~ rest[1].hello
    BY <1>9, <1>10
  <2>3. QED
    BY <1>6, <1>9, <2>1, <2>2 DEF QueueInv
<1>12. ConnInv'
  BY <1>1, <1>2, <1>5, <1>6 DEF ConnInv
<1>13. QED
  BY <1>2, <1>3, <1>4, <1>6, <1>7, <1>11, <1>12

\* A hello without a gap tells a page that knows a number nothing new.
LEMMA HearHelloKeeps ==
  ASSUME IInv, HearHello
  PROVE  IInv'
<1> USE MirrorAssumption DEF hub, session
<1>1. TypeOK /\ RingInv /\ StopsInv /\ PageInv /\ ConnInv /\ QueueInv /\ PromiseInv
  BY DEF IInv
<1> DEFINE queue == buf[sock]
           rest == buf'[sock]
           hello == queue[1]
<1>2. Arrives /\ Received /\ UNCHANGED <<hub, session, sock, stopped, owed, trouble>>
      /\ UNCHANGED <<stage, since, claimed>> /\ sock # Nil
      /\ stage[sock] \in {"joined", "ended"} /\ sawHello' = TRUE
  BY DEF HearHello, Arrives, Received
<1>3. /\ sock \in Sockets /\ queue # <<>> /\ Len(queue) \in Nat
      /\ Head(queue) = hello /\ 1 \in 1..Len(queue)
      /\ Len(rest) = Len(queue) - 1
      /\ \A i \in 1..Len(rest) : rest[i] = queue[i + 1]
      /\ buf' \in [Sockets -> Seq(Frames)]
      /\ \A k \in Sockets : Len(buf'[k]) <= SendBuffer
      /\ ConnInv' /\ QueueInv'
  BY <1>2, ReceivedKeeps
<1>4. /\ hello.hello /\ ~ hello.gap /\ pageRun' = hello.run
      /\ lastSeq' = IF hello.replayed = 0 THEN hello.seq ELSE lastSeq
  BY <1>3 DEF HearHello, Resync
<1>5. hello \in Frames /\ hello.seq <= seq /\ hello.run <= run
  BY <1>1, <1>2, <1>3, QueueTypes DEF QueueInv
<1>6. hello.seq \in 0..MaxSeq /\ hello.run \in 0..MaxRuns
  BY <1>5 DEF Frames
<1>7. lastSeq # 0 => lastSeq' = lastSeq /\ pageRun' = pageRun
  BY <1>1, <1>2, <1>3, <1>4 DEF QueueInv
<1> HIDE DEF queue, rest, hello
<1>8. TypeOK'
  <2>1. lastSeq' \in 0..MaxSeq /\ pageRun' \in 0..MaxRuns
    BY <1>1, <1>4, <1>6 DEF TypeOK
  <2>2. sawHello' \in BOOLEAN /\ alive' \in BOOLEAN /\ closing' \in BOOLEAN
        /\ stopped' \in BOOLEAN /\ running' \in BOOLEAN
    BY <1>1, <1>2 DEF TypeOK
  <2>3. QED
    BY <1>1, <1>2, <1>3, <2>1, <2>2 DEF TypeOK
<1>9. RingInv' /\ StopsInv'
  BY <1>1, <1>2 DEF RingInv, StopsInv
<1>10. PageInv'
  BY <1>1, <1>2, <1>4, <1>5, <1>6, <1>7 DEF TypeOK, PageInv
<1>11. PromiseInv'
  <2>1. SUFFICES ASSUME NEW o \in owed, o.why = "none"
                 PROVE  Kept(o)'
    BY <1>2 DEF PromiseInv
  <2>2. Kept(o) /\ lastSeq # 0
    BY <1>1, <2>1 DEF PromiseInv, PageInv
  <2>3. ~ Gapped(queue)
    BY <1>4 DEF Gapped, hello
  <2>4. Carries(queue, o) => Carries(rest, o)
    <3>1. ASSUME NEW i \in 1..Len(queue), ~ queue[i].hello, queue[i].seq = o.at
          PROVE  Carries(rest, o)
      <4>1. i # 1
        BY <1>4, <3>1 DEF hello
      <4>2. i - 1 \in 1..Len(rest) /\ (i - 1) + 1 = i
        BY <1>3, <4>1
      <4>3. rest[i - 1] = queue[i]
        BY <1>3, <4>2
      <4>4. QED
        BY <3>1, <4>2, <4>3 DEF Carries
    <3>2. QED
      BY <3>1 DEF Carries
  <2>5. Before(queue, o) => Before(rest, o)
    <3>1. \A i \in 1..Len(rest) : i + 1 \in 1..Len(queue)
      BY <1>3
    <3>2. QED
      BY <1>3, <3>1 DEF Before
  <2>6. QED
    BY <1>2, <1>7, <2>2, <2>3, <2>4, <2>5 DEF Kept, queue, rest
<1>12. QED
  BY <1>3, <1>8, <1>9, <1>10, <1>11 DEF IInv

\* A frame brings the page forward, never past what it is still owed.
LEMMA HearFrameKeeps ==
  ASSUME IInv, HearFrame
  PROVE  IInv'
<1> USE MirrorAssumption DEF hub, session
<1>1. TypeOK /\ RingInv /\ StopsInv /\ PageInv /\ ConnInv /\ QueueInv /\ PromiseInv
  BY DEF IInv
<1> DEFINE queue == buf[sock]
           rest == buf'[sock]
           frame == queue[1]
<1>2. Arrives /\ Received
      /\ UNCHANGED <<hub, session, sock, sawHello, pageRun, stopped, trouble>>
      /\ UNCHANGED <<stage, since, claimed>> /\ sock # Nil
      /\ stage[sock] \in {"joined", "ended"}
  BY DEF HearFrame, Arrives, Received
<1>3. /\ sock \in Sockets /\ queue # <<>> /\ Len(queue) \in Nat
      /\ Head(queue) = frame /\ 1 \in 1..Len(queue)
      /\ Len(rest) = Len(queue) - 1
      /\ \A i \in 1..Len(rest) : rest[i] = queue[i + 1]
      /\ buf' \in [Sockets -> Seq(Frames)]
      /\ \A k \in Sockets : Len(buf'[k]) <= SendBuffer
      /\ ConnInv' /\ QueueInv'
  BY <1>2, ReceivedKeeps
<1>4. /\ ~ frame.hello
      /\ lastSeq' = IF frame.seq > lastSeq THEN frame.seq ELSE lastSeq
      /\ owed' = {o \in owed : ~ (o.numbered /\ o.at = frame.seq /\ frame.seq > lastSeq)}
  BY <1>3 DEF HearFrame
<1>5. /\ frame \in Frames /\ frame.seq <= seq
      /\ \A i \in 1..Len(queue) : 1 < i => frame.seq < queue[i].seq
      /\ \A i \in 1..Len(queue) : queue[i].seq \in Nat
  <2>1. frame \in Frames /\ \A i \in 1..Len(queue) : queue[i].seq \in Nat
    BY <1>1, <1>3, QueueTypes
  <2>2. frame.seq <= seq
    BY <1>1, <1>2, <1>3 DEF QueueInv
  <2>3. \A i \in 1..Len(queue) : 1 < i => frame.seq < queue[i].seq
    BY <1>1, <1>2, <1>3, <1>4 DEF QueueInv
  <2>4. QED
    BY <2>1, <2>2, <2>3
<1>6. frame.seq \in 0..MaxSeq
  BY <1>5 DEF Frames
<1> HIDE DEF queue, rest, frame
<1>7. TypeOK'
  <2>1. lastSeq' \in 0..MaxSeq
    BY <1>1, <1>4, <1>6 DEF TypeOK
  <2>2. sawHello' \in BOOLEAN /\ alive' \in BOOLEAN /\ closing' \in BOOLEAN
        /\ stopped' \in BOOLEAN /\ running' \in BOOLEAN
    BY <1>1, <1>2 DEF TypeOK
  <2>3. owed' \subseteq [at : 1..MaxSeq + 1, numbered : BOOLEAN, why : Excuses]
    BY <1>1, <1>4 DEF TypeOK
  <2>4. QED
    BY <1>1, <1>2, <1>3, <2>1, <2>2, <2>3 DEF TypeOK
<1>8. RingInv' /\ StopsInv'
  BY <1>1, <1>2 DEF RingInv, StopsInv
<1>9. PageInv'
  BY <1>1, <1>2, <1>4, <1>5, <1>6 DEF TypeOK, PageInv
<1>10. PromiseInv'
  <2>1. SUFFICES ASSUME NEW o \in owed', o.why = "none"
                 PROVE  Kept(o)'
    BY DEF PromiseInv
  <2>2. /\ o \in owed /\ Kept(o) /\ o.at \in Nat /\ o.at > lastSeq /\ lastSeq \in Nat
        /\ ~ (o.numbered /\ o.at = frame.seq /\ frame.seq > lastSeq)
    BY <1>1, <1>4, <2>1 DEF PromiseInv, Kept, TypeOK
  <2>3. ~ Gapped(queue)
    BY <1>4 DEF Gapped, frame
  <2>4. \/ o.numbered /\ Carries(queue, o)
        \/ stage[sock] = "ended" /\ Before(queue, o)
    BY <1>2, <2>2, <2>3 DEF Kept, queue
  <2>5. ASSUME o.numbered, Carries(queue, o)
        PROVE  Carries(rest, o) /\ o.at > frame.seq
    <3>1. PICK i \in 1..Len(queue) : ~ queue[i].hello /\ queue[i].seq = o.at
      BY <2>5 DEF Carries
    <3>2. i # 1
      BY <1>6, <2>2, <2>5, <3>1 DEF frame
    <3>3. i - 1 \in 1..Len(rest) /\ (i - 1) + 1 = i /\ 1 < i
      BY <1>3, <3>2
    <3>4. rest[i - 1] = queue[i]
      BY <1>3, <3>3
    <3>5. o.at > frame.seq
      BY <1>5, <1>6, <3>1, <3>3
    <3>6. QED
      BY <3>1, <3>3, <3>4, <3>5 DEF Carries
  <2>6. ASSUME Before(queue, o)
        PROVE  Before(rest, o) /\ o.at > frame.seq
    <3>1. \A i \in 1..Len(rest) : i + 1 \in 1..Len(queue)
      BY <1>3
    <3>2. frame.seq < o.at
      BY <1>3, <2>6 DEF Before, frame
    <3>3. QED
      BY <1>3, <1>6, <2>2, <2>6, <3>1, <3>2 DEF Before
  <2>7. o.at > lastSeq'
    BY <1>4, <1>6, <2>2, <2>4, <2>5, <2>6
  <2>8. QED
    BY <1>2, <2>2, <2>3, <2>4, <2>5, <2>6, <2>7 DEF Kept, queue, rest
<1>11. QED
  BY <1>3, <1>7, <1>8, <1>9, <1>10 DEF IInv

-----------------------------------------------------------------------------
LEMMA MirrorStep == IInv /\ [Next]_vars => IInv'
<1> SUFFICES ASSUME IInv, [Next]_vars
             PROVE  IInv'
  OBVIOUS
<1>1. CASE UNCHANGED vars
  BY <1>1 DEF vars, hub, session, conn, page, IInv, TypeOK, RingInv, StopsInv, PageInv,
              ConnInv, QueueInv, PromiseInv, Kept
<1>2. CASE Start \/ StopBegins \/ Revoke
  BY <1>2, ListenerKeeps
<1>3. CASE StopEnds \/ CloseSessions
  BY <1>3, EndingsKeep
<1>4. CASE Publish
  BY <1>4, PublishKeeps
<1>5. CASE Unheard
  BY <1>5, UnheardKeeps
<1>6. ASSUME NEW k \in Sockets, ServerSteps(k)
      PROVE  IInv'
  <2>1. CASE Accept(k) \/ Join(k)
    BY <2>1, AcceptKeeps
  <2>2. CASE Replay(k)
    BY <2>2, ReplayKeeps
  <2>3. CASE Refuse(k) \/ ServerNotices(k) \/ Ping(k)
    BY <2>3, EndingsKeep
  <2>4. QED
    BY <1>6, <2>1, <2>2, <2>3 DEF ServerSteps
<1>7. CASE PageSteps
  BY <1>7, DialKeeps, PageLeavesKeeps, HearHelloKeeps, HearFrameKeeps DEF PageSteps
<1>8. CASE LoseConnection
  BY <1>8, EndingsKeep, PageLeavesKeeps
<1>9. CASE ReloadByHand
  BY <1>9, PageLeavesKeeps
<1>10. QED
  BY <1>1, <1>2, <1>3, <1>4, <1>5, <1>6, <1>7, <1>8, <1>9 DEF Next

LEMMA MirrorInv == Spec => []IInv
<1>1. Init => IInv
  BY MirrorInit
<1>2. IInv /\ [Next]_vars => IInv'
  BY MirrorStep
<1>3. QED
  BY <1>1, <1>2, PTL DEF Spec

\* Every variable of the hub, the sockets and the page keeps its type, and no
\* buffer outgrows its cap (remote_ws.go's ring and send channels).
THEOREM MirrorTypeCorrect == Spec => []TypeOK
<1>1. IInv => TypeOK
  BY DEF IInv
<1>2. QED
  BY <1>1, MirrorInv, PTL

\* However often the page reconnects, the ring overruns, a client is dropped for
\* being slow, and the listener stops and starts under another run: an event the
\* page was never shown is behind it only if it was numbered between the page's
\* own replay and its add, or emitted with the listener down under a socket the
\* listener had accepted.
THEOREM HoleTheorem == Spec => []HoleOnlyInHandshake
<1>1. IInv => HoleOnlyInHandshake
  <2>1. SUFFICES ASSUME IInv, NEW o \in owed, o.at <= lastSeq, o.why = "none"
                 PROVE  FALSE
    BY DEF HoleOnlyInHandshake, Passed
  <2>2. o.at > lastSeq
    BY <2>1 DEF IInv, PromiseInv, Kept
  <2>3. o.at \in Int /\ lastSeq \in Int
    BY <2>1, MirrorAssumption DEF IInv, TypeOK
  <2>4. QED
    BY <2>1, <2>2, <2>3
<1>2. QED
  BY <1>1, MirrorInv, PTL

=============================================================================
