-------------------------- MODULE RemoteApprovals --------------------------
(* The admin-tier calls of remote devices that wait for the desktop:        *)
(* RemoteApprovals (backend remote_approve.go), and the copy of its list    *)
(* that the desktop prompts from (useRemoteStore, RemotePrompts).  A call   *)
(* is known by its place in the order of asking.                            *)
EXTENDS Naturals, Sequences, FiniteSets

CONSTANTS Devices, Nil,
          MaxApprovals,   \* remoteMaxApprovals
          MaxAsks,        \* bound on the calls made
          MaxRefreshes    \* bound on the refreshes in flight

VARIABLES asks,           \* the calls: who asks, how far it is, what was answered
          waiting,        \* the backend's pending calls
          prompts,        \* the store's access.approvals
          refreshes,      \* refreshes sent and not read
          reads,          \* lists read and not landed, in the order read
          clicks,         \* answers on their way to the backend
          busy,           \* the prompt on screen has been answered
          stale           \* the list on screen was read before one it replaced

Min(S) == CHOOSE x \in S : \A y \in S : x <= y

Answers == {"allow", "deny", "none"}
Call == [device : Devices,
         phase : {"held", "allowed", "turned down", "ran", "refused"},
         answer : Answers]

ApprovalsTypeOK ==
  /\ asks \in Seq(Call) /\ Len(asks) <= MaxAsks
  /\ waiting \subseteq DOMAIN asks /\ prompts \subseteq DOMAIN asks
  /\ refreshes \in 0 .. MaxRefreshes
  /\ \A i \in DOMAIN reads : reads[i].calls \subseteq DOMAIN asks
  /\ clicks \subseteq [call : DOMAIN asks, answer : Answers]
  /\ busy \in BOOLEAN /\ stale \in BOOLEAN

\* useRemoteSync reads once when it mounts.
ApprovalsInit ==
  /\ asks = <<>> /\ waiting = {} /\ prompts = {}
  /\ refreshes = 1 /\ reads = <<>> /\ clicks = {}
  /\ busy = FALSE /\ stale = FALSE

\* remote:changed, or an action that succeeded: the store reads the state back.
Refresh ==
  /\ refreshes + Len(reads) < MaxRefreshes
  /\ refreshes' = refreshes + 1

IsWaiting(d) == \E c \in waiting : asks[c].device = d

\* Ask: one call of a device at a time, and so many of all of them.
Ask(d) ==
  LET held == ~IsWaiting(d) /\ Cardinality(waiting) < MaxApprovals IN
  /\ Len(asks) < MaxAsks
  /\ asks' = Append(asks, [device |-> d, answer |-> "none",
                           phase |-> IF held THEN "held" ELSE "refused"])
  /\ IF held THEN waiting' = waiting \cup {Len(asks')} /\ Refresh
             ELSE UNCHANGED <<waiting, refreshes>>
  /\ UNCHANGED <<prompts, reads, clicks, busy, stale>>

\* Mutant: silence is leave.
OutcomesOpen(c) ==
  {"allowed"} \cup (IF asks[c].answer = "deny" THEN {"turned down"} ELSE {})

\* What Ask's select may return: an answer there is, and at any time that nobody
\* answered or that the device hung up.
Outcomes(c) ==
  {"turned down"} \cup (IF asks[c].answer = "allow" THEN {"allowed"} ELSE {})

StopsWaiting(c) ==
  /\ asks[c].phase = "held"
  /\ \E o \in Outcomes(c) : asks' = [asks EXCEPT ![c].phase = o]
  /\ UNCHANGED <<waiting, prompts, refreshes, reads, clicks, busy, stale>>

\* The end of Ask: only now is the call off the list, whatever was decided.
Returns(c) ==
  /\ asks[c].phase \in {"allowed", "turned down"}
  /\ asks' = [asks EXCEPT ![c].phase = IF @ = "allowed" THEN "ran" ELSE "refused"]
  /\ waiting' = waiting \ {c}
  /\ Refresh
  /\ UNCHANGED <<prompts, reads, clicks, busy, stale>>

\* The prompt of the oldest call listed; one click disables its buttons.
Click(a) ==
  /\ prompts # {} /\ ~busy
  /\ busy' = TRUE
  /\ clicks' = clicks \cup {[call |-> Min(prompts), answer |-> a]}
  /\ UNCHANGED <<asks, waiting, prompts, refreshes, reads, stale>>

\* Answer: the call leaves the list and its channel gets the answer.  One that
\* is gone is an error, which gives the prompt its buttons back.
Answer(k) ==
  /\ clicks' = clicks \ {k}
  /\ IF k.call \in waiting
       THEN /\ waiting' = waiting \ {k.call}
            /\ asks' = [asks EXCEPT ![k.call].answer = k.answer]
            /\ Refresh
            /\ UNCHANGED busy
       ELSE /\ busy' = (busy /\ k.call # Min(prompts))
            /\ UNCHANGED <<waiting, asks, refreshes>>
  /\ UNCHANGED <<prompts, reads, stale>>

\* GetRemoteAccessState, on the backend.
Read ==
  /\ refreshes > 0
  /\ refreshes' = refreshes - 1
  /\ reads' = Append(reads, [calls |-> waiting, overtaken |-> FALSE])
  /\ UNCHANGED <<asks, waiting, prompts, clicks, busy, stale>>

\* Replies land in any order, and each replaces the list.  A prompt that is
\* replaced by another's starts with its buttons enabled.
Land(i) ==
  /\ prompts' = reads[i].calls
  /\ stale' = reads[i].overtaken
  /\ reads' = [j \in 1 .. Len(reads) - 1 |->
                 IF j < i THEN [reads[j] EXCEPT !.overtaken = TRUE] ELSE reads[j + 1]]
  /\ busy' = (busy /\ prompts' # {} /\ prompts # {} /\ Min(prompts') = Min(prompts))
  /\ UNCHANGED <<asks, waiting, refreshes, clicks>>

ApprovalsNext ==
  \/ \E d \in Devices : Ask(d)
  \/ \E c \in DOMAIN asks : StopsWaiting(c) \/ Returns(c)
  \/ \E a \in {"allow", "deny"} : Click(a)
  \/ \E k \in clicks : Answer(k)
  \/ Read
  \/ \E i \in DOMAIN reads : Land(i)

\* A call ran only if the desktop said yes to it while it waited, however late
\* the answer, the timeout and the hang-up were to each other.
RanWithLeave == \A c \in DOMAIN asks : asks[c].phase = "ran" => asks[c].answer = "allow"

\* A device has one call on the desktop's list, and the list has its length.
ListIsBounded ==
  /\ \A c, e \in waiting : asks[c].device = asks[e].device => c = e
  /\ Cardinality(waiting) <= MaxApprovals

\* When no refresh is on its way, the desktop prompts for exactly the calls that
\* wait, unless the replies of two refreshes changed places.
ScreenIsList == refreshes = 0 /\ reads = <<>> /\ ~stale => prompts = waiting

\* The three of them: what the desktop is asked and what its answer does
\* (remote_approve.go Ask and Answer, useRemoteStore refresh).
ApprovalsAreSafe == RanWithLeave /\ ListIsBounded /\ ScreenIsList
=============================================================================
