------------------------------- MODULE Tunnel -------------------------------
(* The tunnel that carries the remote listener (TunnelService, BindTunnel): *)
(* one goroutine to a run, one cloudflared to a goroutine, and Stop calls   *)
(* from the desktop and from the listener's own changes.  t.gen is the run  *)
(* that may still report, Nil once a Stop has moved it on; the pid, the     *)
(* download's percents and the URL's text are left out.                     *)
EXTENDS Naturals

CONSTANTS Calls,         \* the calls of StartRemoteTunnel, in their order
          Desktop,       \* the desktop's calls: stop, save or forget
          Changes,       \* goroutines that tell of a change of the listener
          Names,         \* hostnames a named tunnel can have
          Nil

VARIABLES tunnel,        \* t: gen, cancel and done as `held`, host, final, status
          attempts,      \* of each run: how far, and what it is about to take down
          alive,         \* runs whose cloudflared has not exited
          cancelled,     \* runs whose context a Stop has cancelled
          callers,
          named,         \* t.named.Hostname
          listening,     \* the listener runs
          allowed,       \* hostnames the listener answers to
          happened       \* what else went on, see TunnelTypeOK

Runs == {Calls[i] : i \in DOMAIN Calls}
Callers == Desktop \cup Changes
Hosts == Names \cup Runs                  \* a quick tunnel's host is its run's
Active == {"starting", "running"}
Phases == {"unborn", "asked", "preparing", "spawning", "spawned", "waiting",
           "raising", "connected", "failing", "lowering", "done"}

TunnelTypeOK ==
  /\ tunnel \in [gen : Runs \cup {Nil}, held : Runs \cup {Nil},
                 host : Hosts \cup {Nil}, final : BOOLEAN,
                 status : Active \cup {"off", "failed"}]
  /\ attempts \in [Runs -> [at : Phases, host : Hosts \cup {Nil}, final : BOOLEAN]]
  /\ alive \subseteq Runs /\ cancelled \subseteq Runs /\ allowed \subseteq Hosts
  /\ callers \in [Callers -> [at : {"idle", "changed", "stopping", "lowering"},
                              held : Runs \cup {Nil},
                              host : Hosts \cup {Nil}, final : BOOLEAN]]
  /\ named \in Names \cup {Nil} /\ listening \in BOOLEAN
  /\ happened \in [overtaken : BOOLEAN,   \* a Stop ended over a newer run
                   blind : BOOLEAN,       \* a run began after the listener went
                   unending : SUBSET Runs,   \* runs a Stop gave up waiting for
                   replaced : SUBSET Names,  \* named hosts the user let go
                   forgotten : SUBSET Names] \* named hosts whose devices were forgotten

Free == [at |-> "idle", held |-> Nil, host |-> Nil, final |-> FALSE]

TunnelInit ==
  /\ tunnel = [gen |-> Nil, held |-> Nil, host |-> Nil, final |-> FALSE, status |-> "off"]
  /\ attempts = [r \in Runs |-> [at |-> "unborn", host |-> Nil, final |-> FALSE]]
  /\ alive = {} /\ cancelled = {} /\ allowed = {}
  /\ callers = [c \in Callers |-> Free]
  /\ named \in Names \cup {Nil} /\ listening = TRUE
  /\ happened = [overtaken |-> FALSE, blind |-> FALSE, unending |-> {},
                 replaced |-> {}, forgotten |-> {}]

Over == [at |-> "done", host |-> Nil, final |-> FALSE]
Goes(r, from, to) ==
  /\ attempts[r].at = from
  /\ attempts' = [attempts EXCEPT ![r] = IF to = "done" THEN Over ELSE [@ EXCEPT !.at = to]]
Current(r) == tunnel.gen = r

\* StartRemoteTunnel reads the listener's address, then starts.
Asks(i) ==
  /\ listening /\ Goes(Calls[i], "unborn", "asked")
  /\ \A j \in 1 .. i - 1 : attempts[Calls[j]].at # "unborn"
  /\ UNCHANGED <<tunnel, alive, cancelled, callers, named, listening, allowed, happened>>

\* The plan is the named tunnel's if there is one.
Start(r) ==
  /\ tunnel.status \notin Active
  /\ attempts[r].at = "asked"
  /\ attempts' = [attempts EXCEPT ![r].at = "preparing",
                                  ![r].host = IF named = Nil THEN r ELSE named]
  /\ tunnel' = [gen |-> r, held |-> r, host |-> Nil, final |-> named = Nil,
                status |-> "starting"]
  /\ happened' = [happened EXCEPT !.blind = @ \/ ~listening]
  /\ UNCHANGED <<alive, cancelled, callers, named, listening, allowed>>

\* A tunnel runs, or the listener's port is not the one the name's rule has.
StartRefused(r) ==
  /\ Goes(r, "asked", "done")
  /\ tunnel.status \in Active \/ named # Nil
  /\ UNCHANGED <<tunnel, alive, cancelled, callers, named, listening, allowed, happened>>

\* prepareBinary leaves a checked file: set(), or the end of a run stopped.
Prepared(r) ==
  /\ Goes(r, "preparing", IF Current(r) THEN "spawning" ELSE "done")
  /\ tunnel' = IF Current(r) THEN [tunnel EXCEPT !.status = "starting"] ELSE tunnel
  /\ UNCHANGED <<alive, cancelled, callers, named, listening, allowed, happened>>

\* A run that was cancelled leaves the report to the Stop.
PrepareFails(r) ==
  /\ Goes(r, "preparing", IF r \in cancelled THEN "done" ELSE "failing")
  /\ UNCHANGED <<tunnel, alive, cancelled, callers, named, listening, allowed, happened>>

\* The context ends a command before it begins.
Spawns(r) ==
  /\ Goes(r, "spawning", "spawned") /\ r \notin cancelled
  /\ alive' = alive \cup {r}
  /\ UNCHANGED <<tunnel, cancelled, callers, named, listening, allowed, happened>>

SpawnFails(r) ==
  /\ Goes(r, "spawning", "failing")
  /\ UNCHANGED <<tunnel, alive, cancelled, callers, named, listening, allowed, happened>>

\* The pid is recorded for Stop to kill, unless a Stop has been and gone: then
\* the goroutine ends the process itself and waits for it.
Recorded(r) ==
  /\ Goes(r, "spawned", IF Current(r) THEN "waiting" ELSE "done")
  /\ Current(r) \/ r \notin alive
  /\ UNCHANGED <<tunnel, alive, cancelled, callers, named, listening, allowed, happened>>

\* By itself, cancelled, killed, or out of time to connect.
Exits(r) ==
  /\ r \in alive /\ alive' = alive \ {r}
  /\ UNCHANGED <<tunnel, attempts, cancelled, callers, named, listening, allowed, happened>>

\* A line says the tunnel is reachable, maybe one of a process gone since.
up(r) ==
  /\ Goes(r, "waiting", IF Current(r) THEN "raising" ELSE "connected")
  /\ tunnel' = IF Current(r)
               THEN [tunnel EXCEPT !.host = attempts[r].host, !.status = "running"]
               ELSE tunnel
  /\ UNCHANGED <<alive, cancelled, callers, named, listening, allowed, happened>>

\* onHost runs with t.mu released.
Raises(r) ==
  /\ Goes(r, "raising", "connected") /\ allowed' = allowed \cup {attempts[r].host}
  /\ UNCHANGED <<tunnel, alive, cancelled, callers, named, listening, happened>>

Waited(r) ==
  /\ r \notin alive
  /\ \E from \in {"waiting", "connected"} :
       Goes(r, from, IF r \in cancelled THEN "done" ELSE "failing")
  /\ UNCHANGED <<tunnel, alive, cancelled, callers, named, listening, allowed, happened>>

fail(r) ==
  /\ attempts[r].at = "failing"
  /\ attempts' = [attempts EXCEPT ![r] =
       IF Current(r) /\ tunnel.host # Nil
       THEN [at |-> "lowering", host |-> tunnel.host, final |-> tunnel.final]
       ELSE Over]
  /\ tunnel' = IF Current(r) THEN [tunnel EXCEPT !.host = Nil, !.status = "failed"]
                             ELSE tunnel
  /\ UNCHANGED <<alive, cancelled, callers, named, listening, allowed, happened>>

\* onHost(host, false, final): the listener stops answering, and the devices
\* of a name that will not come back are forgotten.
Lowers(pending) ==
  /\ allowed' = allowed \ {pending.host}
  /\ happened' = IF pending.final
                 THEN [happened EXCEPT !.forgotten = @ \cup ({pending.host} \cap Names)]
                 ELSE happened

FailLowers(r) ==
  /\ Goes(r, "lowering", "done") /\ Lowers(attempts[r])
  /\ UNCHANGED <<tunnel, alive, cancelled, callers, named, listening>>

\* Stop, from its first critical section to the wait for the run to be done;
\* the desktop's, or that of any change the listener reports while it is down.
StopBegins(c) ==
  /\ \/ callers[c].at = "idle" /\ c \in Desktop
     \/ callers[c].at = "changed" /\ ~listening
  /\ IF tunnel.held = Nil /\ tunnel.status = "off"
     THEN /\ callers' = [callers EXCEPT ![c] = Free]
          /\ UNCHANGED <<tunnel, cancelled>>
     ELSE /\ callers' = [callers EXCEPT ![c].at = "stopping", ![c].held = tunnel.held]
          /\ tunnel' = [tunnel EXCEPT !.gen = Nil]
          /\ cancelled' = (cancelled \cup {tunnel.held}) \ {Nil}
  /\ UNCHANGED <<attempts, alive, named, listening, allowed, happened>>

\* Only a process that does not die outlasts tunnelStopTimeout.
StopEnds(c) ==
  LET held == callers[c].held
      stuck == IF held = Nil THEN FALSE ELSE attempts[held].at # "done"
  IN /\ callers[c].at = "stopping"
     /\ stuck => held \in alive /\ attempts[held].at # "raising"
     /\ callers' = [callers EXCEPT ![c] =
          IF tunnel.host = Nil THEN Free
          ELSE [at |-> "lowering", held |-> Nil, host |-> tunnel.host,
                final |-> tunnel.final]]
     /\ tunnel' = [tunnel EXCEPT !.held = Nil, !.host = Nil, !.status = "off"]
     /\ happened' = [happened EXCEPT !.overtaken = @ \/ tunnel.held \notin {held, Nil},
                                     !.unending = IF stuck THEN @ \cup {held} ELSE @]
     /\ UNCHANGED <<attempts, alive, cancelled, named, listening, allowed>>

CallerLowers(c) ==
  /\ callers[c].at = "lowering" /\ Lowers(callers[c])
  /\ callers' = [callers EXCEPT ![c] = Free]
  /\ UNCHANGED <<tunnel, attempts, alive, cancelled, named, listening>>

\* SaveNamed and ForgetNamed, refused while a run is in flight: the devices of
\* the name that goes, go.
Renames(c, host) ==
  /\ callers[c].at = "idle" /\ tunnel.status \notin Active
  /\ named # host /\ named' = host
  /\ callers' = IF named = Nil THEN callers
                ELSE [callers EXCEPT ![c] = [at |-> "lowering", held |-> Nil,
                                             host |-> named, final |-> TRUE]]
  /\ happened' = [happened EXCEPT !.replaced = (@ \cup {named}) \ {Nil}]
  /\ UNCHANGED <<tunnel, attempts, alive, cancelled, listening, allowed>>

\* The listener tells of a change when it has made it: it stopped, or one of
\* the sockets it left behind closes.
ListenerChanges(c) ==
  /\ listening' = FALSE
  /\ callers[c].at = "idle" /\ callers' = [callers EXCEPT ![c].at = "changed"]
  /\ UNCHANGED <<tunnel, attempts, alive, cancelled, named, allowed, happened>>

ListenerIsBack(c) ==
  /\ listening /\ callers[c].at = "changed" /\ callers' = [callers EXCEPT ![c] = Free]
  /\ UNCHANGED <<tunnel, attempts, alive, cancelled, named, listening, allowed, happened>>

ListenerStarts ==
  /\ ~listening /\ listening' = TRUE
  /\ UNCHANGED <<tunnel, attempts, alive, cancelled, callers, named, allowed, happened>>

RunStep(r) ==
  \/ Start(r) \/ StartRefused(r) \/ Prepared(r) \/ PrepareFails(r)
  \/ Spawns(r) \/ SpawnFails(r) \/ Recorded(r) \/ Exits(r) \/ up(r) \/ Raises(r)
  \/ Waited(r) \/ fail(r) \/ FailLowers(r)

CallerStep(c) ==
  \/ StopBegins(c) \/ StopEnds(c) \/ CallerLowers(c)
  \/ ListenerIsBack(c)

TunnelNext ==
  \/ \E r \in Runs : RunStep(r)
  \/ \E i \in DOMAIN Calls : Asks(i)
  \/ \E c \in Callers : CallerStep(c)
  \/ \E c \in Desktop, host \in Names \cup {Nil} : Renames(c, host)
  \/ \E c \in Changes : ListenerChanges(c)
  \/ ListenerStarts

AtRest == \A c \in Callers : callers[c].at = "idle"
Raised(host) == tunnel.host = host /\ tunnel.status = "running"
BeingLowered(host) ==
  \/ \E r \in Runs : attempts[r].at = "lowering" /\ attempts[r].host = host
  \/ \E c \in Callers : callers[c].at = "lowering" /\ callers[c].host = host

\* The listener answers to the tunnel's name while the tunnel is up "and at no
\* other time" (tunnel.go:186), the callbacks under way apart.
AnswersOnlyWhileUp ==
  ~happened.overtaken =>
    \A host \in allowed : Raised(host) \/ BeingLowered(host)

\* "off" means there is no cloudflared, the one a Stop reported it could not
\* end apart.
OffMeansGone ==
  tunnel.status = "off" /\ ~happened.overtaken => alive \subseteq happened.unending

\* "The tunnel does not outlive the listener" (tunnel.go:195).
TunnelEndsWithListener ==
  AtRest /\ ~listening /\ ~happened.overtaken /\ ~happened.blind
    => tunnel.status \notin Active

\* Devices approved on a named host are kept until the user lets it go.
NamedDevicesKept == happened.forgotten \subseteq happened.replaced

TunnelIsBounded ==
  AnswersOnlyWhileUp /\ OffMeansGone /\ TunnelEndsWithListener /\ NamedDevicesKept
=============================================================================
