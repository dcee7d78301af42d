----------------------------- MODULE RemoteAuth -----------------------------
(* Signing in from a browser (RemoteAuth, RemoteLoginGate): the password    *)
(* earns a request, the desktop approves it, and the page's next poll       *)
(* trades it for a session.  A device is known by the request it came from, *)
(* whose token its browser keeps in a cookie.  The backoff, the desktop's   *)
(* names and the OAuth state are left out.                                  *)
EXTENDS Naturals, FiniteSets

CONSTANTS Browsers, Nil,
          MaxRequests,   \* bound on the requests minted
          MaxPasswords,  \* bound on the passwords set
          MAX_PENDING    \* remoteMaxPending

VARIABLES page,          \* each browser's gate
          token,         \* each browser's device cookie, as its request
          verifying,     \* each browser's sign-in while argon2 runs
          buckets,       \* those with a verification in flight: a device's own, or
                         \* Nil, that of all the others
          password,      \* which password is set
          pending, devices, sessions,
          minted,        \* of each request, the browser that asked
          refused,       \* requests denied, expired or dropped before an approval
          overtaken      \* a password was set while a right one was verified

Requests == 1 .. MaxRequests
Passwords == 1 .. MaxPasswords
Waiting == [for : Requests, earned : Passwords, granted : BOOLEAN]
Session == [browser : Browsers, device : Requests, earned : Passwords]

AuthTypeOK ==
  /\ page \in [Browsers -> {"form", "submitting", "waiting", "in"}]
  /\ token \in [Browsers -> Requests \cup {Nil}]
  /\ verifying \in [Browsers -> [key : Requests \cup {Nil}, earned : Passwords,
                              ok : BOOLEAN] \cup {Nil}]
  /\ buckets \subseteq Requests \cup {Nil}
  /\ password \in Passwords
  /\ pending \subseteq Waiting /\ devices \subseteq Requests /\ sessions \subseteq Session
  /\ minted \in [Requests -> Browsers \cup {Nil}]
  /\ refused \subseteq Requests /\ overtaken \in BOOLEAN

AuthInit ==
  /\ page = [b \in Browsers |-> "form"] /\ token = [b \in Browsers |-> Nil]
  /\ verifying = [b \in Browsers |-> Nil] /\ buckets = {}
  /\ password = 1 /\ pending = {} /\ devices = {} /\ sessions = {}
  /\ minted = [q \in Requests |-> Nil] /\ refused = {} /\ overtaken = FALSE

Of(device) == {s \in sessions : s.device = device}
Known(b) == token[b] # Nil /\ token[b] \in devices

\* ServeLogin to where it gives up the lock for argon2: the hash it will compare
\* with is the one read here.  A second one in the same bucket is sent away.
LoginBegins(b, ok) ==
  LET key == IF Known(b) THEN token[b] ELSE Nil IN
  /\ page[b] = "form" /\ page' = [page EXCEPT ![b] = "submitting"]
  /\ key \notin buckets /\ buckets' = buckets \cup {key}
  /\ verifying' = [verifying EXCEPT ![b] = [key |-> key, earned |-> password, ok |-> ok]]
  /\ UNCHANGED <<token, password, pending, devices, sessions, minted, refused, overtaken>>

\* The answer comes, cookies and all, or is lost on the way.
Answered(b, to, cookie) ==
  \/ page' = [page EXCEPT ![b] = to] /\ token' = [token EXCEPT ![b] = cookie]
  \/ page' = [page EXCEPT ![b] = "form"] /\ UNCHANGED token

WrongPassword(b) ==
  /\ ~verifying[b].ok
  /\ page' = [page EXCEPT ![b] = "form"]
  /\ UNCHANGED <<token, pending, sessions, minted>>

\* The device is looked up again after argon2; a grant it never collected is
\* spent.
SignsIn(b) ==
  /\ verifying[b].ok /\ Known(b)
  /\ pending' = {p \in pending : ~(p.granted /\ p.for = token[b])}
  /\ sessions' = sessions \cup {[browser |-> b, device |-> token[b],
                                 earned |-> verifying[b].earned]}
  /\ Answered(b, "in", token[b]) /\ UNCHANGED minted

\* servePendingLocked: the browser's request, a new one, or none while too many
\* wait.
ServePending(b) ==
  /\ verifying[b].ok /\ ~Known(b)
  /\ \/ /\ \E p \in pending : p.for = token[b] /\ ~p.granted
        /\ Answered(b, "waiting", token[b]) /\ UNCHANGED <<pending, minted>>
     \/ /\ \A p \in pending : p.for = token[b] => p.granted
        /\ IF Cardinality(pending) >= MAX_PENDING
           THEN page' = [page EXCEPT ![b] = "form"] /\ UNCHANGED <<token, pending, minted>>
           ELSE \E q \in Requests :
                  /\ minted[q] = Nil /\ \A r \in Requests : r < q => minted[r] # Nil
                  /\ minted' = [minted EXCEPT ![q] = b]
                  /\ pending' = pending \cup {[for |-> q, earned |-> verifying[b].earned,
                                               granted |-> FALSE]}
                  /\ Answered(b, "waiting", q)
  /\ UNCHANGED sessions

LoginEnds(b) ==
  /\ verifying[b] # Nil /\ verifying' = [verifying EXCEPT ![b] = Nil]
  /\ buckets' = buckets \ {verifying[b].key}
  /\ WrongPassword(b) \/ SignsIn(b) \/ ServePending(b)
  /\ UNCHANGED <<password, devices, refused, overtaken>>

\* ServeLoginWait from the gate's poll.  A page whose poll is lost polls again.
Poll(b) ==
  /\ page[b] = "waiting"
  /\ \/ /\ \A p \in pending : p.for # token[b]
        /\ page' = [page EXCEPT ![b] = "form"] /\ UNCHANGED <<pending, sessions>>
     \/ \E p \in pending :
          /\ p.for = token[b] /\ p.granted /\ pending' = pending \ {p}
          /\ IF token[b] \in devices
             THEN /\ sessions' = sessions \cup {[browser |-> b, device |-> token[b],
                                                 earned |-> p.earned]}
                  /\ page' \in {page, [page EXCEPT ![b] = "in"]}
             ELSE page' \in {page, [page EXCEPT ![b] = "form"]} /\ UNCHANGED sessions
  /\ UNCHANGED <<token, verifying, buckets, password, devices, minted, refused, overtaken>>

\* The page is loaded again while it waits, or its session or cookie is gone.
Reload(b) ==
  /\ page[b] \in {"waiting", "in"}
  /\ page' = [page EXCEPT ![b] = "form"]
  /\ UNCHANGED <<token, verifying, buckets, password, pending, devices, sessions, minted,
                 refused, overtaken>>

\* The desktop's answers; one whose write fails changes nothing.
ApproveDevice(q) ==
  /\ \E p \in pending :
       /\ p.for = q /\ ~p.granted
       /\ pending' = (pending \ {p}) \cup {[p EXCEPT !.granted = TRUE]}
  /\ devices' = devices \cup {q}
  /\ UNCHANGED <<page, token, verifying, buckets, password, sessions, minted, refused,
                 overtaken>>

\* DenyDevice, or the request or its grant running out of time.
RequestGone(q, denied) ==
  /\ \E p \in pending :
       /\ p.for = q /\ (denied => ~p.granted) /\ pending' = pending \ {p}
       /\ refused' = IF p.granted THEN refused ELSE refused \cup {q}
  /\ UNCHANGED <<page, token, verifying, buckets, password, devices, sessions, minted,
                 overtaken>>

RemoveDevice(q) ==
  /\ q \in devices /\ devices' = devices \ {q}
  /\ sessions' = sessions \ Of(q) /\ buckets' = buckets \ {q}
  /\ UNCHANGED <<page, token, verifying, password, pending, minted, refused, overtaken>>

\* Every device approved on a hostname, that of the browsers `there`, and every
\* request waiting on it; when the write fails the devices stay.
ForgetHost(there) ==
  LET gone == {q \in Requests : minted[q] \in there} IN
    /\ pending' = {p \in pending : p.for \notin gone}
    /\ refused' = refused \cup {p.for : p \in {w \in pending \ pending' : ~w.granted}}
    /\ \/ /\ devices' = devices \ gone /\ buckets' = buckets \ gone
          /\ sessions' = sessions \ UNION {Of(q) : q \in gone}
       \/ UNCHANGED <<devices, sessions, buckets>>
    /\ UNCHANGED <<page, token, verifying, password, minted, overtaken>>

\* A pending request remembers that the old password was right, as a session
\* does.
SetPassword ==
  /\ password < MaxPasswords /\ password' = password + 1
  /\ pending' = {} /\ sessions' = {} /\ buckets' = {}
  /\ refused' = refused \cup {p.for : p \in {w \in pending : ~w.granted}}
  /\ overtaken' = (overtaken \/ \E b \in Browsers : verifying[b] # Nil /\ verifying[b].ok)
  /\ UNCHANGED <<page, token, verifying, devices, minted>>

\* RevokeSessions, ServeLogout, and sessions out of time.
SessionsEnd(ended) ==
  /\ ended # {} /\ sessions' = sessions \ ended
  /\ UNCHANGED <<page, token, verifying, buckets, password, pending, devices, minted,
                 refused, overtaken>>

AuthNext ==
  \/ \E b \in Browsers :
       \/ \E ok \in BOOLEAN : LoginBegins(b, ok)
       \/ LoginEnds(b) \/ Poll(b) \/ Reload(b)
  \/ \E q \in Requests :
       \/ ApproveDevice(q) \/ RemoveDevice(q)
       \/ \E denied \in BOOLEAN : RequestGone(q, denied)
  \/ \E there \in SUBSET Browsers : ForgetHost(there)
  \/ SetPassword
  \/ \E s \in sessions : SessionsEnd({s})
  \/ SessionsEnd(sessions)

\* A session is of a device the desktop approved and has not removed, in the
\* browser that asked for it.
SessionsAreApproved ==
  \A s \in sessions :
    s.device \in devices \ refused /\ minted[s.device] = s.browser

\* "A session earned with the old one should not outlive it"
\* (remote_auth.go:279), nor a request, unless the password changed under a
\* verification.
NothingOfAnOldPassword ==
  ~overtaken => \A e \in sessions \cup pending : e.earned = password

\* A request the desktop did not approve never becomes a device, one that did
\* is collected once, and few wait.
RequestsAreAnsweredOnce ==
  /\ devices \cap refused = {}
  /\ \A p, q \in pending : p.for = q.for => p = q
  /\ \A p \in pending : p.for \notin refused /\ (p.for \in devices => p.granted)
  /\ \A p \in pending : p.granted => Of(p.for) = {}
  /\ Cardinality(pending) <= MAX_PENDING

SignInIsSound ==
  SessionsAreApproved /\ NothingOfAnOldPassword /\ RequestsAreAnsweredOnce
=============================================================================
