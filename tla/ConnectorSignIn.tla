--------------------------- MODULE ConnectorSignIn ---------------------------
(* A connector's sign-in and the grant it earns (remote_oauth.go,            *)
(* remote_grants.go): the consent page and its password, the desktop's       *)
(* answer, the code, and the refresh tokens that follow, with replies lost   *)
(* on the way, writes that fail and the program restarted.  A sign-in is     *)
(* known by the number of its consent.  Access tokens, scopes, resources,    *)
(* client registrations, the backoff and what RemoteAuth models are left out.*)
EXTENDS Naturals, FiniteSets

CONSTANTS Nil,
          MaxSignIns, MaxTokens, MaxPasswords, MaxChecks,   \* bounds
          MAX_CONSENTS, MAX_GRANTS               \* remoteMaxConsents, remoteMaxGrants

VARIABLES consents,     \* of each sign-in, its page's stage and the password it was shown
                        \* under, or Nil
          checking,     \* the sign-ins whose password is verified, with the hash read
          busy,         \* the bucket the sign-ins share has a verification in flight
          asking,       \* those the desktop is asked about
          codes,        \* those whose code waits, with the password they cost
          grants,       \* of each, its refresh tokens, in memory
          disk,         \* remote.json: grants and password
          password,
          holds,        \* what the client has of each: "code", a token or Nil
          started, minted,
          prompts, issued,  \* of each, how often the desktop was asked, a grant made
          ended,        \* those whose grant was ended on purpose
          doubt,        \* those with a reply lost or a refresh not written
          lingering,    \* the drop of an old password's grants was not written
          overlapped    \* a password was set while another was verified

SignIns == 1 .. MaxSignIns
Passwords == 1 .. MaxPasswords
Tokens == 1 .. MaxTokens
Grants == [SignIns -> [refresh : Tokens, prev : Tokens \cup {0}, earned : Passwords] \cup {Nil}]
None == [s \in SignIns |-> Nil]

ConnectorTypeOK ==
  /\ consents \in [SignIns -> [at : {"page", "waiting", "allowed", "denied"},
                               earned : Passwords] \cup {Nil}]
  /\ checking \subseteq [on : SignIns, nth : 1 .. MaxChecks, ok : BOOLEAN, earned : Passwords]
  /\ busy \in BOOLEAN
  /\ asking \subseteq SignIns /\ codes \in [SignIns -> Passwords \cup {Nil}]
  /\ grants \in Grants /\ disk \in [grants : Grants, password : Passwords]
  /\ password \in Passwords /\ holds \in [SignIns -> Tokens \cup {0, Nil}]
  /\ started \in 0 .. MaxSignIns /\ minted \in 0 .. MaxTokens
  /\ prompts \in [SignIns -> Nat] /\ issued \in [SignIns -> Nat]
  /\ ended \subseteq SignIns /\ doubt \subseteq SignIns
  /\ lingering \in BOOLEAN /\ overlapped \in BOOLEAN

\* What a client holds before it has a token.
Code == 0

ConnectorInit ==
  /\ consents = None /\ checking = {} /\ busy = FALSE /\ asking = {} /\ codes = None
  /\ grants = None /\ password = 1 /\ disk = [grants |-> None, password |-> 1]
  /\ holds = None /\ started = 0 /\ minted = 0
  /\ prompts = [s \in SignIns |-> 0] /\ issued = [s \in SignIns |-> 0]
  /\ ended = {} /\ doubt = {} /\ lingering = FALSE /\ overlapped = FALSE

pages == <<consents, checking, busy, asking>>
kept == <<grants, disk, password>>
client == <<holds, started, minted>>
excuses == <<doubt, lingering, overlapped>>
seen == <<prompts, issued, ended, excuses>>

Live(m) == {s \in SignIns : m[s] # Nil}
Stage(s, at) == consents[s] # Nil /\ consents[s].at = at

-----------------------------------------------------------------------------
(* The consent page *)

\* serveAuthorize.
Authorize ==
  /\ started < MaxSignIns /\ started' = started + 1
  /\ Cardinality(Live(consents)) < MAX_CONSENTS
  /\ consents' = [consents EXCEPT ![started'] = [at |-> "page", earned |-> password]]
  /\ UNCHANGED <<checking, busy, asking, codes, kept, holds, minted, seen>>

\* serveConsent to where it gives up the lock for argon2; a second submit is told
\* to wait.
Submit(s, ok) ==
  /\ Stage(s, "page") /\ ~busy /\ busy' = TRUE
  /\ \E n \in 1 .. MaxChecks :
       /\ \A c \in checking : c.nth # n
       /\ checking' = checking \cup {[on |-> s, nth |-> n, ok |-> ok, earned |-> password]}
  /\ UNCHANGED <<consents, asking, codes, kept, client, seen>>

\* The page is looked up again, and asked about only if the password was right.
\* The bucket is free even if it is a later one, of a new password, that was busy.
Verified(c) ==
  /\ checking' = checking \ {c} /\ busy' = FALSE
  /\ IF c.ok /\ consents[c.on] # Nil
     THEN /\ consents' = IF Stage(c.on, "page")
                         THEN [consents EXCEPT ![c.on] = [at |-> "waiting", earned |-> c.earned]]
                         ELSE consents
          /\ asking' = asking \cup {c.on}
          /\ prompts' = [prompts EXCEPT ![c.on] = @ + 1]
     ELSE UNCHANGED <<consents, asking, prompts>>
  /\ UNCHANGED <<codes, kept, client, issued, ended, excuses>>

\* The user cancels on the page, or the consent's time is over.
ConsentGone(s, cancelled) ==
  /\ consents[s] # Nil /\ (cancelled => Stage(s, "page"))
  /\ consents' = [consents EXCEPT ![s] = Nil]
  /\ UNCHANGED <<checking, busy, asking, codes, kept, client, seen>>

\* decideConsent, whatever the page has come to meanwhile.
Decide(s, allowed) ==
  /\ s \in asking /\ asking' = asking \ {s}
  /\ IF ~Stage(s, "waiting") THEN UNCHANGED <<consents, codes>>
     ELSE /\ consents' = [consents EXCEPT ![s].at = IF allowed THEN "allowed" ELSE "denied"]
          /\ codes' = IF allowed THEN [codes EXCEPT ![s] = consents[s].earned] ELSE codes
  /\ UNCHANGED <<checking, busy, kept, client, seen>>

\* serveAuthorizeWait: the consent is forgotten before the redirect arrives.
Wait(s) ==
  /\ Stage(s, "allowed") \/ Stage(s, "denied")
  /\ consents' = [consents EXCEPT ![s] = Nil]
  /\ \/ holds' = IF Stage(s, "allowed") THEN [holds EXCEPT ![s] = Code] ELSE holds
     \/ UNCHANGED holds
  /\ UNCHANGED <<checking, busy, asking, codes, kept, started, minted, seen>>

CodeExpires(s) ==
  /\ codes[s] # Nil /\ codes' = [codes EXCEPT ![s] = Nil]
  /\ UNCHANGED <<pages, kept, client, seen>>

-----------------------------------------------------------------------------
(* Tokens *)

Writes(g) == grants' = g /\ disk' = [disk EXCEPT !.grants = g]

\* A reply with the newest token arrives or is lost.
Replied(s) ==
  \/ holds' = [holds EXCEPT ![s] = minted'] /\ UNCHANGED doubt
  \/ UNCHANGED holds /\ doubt' = doubt \cup {s}

\* exchangeCode: the code is spent, whatever comes of it; a grant that cannot be
\* written is taken back.
Exchange(s) ==
  /\ holds[s] = Code /\ codes[s] # Nil
  /\ codes' = [codes EXCEPT ![s] = Nil]
  /\ \/ /\ minted < MaxTokens /\ minted' = minted + 1
        /\ Cardinality(Live(grants)) < MAX_GRANTS
        /\ Writes([grants EXCEPT ![s] = [refresh |-> minted', prev |-> 0, earned |-> codes[s]]])
        /\ issued' = [issued EXCEPT ![s] = @ + 1]
        /\ Replied(s)
     \/ UNCHANGED <<kept, client, issued, doubt>>
  /\ UNCHANGED <<pages, password, started, prompts, ended, lingering, overlapped>>

Rotated(s) == [grants EXCEPT ![s].refresh = minted', ![s].prev = grants[s].refresh]

\* RefreshGrant with what the client holds.  The new tokens are in memory before
\* the write, and stay there when it fails.
Refresh(s) ==
  /\ holds[s] \in Tokens /\ grants[s] # Nil
  /\ \/ /\ holds[s] = grants[s].refresh /\ minted < MaxTokens /\ minted' = minted + 1
        /\ \/ Writes(Rotated(s)) /\ Replied(s)
           \/ grants' = Rotated(s) /\ doubt' = doubt \cup {s} /\ UNCHANGED <<disk, holds>>
     \/ /\ holds[s] = grants[s].prev
        /\ \/ Writes([grants EXCEPT ![s] = Nil])
           \/ grants' = [grants EXCEPT ![s] = Nil] /\ UNCHANGED disk
        /\ UNCHANGED <<minted, holds, doubt>>
  /\ UNCHANGED <<pages, codes, password, started, prompts, issued, ended, lingering,
                 overlapped>>

\* RevokeGrant, RevokeGrants (which change nothing when the write fails), or a
\* grant's age, which is on the disk too.
Revoke(gone) ==
  /\ gone # {} /\ gone \subseteq Live(grants) /\ ended' = ended \cup gone
  /\ Writes([s \in SignIns |-> IF s \in gone THEN Nil ELSE grants[s]])
  /\ UNCHANGED <<pages, codes, password, client, prompts, issued, excuses>>

\* SetPassword writes the hash, and once more without the grants, which may fail.
SetPassword ==
  /\ password < MaxPasswords /\ password' = password + 1
  /\ busy' = FALSE /\ consents' = None /\ codes' = None
  /\ grants' = None /\ ended' = ended \cup Live(grants)
  /\ \/ disk' = [grants |-> None, password |-> password'] /\ UNCHANGED lingering
     \/ /\ Live(grants) # {} /\ disk' = [grants |-> grants, password |-> password']
        /\ lingering' = TRUE
  /\ overlapped' = (overlapped \/ checking # {})
  /\ UNCHANGED <<checking, asking, client, prompts, issued, doubt>>

Restart ==
  /\ consents' = None /\ checking' = {} /\ busy' = FALSE /\ asking' = {} /\ codes' = None
  /\ grants' = disk.grants /\ password' = disk.password
  /\ UNCHANGED <<disk, client, seen>>

ConnectorNext ==
  \/ Authorize \/ SetPassword \/ Restart
  \/ \E c \in checking : Verified(c)
  \/ \E s \in SignIns :
       \/ Wait(s) \/ CodeExpires(s) \/ Exchange(s) \/ Refresh(s) \/ Revoke({s})
       \/ \E b \in BOOLEAN : Submit(s, b) \/ ConsentGone(s, b) \/ Decide(s, b)
  \/ Revoke(Live(grants))

-----------------------------------------------------------------------------
\* One sign-in earns one grant at most, and only by asking the desktop; it asks
\* once, unless a password was set under a verification.
SignsInOnce ==
  \A s \in SignIns :
    /\ issued[s] <= 1 /\ issued[s] <= prompts[s]
    /\ ~overlapped => prompts[s] <= 1

\* "So does a consent page or a code: both were earned with it"
\* (remote_auth.go:309): nothing earned with an old password is left, though it
\* was verified while the new one was set.
NothingOfAnOldPassword ==
  /\ \A s \in SignIns : consents[s] # Nil => consents[s].earned = password
  /\ \A s \in SignIns : codes[s] # Nil => codes[s] = password
  /\ ~lingering => \A s \in SignIns : grants[s] # Nil => grants[s].earned = password

\* A client that got every reply, from a program that could write, can refresh
\* until its grant is ended; and an ended one stays ended through a restart.
GrantsLast ==
  \A s \in SignIns :
    /\ (holds[s] \in Tokens /\ s \notin doubt \cup ended) =>
         grants[s] # Nil /\ grants[s].refresh = holds[s]
    /\ (s \in ended /\ ~lingering) => grants[s] = Nil

ConnectorIsSound == SignsInOnce /\ NothingOfAnOldPassword /\ GrantsLast

\* Known not to hold (remote_grants.go:270): a refresh that fails to be written
\* has taken the client's token out of use, and its next try ends the grant,
\* while "every failure is ErrRemoteBearer" tells of no failed write.
FailedRefreshChangesNothing ==
  \A s \in SignIns :
    (grants[s] # Nil /\ disk.grants[s] # Nil) => grants[s] = disk.grants[s]
=============================================================================
