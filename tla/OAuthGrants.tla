----------------------------- MODULE OAuthGrants -----------------------------
(* Who a connector's grant answers (remote_oauth.go, remote_cimd.go,          *)
(* remote_grants.go): registered clients and those known by a document at     *)
(* their URL, the request a consent is asked for, the exchange of its code,   *)
(* the hour of an access token, rotation, expiry and revocation, with writes  *)
(* that fail and restarts.  The password, the desktop's answer and the pages  *)
(* are ConnectorSignIn's; IssueGrant, which only tests call, is left out.     *)
(* Time counts hours a day long: ACCESS, UNUSED and LIFETIME keep their order.*)
EXTENDS Naturals, FiniteSets

CONSTANTS Nil,
  Ids,                                 \* the ids registrations get, in order
  Requests, Documents,                 \* the sign-ins asked for, what the URL may list
  MAX_CLIENTS, MAX_GRANTS,             \* remoteMaxClients, remoteMaxGrants
  ACCESS, UNUSED, LIFETIME,            \* remoteAccessTokenTTL, remoteGrantUnused (the
                                       \* clients' too), remoteGrantLifetime
  MaxSignIns, MaxTokens, MaxTime       \* bounds

VARIABLES
  clients,      \* of each id: the redirect it lists, when it registered and was used
  grants,       \* of each sign-in, its grant
  disk,         \* remote.json, both
  document,     \* the redirect the document at the URL lists
  cached,       \* what the fetcher keeps of it
  signIns,      \* the requests, with what they were asked and given
  now, minted,
  handed,       \* of each token: whom it was answered to, and when
  told,         \* when the clients that were told of their id registered
  ended,        \* the sign-ins revoked or replayed
  doubt         \* those whose last change was not written

oauthVars == <<clients, grants, disk, document, cached, signIns, now, minted, handed, told, ended, doubt>>
asked == <<document, cached, signIns>>
issued == <<grants, minted, handed, ended, doubt>>

SignIns == 1 .. MaxSignIns
Tokens == 1 .. MaxTokens
URIs == {"claude", "loop1", "loop2", "elsewhere"}
Loopback == {"loop1", "loop2"}
Resources == {"tunnel", "loopback"}
Url == 0                             \* the client_id that is a URL
Clients == Ids \cup {Url}

\* validRedirectURI: Claude's callback or a loopback one, whatever the port.
ValidRedirect(u) == u # "elsewhere"
\* remoteRedirectRegistered: the one listed, a loopback one on any port
Registered(lists, u) == lists = u \/ {lists, u} \subseteq Loopback
\* normalizeRemoteScopes: to operate includes to read
Normal(scopes) == IF "operate" \in scopes THEN scopes \cup {"read"} ELSE scopes

Later(a, b) == IF a > b THEN a ELSE b
Of(c, g) == [clients |-> c, grants |-> g]

----------------------------------------------------------------------------
\* pruneClientsLocked: what nothing has used in thirty days is forgotten, and a
\* change is saved; whether that works is not looked at.
KeptClients == [i \in Ids |-> IF clients[i] # Nil /\ now < Later(clients[i].used, clients[i].created) + UNUSED
                              THEN clients[i] ELSE Nil]
PruneSaved == IF KeptClients = clients THEN {disk} ELSE {disk, Of(KeptClients, grants)}

\* serveRegister: refused when full, undone when it cannot be saved.
Register(i, lists, saved) ==
  /\ ValidRedirect(lists) /\ told[i] = Nil /\ \A j \in Ids : j < i => told[j] # Nil
  /\ LET rec == [lists |-> lists, created |-> now, used |-> 0]
         all == [KeptClients EXCEPT ![i] = rec] IN
     IF Cardinality({j \in Ids : KeptClients[j] # Nil}) < MAX_CLIENTS /\ saved
     THEN clients' = all /\ disk' = Of(all, grants) /\ told' = [told EXCEPT ![i] = now]
     ELSE clients' = KeptClients /\ disk' \in PruneSaved /\ UNCHANGED told
  /\ UNCHANGED <<asked, issued, now>>

\* Fetch: the redirect the document lists, from the cache while that is fresh;
\* nothing when the answer does not come or is not a document of that URL's
Fetch(lists) ==
  \/ lists = (IF cached # Nil THEN cached ELSE document) /\ cached' = lists
  \/ cached = Nil /\ lists = Nil /\ UNCHANGED cached
\* resolveClient: a document, or a registration, whose use is kept in memory only
Resolve(c, lists) ==
  IF c = Url
  THEN Fetch(lists) /\ UNCHANGED <<clients, disk>>
  ELSE /\ disk' \in PruneSaved /\ UNCHANGED cached
       /\ IF KeptClients[c] = Nil THEN lists = Nil /\ clients' = KeptClients
          ELSE lists = KeptClients[c].lists /\ clients' = [KeptClients EXCEPT ![c].used = now]

\* serveAuthorize: a request that names a redirect of the client's, and one of
\* Claude's, becomes a consent page.
Authorize(s, c, u, scopes, resource) ==
  /\ minted < MaxTokens /\ signIns[s] = Nil /\ \A r \in SignIns : r < s => signIns[r] # Nil
  /\ \E lists \in URIs \cup {Nil} :
       /\ Resolve(c, lists)
       /\ IF lists # Nil /\ ValidRedirect(u) /\ Registered(lists, u)
          THEN signIns' = [signIns EXCEPT ![s] = [at |-> "page", client |-> c, redirect |-> u, lists |-> lists,
                             asked |-> Normal(scopes), granted |-> {}, resource |-> resource]]
          ELSE UNCHANGED signIns
  /\ UNCHANGED <<issued, document, told, now>>
\* serveConsent and decideConsent: the permissions ticked, of those asked, go
\* into the code.
Allow(s, ticked) ==
  /\ signIns[s] # Nil /\ signIns[s].at = "page" /\ ticked # {} /\ ticked \subseteq signIns[s].asked
  /\ signIns' = [signIns EXCEPT ![s].at = "code", ![s].granted = Normal(ticked)]
  /\ UNCHANGED <<clients, disk, document, cached, issued, told, now>>
\* pruneConsentsLocked, pruneCodesLocked: minutes pass, and the cache's too.
Lapse ==
  /\ \/ \E s \in SignIns : signIns[s] # Nil /\ signIns[s].at \in {"page", "code"}
          /\ signIns' = [signIns EXCEPT ![s].at = "spent"] /\ UNCHANGED cached
     \/ cached # Nil /\ cached' = Nil /\ UNCHANGED signIns
  /\ UNCHANGED <<clients, disk, document, issued, told, now>>

----------------------------------------------------------------------------
\* pruneGrantsLocked; every grant here has a refresh token.
Alive(g) == g # Nil /\ now < g.created + LIFETIME /\ now < Later(g.used, g.created) + UNUSED
KeptGrants == [s \in SignIns |-> IF Alive(grants[s]) THEN grants[s] ELSE Nil]

\* mintLocked: a new access and refresh token, the one before it remembered
Minted(g) == [g EXCEPT !.token = minted + 1, !.prev = g.token, !.expires = now + ACCESS]
Hand(s, c, v) == handed' = [handed EXCEPT ![minted + 1] = [of |-> s, client |-> c, verifier |-> v, at |-> now]]

\* pkceMatches: v is the verifier of the challenge sign-in s came with
Matches(v, s) == v = s
\* exchangeCode and issueGrantLocked: a code is spent by its first presentation,
\* and is a grant if the client, the redirect, the verifier and the resource are
\* those it was given for.
Exchange(s, c, u, v, r, saved) ==
  /\ signIns[s] # Nil /\ signIns[s].at = "code" /\ minted < MaxTokens
  /\ signIns' = [signIns EXCEPT ![s].at = "spent"]
  /\ LET code == signIns[s]
         fits == code.client = c /\ u \in {Nil, code.redirect} /\ Matches(v, s) /\ r \in {Nil, code.resource}
         fresh == [client |-> c, redirect |-> code.redirect, scopes |-> Normal(code.granted),
                   resource |-> code.resource, token |-> 0, prev |-> 0, expires |-> 0, created |-> now, used |-> 0]
         all == [KeptGrants EXCEPT ![s] = Minted(fresh)] IN
     IF ~fits THEN UNCHANGED <<grants, disk, minted, handed>>
     ELSE IF Cardinality({x \in SignIns : KeptGrants[x] # Nil}) < MAX_GRANTS /\ saved
     THEN grants' = all /\ disk' = Of(clients, all) /\ minted' = minted + 1 /\ Hand(s, c, v)
     ELSE grants' = KeptGrants /\ UNCHANGED <<disk, minted, handed>>
  /\ UNCHANGED <<clients, document, cached, ended, doubt, told, now>>

\* RefreshGrant: the current refresh token is traded by its client; the one
\* before it, from anybody, ends the grant.
Refresh(t, c, saved) ==
  /\ t <= minted
  /\ \E s \in SignIns :
       /\ KeptGrants[s] # Nil
       /\ LET g == KeptGrants[s]
              turned == [KeptGrants EXCEPT ![s] = [Minted(g) EXCEPT !.used = now]]
              gone == [KeptGrants EXCEPT ![s] = Nil]
              write(all) == disk' = IF saved THEN Of(clients, all) ELSE disk
              doubted == doubt' = IF saved THEN doubt ELSE doubt \cup {s} IN
          \/ /\ t = g.token /\ c # g.client /\ grants' = KeptGrants
             /\ UNCHANGED <<disk, minted, handed, ended, doubt>>
          \/ /\ t = g.token /\ c = g.client /\ minted < MaxTokens
             /\ grants' = turned /\ write(turned) /\ minted' = minted + 1 /\ doubted /\ UNCHANGED ended
             /\ IF saved THEN Hand(s, c, s) ELSE UNCHANGED handed
          \/ /\ t = g.prev /\ grants' = gone /\ write(gone)
             /\ ended' = ended \cup {s} /\ doubted /\ UNCHANGED <<minted, handed>>
  /\ UNCHANGED <<asked, clients, told, now>>

\* AuthorizeBearer: the grant a token stands for, at a resource, and its use
Answer(t, r) == {s \in SignIns : grants[s] # Nil /\ grants[s].token = t
                                 /\ grants[s].resource = r /\ now < grants[s].expires}
Bearer(t, r) ==
  /\ \E s \in Answer(t, r) : grants' = [grants EXCEPT ![s].used = now]
  /\ UNCHANGED <<asked, clients, disk, minted, handed, ended, doubt, told, now>>

\* Grants: the list drops what has ended.
ListGrants == grants # KeptGrants /\ grants' = KeptGrants
              /\ UNCHANGED <<asked, clients, disk, minted, handed, ended, doubt, told, now>>
\* RevokeGrant and RevokeGrants: undone when they cannot be saved
Revoke(which) ==
  /\ which # {} /\ \A s \in which : grants[s] # Nil
  /\ grants' = [s \in SignIns |-> IF s \in which THEN Nil ELSE grants[s]]
  /\ disk' = Of(clients, grants')
  /\ ended' = ended \cup which /\ doubt' = doubt \ which
  /\ UNCHANGED <<asked, clients, minted, handed, told, now>>

----------------------------------------------------------------------------
\* External: the document is published anew; a day passes; Konnekt is restarted.
Publish == \E u \in Documents \ {document} : document' = u /\ cached # Nil
           /\ UNCHANGED <<clients, grants, disk, cached, signIns, now, minted, handed, told, ended, doubt>>
Pass == now < MaxTime /\ now' = now + 1
        /\ UNCHANGED <<clients, grants, disk, asked, minted, handed, told, ended, doubt>>
Restart ==
  /\ clients' = disk.clients /\ grants' = disk.grants /\ cached' = Nil
  /\ signIns' = [s \in SignIns |-> IF signIns[s] = Nil THEN Nil ELSE [signIns[s] EXCEPT !.at = "spent"]]
  /\ UNCHANGED <<disk, document, now, minted, handed, told, ended, doubt>>

OAuthInit ==
  /\ clients = [i \in Ids |-> Nil] /\ grants = [s \in SignIns |-> Nil] /\ disk = Of(clients, grants)
  /\ document = "loop1" /\ cached = Nil /\ signIns = [s \in SignIns |-> Nil] /\ now = 0 /\ minted = 0
  /\ handed = [t \in Tokens |-> Nil] /\ told = [i \in Ids |-> Nil] /\ ended = {} /\ doubt = {}
OAuthNext ==
  \/ \E i \in Ids, u \in {"claude", "elsewhere"}, saved \in BOOLEAN : Register(i, u, saved)
  \/ \E s \in SignIns, q \in Requests : Authorize(s, q.client, q.redirect, q.scopes, q.resource)
  \/ \E s \in SignIns : \E ticked \in SUBSET {"read", "operate"} : Allow(s, ticked)
  \/ Lapse
  \/ \E s, v \in SignIns, c \in Clients, u \in {Nil, "loop1"}, r \in Resources, saved \in BOOLEAN :
       Exchange(s, c, u, v, r, saved)
  \/ \E t \in Tokens, c \in Clients, saved \in BOOLEAN : Refresh(t, c, saved)
  \/ \E t \in Tokens, r \in Resources : Bearer(t, r)
  \/ ListGrants \/ \E s \in SignIns : Revoke({s})
  \/ Revoke({s \in SignIns : grants[s] # Nil})
  \/ Publish \/ Pass \/ Restart

\* The shape of the state.
OAuthTypeOK ==
  /\ clients \in [Ids -> [lists : URIs, created : 0 .. MaxTime, used : 0 .. MaxTime] \cup {Nil}]
  /\ \A s \in SignIns : grants[s] = Nil \/ grants[s].token \in Tokens
  /\ document \in URIs /\ cached \in URIs \cup {Nil} /\ now \in 0 .. MaxTime /\ minted \in 0 .. MaxTokens
  /\ ended \subseteq SignIns /\ doubt \subseteq SignIns

\* A code goes back only to a callback that is Claude's or this computer's and
\* that the client itself names, as it did when it was asked (serveAuthorize).
CodesGoHome == \A s \in SignIns : signIns[s] # Nil =>
                 ValidRedirect(signIns[s].redirect) /\ Registered(signIns[s].lists, signIns[s].redirect)
\* A grant is what was consented to: that client, that callback, that resource
\* and no permission that was not ticked; and its tokens went to that client,
\* which had the sign-in's verifier (exchangeCode, RefreshGrant).
GrantsAreConsented ==
  /\ \A s \in SignIns : grants[s] # Nil =>
       /\ grants[s].client = signIns[s].client /\ grants[s].redirect = signIns[s].redirect
       /\ grants[s].resource = signIns[s].resource /\ grants[s].scopes = signIns[s].granted
       /\ signIns[s].granted \subseteq signIns[s].asked
  /\ \A t \in Tokens : handed[t] # Nil => handed[t].client = signIns[handed[t].of].client /\ handed[t].verifier = handed[t].of
NewestOf(s) == {t \in Tokens : handed[t] # Nil /\ handed[t].of = s
                  /\ \A x \in Tokens : handed[x] # Nil /\ handed[x].of = s => x <= t}
\* A token answers during its hour, at its resource, and only if it is the last
\* its grant was given and the grant was not ended; and then it does, whatever
\* was restarted since (AuthorizeBearer, RevokeGrant).
TokensAnswer ==
  \A t \in Tokens, r \in Resources : handed[t] # Nil /\ handed[t].of \notin doubt =>
    LET s == handed[t].of IN
    /\ Answer(t, r) # {} => Answer(t, r) = {s} /\ r = signIns[s].resource /\ s \notin ended
                            /\ now < handed[t].at + ACCESS /\ t \in NewestOf(s)
    /\ t \in NewestOf(s) /\ r = signIns[s].resource /\ s \notin ended /\ now < handed[t].at + ACCESS
         /\ (grants[s] = Nil => \A x \in Tokens : handed[x] # Nil /\ handed[x].of = s => now < handed[x].at + LIFETIME)
       => Answer(t, r) = {s}
\* A client that was told it is registered is known for thirty days at least,
\* whatever fails or restarts, and there are never too many (serveRegister).
ClientsAreKnown ==
  /\ \A i \in Ids : told[i] # Nil /\ now < told[i] + UNUSED => clients[i] # Nil /\ disk.clients[i] # Nil
  /\ Cardinality({i \in Ids : clients[i] # Nil}) <= MAX_CLIENTS
  /\ Cardinality({s \in SignIns : grants[s] # Nil}) <= MAX_GRANTS

GrantsAreSound == CodesGoHome /\ GrantsAreConsented /\ TokensAnswer /\ ClientsAreKnown
=============================================================================
