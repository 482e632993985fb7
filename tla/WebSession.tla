----------------------------- MODULE WebSession -----------------------------
(***************************************************************************)
(* One browser's sessions (crates/ghinvite-web): sign-in through GitHub's  *)
(* OAuth, the sealed session records with their revocation markers, sign-  *)
(* out, and the console's administrator check cached in the session.       *)
(*                                                                         *)
(* Requests of the browser run concurrently. Each works on the copy of the *)
(* record that it loaded; the session layer stores the whole copy when the *)
(* request has changed it, whoever stored what in between. A record is     *)
(* stored in two steps, the revocation check and the write.                *)
(***************************************************************************)
EXTENDS Integers

CONSTANTS
    Request,        \* requests the browser can have under way
    User,           \* GitHub users at the browser
    Nobody,         \* the user of an anonymous session
    Anonymous,      \* ANONYMOUS_LIFETIME
    Authenticated,  \* AUTHENTICATED_LIFETIME
    Retention,      \* REVOCATION_RETENTION
    CheckTtl,       \* ADMIN_CACHE_TTL_SECS
    Latency,        \* how long an answer of GitHub may travel
    MaxTime,        \* bound on the clock
    MaxSession,     \* bound on session identities
    MaxSignIns      \* bound on sign-ins begun

ASSUME SessionBounds ==
    /\ Nobody \notin User
    /\ {Anonymous, Authenticated, CheckTtl, MaxTime, MaxSession, MaxSignIns}
           \subseteq Nat \ {0}
    /\ Latency \in Nat
    /\ Retention \in Nat
    /\ Anonymous <= Authenticated
    /\ Authenticated <= Retention

VARIABLES
    now,
    store,     \* of each identity, the sealed record
    marker,    \* of each identity, the time its revocation marker ends, or 0
    cookie,    \* the session identity that the browser presents, or 0
    request,   \* of each request: how far it is, and its copy of the record
    signIns,   \* sign-ins begun; the OAuth state of each is its number
    codes,     \* GitHub's redirects back to /oauth/callback
    admins,    \* the users GitHub answers to be administrators of the account
    lastAdmin, \* history: the last time each user was an administrator, or -1
    begun,     \* history: who signed in under each identity, and when
    signedOut  \* history: identities whose sign-out was confirmed

vars == <<now, store, marker, cookie, request, signIns, codes, admins,
          lastAdmin, begun, signedOut>>

-----------------------------------------------------------------------------
Session == 1..MaxSession
Time == 0..MaxTime
SignIn == 1..MaxSignIns

\* Session and Lifetime of one record: oauth_csrf is state, and of admin_checks
\* the time of the one account's positive check is kept.
Record == [user : User \cup {Nobody}, issued : Time,
           state : SignIn \cup {0}, checked : Time \cup {-1}]
NoRecord == [user |-> Nobody, issued |-> -1, state |-> 0, checked |-> -1]

Redirect == [state : SignIn, user : User]
NoRedirect == [state |-> 0, user |-> Nobody]

Kind == {"login", "callback", "console", "logout"}
Step == {"idle", "get", "handle", "save", "put", "exchange", "cycle", "ask",
         "answered", "delete"}
Idle == [step |-> "idle", kind |-> "login", id |-> 0, rec |-> NoRecord,
         redirect |-> NoRedirect, at |-> 0, sent |-> FALSE, out |-> FALSE]

TypeOK ==
    /\ now \in Time
    /\ store \in [Session -> Record \cup {NoRecord}]
    /\ marker \in [Session -> Nat]
    /\ cookie \in Session \cup {0}
    /\ request \in [Request ->
           [step : Step, kind : Kind, id : Session \cup {0},
            rec : Record \cup {NoRecord}, redirect : Redirect \cup {NoRedirect},
            at : Time, sent : BOOLEAN, out : BOOLEAN]]
    /\ signIns \in 0..MaxSignIns
    /\ codes \subseteq Redirect
    /\ admins \subseteq User
    /\ lastAdmin \in [User -> Time \cup {-1}]
    /\ begun \in [Session -> [user : User \cup {Nobody}, at : Time \cup {-1}]]
    /\ signedOut \subseteq Session

Init ==
    /\ now = 0
    /\ store = [id \in Session |-> NoRecord]
    /\ marker = [id \in Session |-> 0]
    /\ cookie = 0
    /\ request = [r \in Request |-> Idle]
    /\ signIns = 0
    /\ codes = {}
    /\ admins = User
    /\ lastAdmin = [u \in User |-> 0]
    /\ begun = [id \in Session |-> [user |-> Nobody, at |-> -1]]
    /\ signedOut = {}

-----------------------------------------------------------------------------
(* Records *)

IsAuthenticated(rec) == rec.user # Nobody

Lifetime(rec) == IF IsAuthenticated(rec) THEN Authenticated ELSE Anonymous

\* Lifetime::valid and the deadline that seal and open compare with the clock.
Valid(rec) == rec # NoRecord /\ now < rec.issued + Lifetime(rec)

\* Defect: every write starts the lifetime again.
SlidingLifetime(rec) == [rec EXCEPT !.issued = now]

\* apply_lifetime, in every session::save: a record without a lifetime gets an
\* anonymous one, any other keeps its own.
ApplyLifetime(rec) == IF rec = NoRecord THEN [rec EXCEPT !.issued = now] ELSE rec

\* is_revoked: the marker counts until its retention ends.
Revoked(id) == now < marker[id]

\* Defect: the marker is kept for an anonymous lifetime only.
MarkBriefly(id) == marker' = [marker EXCEPT ![id] = now + Anonymous]

\* Backend::revoke: never shortens a marker.
Mark(id) ==
    marker' = [marker EXCEPT ![id] =
                   IF now + Retention > @ THEN now + Retention ELSE @]

-----------------------------------------------------------------------------
(* The session layer *)

In(r, kind, step) == request[r].kind = kind /\ request[r].step = step

Goto(r, step) == request' = [request EXCEPT ![r].step = step]

\* A response without a session to store; it removes a presented cookie that
\* named no session.
End(r) ==
    /\ request' = [request EXCEPT ![r] = Idle]
    /\ cookie' = IF request[r].sent /\ request[r].id = 0 /\ request[r].rec = NoRecord
                 THEN 0 ELSE cookie

\* A request arrives; ProtectedStore::load, first half: the marker is read, and
\* a revoked session is no session.
Begin(r, kind, redirect) ==
    /\ request[r] = Idle
    /\ LET id == IF cookie = 0 \/ Revoked(cookie) THEN 0 ELSE cookie
       IN request' = [request EXCEPT ![r] =
              [Idle EXCEPT !.step = IF id = 0 THEN "handle" ELSE "get",
                           !.kind = kind, !.id = id, !.redirect = redirect,
                           !.sent = cookie # 0, !.out = cookie \in signedOut]]
    /\ UNCHANGED <<now, store, marker, cookie, signIns, codes, admins, lastAdmin,
                   begun, signedOut>>

\* ProtectedStore::load, second half: what does not open is no session.
LoadGets(r) ==
    /\ request[r].step = "get"
    /\ request' =
           IF Valid(store[request[r].id])
           THEN [request EXCEPT ![r].step = "handle", ![r].rec = store[request[r].id]]
           ELSE [request EXCEPT ![r].step = "handle", ![r].id = 0]
    /\ UNCHANGED <<now, store, marker, cookie, signIns, codes, admins, lastAdmin,
                   begun, signedOut>>

\* ProtectedStore::save up to the write: the marker is read, the record sealed.
SaveChecks(r) ==
    /\ request[r].step = "save"
    /\ request[r].id # 0
    /\ ~Revoked(request[r].id)
    /\ Valid(request[r].rec)
    /\ Goto(r, "put")
    /\ UNCHANGED <<now, store, marker, cookie, signIns, codes, admins, lastAdmin,
                   begun, signedOut>>

\* ProtectedStore::save, the write. The callback goes on to GitHub; any other
\* request ends, and its response presents the identity again.
SavePuts(r) ==
    /\ request[r].step = "put"
    /\ store' = [store EXCEPT ![request[r].id] = request[r].rec]
    /\ IF request[r].kind = "callback"
       THEN Goto(r, "exchange") /\ UNCHANGED cookie
       ELSE /\ request' = [request EXCEPT ![r] = Idle]
            /\ cookie' = request[r].id
    /\ UNCHANGED <<now, marker, signIns, codes, admins, lastAdmin, begun, signedOut>>

\* ProtectedStore::create: a session without an identity gets a fresh random one.
Creates(r) ==
    /\ request[r].step = "save"
    /\ request[r].id = 0
    /\ Valid(request[r].rec)
    /\ \E id \in Session :
           /\ begun[id].at = -1
           /\ \A older \in 1..(id - 1) : begun[older].at # -1
           /\ store' = [store EXCEPT ![id] = request[r].rec]
           /\ begun' = [begun EXCEPT ![id] = [user |-> request[r].rec.user,
                                              at |-> request[r].rec.issued]]
           /\ cookie' = id
    /\ request' = [request EXCEPT ![r] = Idle]
    /\ UNCHANGED <<now, marker, signIns, codes, admins, lastAdmin, signedOut>>

\* A storage error, a refused save, a rejected callback or a GitHub error ends
\* the request; what it stored stays.
Fail(r) ==
    /\ request[r].step # "idle"
    /\ End(r)
    /\ UNCHANGED <<now, store, marker, signIns, codes, admins, lastAdmin,
                   begun, signedOut>>

-----------------------------------------------------------------------------
(* /login, GitHub, /oauth/callback *)

\* login: a new OAuth state is kept in the session, authenticated or not.
Login(r) ==
    /\ In(r, "login", "handle")
    /\ signIns < MaxSignIns
    /\ signIns' = signIns + 1
    /\ request' = [request EXCEPT ![r].step = "save",
           ![r].rec = [ApplyLifetime(@) EXCEPT !.state = signIns']]
    /\ UNCHANGED <<now, store, marker, cookie, codes, admins, lastAdmin, begun, signedOut>>

\* GitHub sends the browser back, whoever is signed in to GitHub there.
Authorize(state, user) ==
    /\ state <= signIns
    /\ \A c \in codes : c.state # state
    /\ codes' = codes \cup {[state |-> state, user |-> user]}
    /\ UNCHANGED <<now, store, marker, cookie, request, signIns, admins, lastAdmin,
                   begun, signedOut>>

\* oauth_callback: the session's state must be the redirect's; it is consumed
\* and that is stored before GitHub is called.
Callback(r) ==
    /\ In(r, "callback", "handle")
    /\ request[r].rec.state = request[r].redirect.state
    /\ request' = [request EXCEPT ![r].step = "save",
           ![r].rec = [ApplyLifetime(@) EXCEPT !.state = 0]]
    /\ UNCHANGED <<now, store, marker, cookie, signIns, codes, admins, lastAdmin,
                   begun, signedOut>>

\* exchange_code and get_user: GitHub takes each code once.
Exchange(r) ==
    /\ request[r].step = "exchange"
    /\ request[r].redirect \in codes
    /\ codes' = codes \ {request[r].redirect}
    /\ Goto(r, "cycle")
    /\ UNCHANGED <<now, store, marker, cookie, signIns, admins, lastAdmin, begun, signedOut>>

\* cycle_id: the old identity is revoked and its record deleted, if that does
\* not fail; a record that is new in everything is made for the user.
CycleId(r) ==
    /\ request[r].step = "cycle"
    /\ Mark(request[r].id)
    /\ \/ store' = [store EXCEPT ![request[r].id] = NoRecord]
       \/ UNCHANGED store
    /\ request' = [request EXCEPT ![r].step = "save", ![r].kind = "login", ![r].id = 0,
           ![r].rec = [user |-> request[r].redirect.user, issued |-> now,
                       state |-> 0, checked |-> -1]]
    /\ signedOut' = signedOut \cup {request[r].id}
    /\ UNCHANGED <<now, cookie, signIns, codes, admins, lastAdmin, begun>>

-----------------------------------------------------------------------------
(* The console *)

\* Defect: a check counts until the session ends.
CachedForever(rec) == rec.checked # -1

\* check_admin: the cached check counts for CheckTtl.
Cached(rec) == rec.checked # -1 /\ rec.checked <= now /\ now - rec.checked < CheckTtl

\* RequireConsoleAdminOf of a session that nobody is signed in to.
SignInFirst(r) ==
    /\ request[r].kind \in {"console", "logout"}
    /\ request[r].step = "handle"
    /\ ~IsAuthenticated(request[r].rec)
    /\ End(r)
    /\ UNCHANGED <<now, store, marker, signIns, codes, admins, lastAdmin, begun, signedOut>>

\* RequireConsoleAdminOf: a fresh check grants, otherwise GitHub is asked.
Console(r) ==
    /\ In(r, "console", "handle")
    /\ IsAuthenticated(request[r].rec)
    /\ request' = [request EXCEPT ![r].rec = ApplyLifetime(@),
           ![r].step = IF Cached(request[r].rec) THEN "save" ELSE "ask"]
    /\ UNCHANGED <<now, store, marker, cookie, signIns, codes, admins, lastAdmin,
                   begun, signedOut>>

\* get_org_membership is answered; who is no administrator sees a 404, and the
\* refusal is not stored.
Answer(r) ==
    /\ request[r].step = "ask"
    /\ IF request[r].rec.user \in admins
       THEN /\ request' = [request EXCEPT ![r].step = "answered", ![r].at = now]
            /\ UNCHANGED cookie
       ELSE End(r)
    /\ UNCHANGED <<now, store, marker, signIns, codes, admins, lastAdmin,
                   begun, signedOut>>

\* check_admin caches the answer at the time it has arrived; access is granted.
Grant(r) ==
    /\ request[r].step = "answered"
    /\ request' = [request EXCEPT ![r].step = "save", ![r].at = 0, ![r].rec.checked = now]
    /\ UNCHANGED <<now, store, marker, cookie, signIns, codes, admins, lastAdmin,
                   begun, signedOut>>

-----------------------------------------------------------------------------
(* /logout *)

\* logout with the form of this session: flush, that is ProtectedStore::delete,
\* which revokes first. When that fails unconfirmed_signout clears the browser's
\* cookie only, and says so.
Logout(r) ==
    /\ In(r, "logout", "handle")
    /\ IsAuthenticated(request[r].rec)
    /\ \/ Mark(request[r].id) /\ Goto(r, "delete") /\ UNCHANGED cookie
       \/ UNCHANGED marker /\ request' = [request EXCEPT ![r] = Idle] /\ cookie' = 0
    /\ UNCHANGED <<now, store, signIns, codes, admins, lastAdmin, begun, signedOut>>

\* ProtectedStore::delete, the record, whose deletion may fail; then the
\* response removes the cookie.
Delete(r) ==
    /\ request[r].step = "delete"
    /\ \/ store' = [store EXCEPT ![request[r].id] = NoRecord]
       \/ UNCHANGED store
    /\ signedOut' = signedOut \cup {request[r].id}
    /\ request' = [request EXCEPT ![r] = Idle]
    /\ cookie' = 0
    /\ UNCHANGED <<now, marker, signIns, codes, admins, lastAdmin, begun>>

-----------------------------------------------------------------------------
(* Surroundings *)

\* An answer on its way arrives before the network deadline.
Tick ==
    /\ now < MaxTime
    /\ \A r \in Request : request[r].step = "answered" => now - request[r].at < Latency
    /\ now' = now + 1
    /\ lastAdmin' = [u \in User |-> IF u \in admins THEN now' ELSE lastAdmin[u]]
    /\ UNCHANGED <<store, marker, cookie, request, signIns, codes, admins, begun, signedOut>>

\* GitHub: a user stops being an administrator.
Demote(u) ==
    /\ u \in admins
    /\ admins' = admins \ {u}
    /\ UNCHANGED <<now, store, marker, cookie, request, signIns, codes, lastAdmin,
                   begun, signedOut>>

Browse(r) ==
    \/ \E kind \in {"login", "console", "logout"} : Begin(r, kind, NoRedirect)
    \/ \E redirect \in codes : Begin(r, "callback", redirect)

Next ==
    \/ \E r \in Request :
           \/ Browse(r) \/ LoadGets(r)
           \/ SaveChecks(r) \/ SavePuts(r) \/ Creates(r) \/ Fail(r)
           \/ Login(r) \/ Callback(r) \/ Exchange(r) \/ CycleId(r)
           \/ SignInFirst(r) \/ Console(r) \/ Answer(r) \/ Grant(r)
           \/ Logout(r) \/ Delete(r)
    \/ \E state \in SignIn, user \in User : Authorize(state, user)
    \/ \E u \in User : Demote(u)
    \/ Tick

Spec == Init /\ [][Next]_vars

-----------------------------------------------------------------------------
(* Properties *)

\* A session that was signed out, or left behind by a sign-in, gives no later
\* request anything: neither by a record that a concurrent request wrote after
\* the revocation, nor once the marker's retention has ended.
SignedOutStaysOut ==
    \A r \in Request :
        request[r].out /\ request[r].step # "get" => request[r].id = 0

\* Who signed in under an identity stays its user, and nothing stored later,
\* by whatever concurrent requests, extends the lifetime from that sign-in.
SessionIsBounded ==
    [][\A r \in Request :
           request[r].step = "get" /\ IsAuthenticated(request[r].rec)' =>
               LET signIn == begun[request[r].id]
               IN /\ request[r].rec.user' = signIn.user
                  /\ now < signIn.at + Authenticated]_vars

\* The console lets in only whom GitHub called an administrator within the
\* cache's lifetime and the time an answer travels, although requests store
\* back older copies of the cached check.
Grants(r) ==
    request[r].kind = "console" /\ request[r].step # "save" /\ request'[r].step = "save"

AdministratorWasRecent ==
    [][\A r \in Request :
           Grants(r) => now - lastAdmin[request[r].rec.user] < CheckTtl + Latency]_vars
=============================================================================
