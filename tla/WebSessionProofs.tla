--------------------------- MODULE WebSessionProofs ---------------------------
(***************************************************************************)
(* Theorems about WebSession, for any number of requests, users, sessions  *)
(* and sign-ins, and lifetimes that only keep the order the code gives     *)
(* them: Anonymous <= Authenticated <= Retention.                          *)
(***************************************************************************)
EXTENDS WebSession, TLAPS

(* The inductive invariant. Every copy of a session's record, wherever a   *)
(* request carries it, bears the user and the time of the sign-in; so a    *)
(* marker outlasts them all, and a cached check bears the time of an       *)
(* answer that was on its way for Latency at most. In the definitions, b   *)
(* stands for begun, m for marker, l for lastAdmin and t for now.          *)

\* A copy of the record of a session.
Of(id, rec, b) == rec.user = b[id].user /\ rec.issued = b[id].at

\* A check cached in a record bears the time its answer arrived.
Checked(rec, l) ==
    rec.checked # -1 => rec.user \in User /\ rec.checked <= l[rec.user] + Latency

\* Where a request is, and the record it carries.
CopyOf(q, b, t) ==
    /\ q.step = "idle" => q = Idle
    /\ q.step \in {"get", "put", "exchange", "cycle", "ask", "answered", "delete"} =>
          q.id # 0
    /\ q.step = "get" => q.rec = NoRecord
    /\ q.step \in {"ask", "answered", "delete"} => q.rec.user # Nobody
    /\ q.step \in {"exchange", "cycle"} => q.kind = "callback"
    /\ q.rec.issued <= t
    /\ q.id # 0 => b[q.id].at # -1
    /\ q.id # 0 /\ q.step # "get" => Of(q.id, q.rec, b)
    /\ q.id = 0 /\ q.rec.user # Nobody => q.step = "save" /\ q.kind = "login"

\* The record of a session that was signed out is over, or not loaded.
OutOf(q, b, t) ==
    q.out => IF q.step = "get" THEN b[q.id].at + Authenticated <= t ELSE q.id = 0

\* The marker of a session that is being signed out outlasts it.
DeleteOf(q, b, m) == q.step = "delete" => b[q.id].at + Authenticated <= m[q.id]

AnswerOf(q, l, t) ==
    q.step = "answered" =>
        q.rec.user \in User /\ q.at <= l[q.rec.user] /\ t <= q.at + Latency

Fits(q, b, m, l, t) ==
    /\ CopyOf(q, b, t) /\ OutOf(q, b, t) /\ DeleteOf(q, b, m)
    /\ AnswerOf(q, l, t) /\ Checked(q.rec, l)

RequestInv == \A r \in Request : Fits(request[r], begun, marker, lastAdmin, now)

StoreInv ==
    \A id \in Session :
        /\ store[id] # NoRecord => Of(id, store[id], begun)
        /\ Checked(store[id], lastAdmin)
        /\ begun[id].at <= now

SignedOutInv ==
    \A id \in signedOut : begun[id].at # -1 /\ begun[id].at + Authenticated <= marker[id]

CookieInv == cookie # 0 => begun[cookie].at # -1

AdminInv == \A u \in User : lastAdmin[u] <= now /\ (u \in admins => lastAdmin[u] = now)

IInv == TypeOK /\ RequestInv /\ StoreInv /\ SignedOutInv /\ CookieInv /\ AdminInv
-----------------------------------------------------------------------------
(* One step per action, used by every proof below.                          *)
LEMMA NextCases ==
    ASSUME [Next]_vars
    PROVE  \/ \E r \in Request :
                 \/ \E kind \in {"login", "console", "logout"} : Begin(r, kind, NoRedirect)
                 \/ \E redirect \in codes : Begin(r, "callback", redirect)
                 \/ LoadGets(r) \/ SaveChecks(r) \/ SavePuts(r) \/ Creates(r) \/ Fail(r)
                 \/ Login(r) \/ Callback(r) \/ Exchange(r) \/ CycleId(r)
                 \/ SignInFirst(r) \/ Console(r) \/ Answer(r) \/ Grant(r)
                 \/ Logout(r) \/ Delete(r)
           \/ \E state \in SignIn, user \in User : Authorize(state, user)
           \/ \E u \in User : Demote(u)
           \/ Tick
           \/ UNCHANGED vars
BY DEF Next, Browse

-----------------------------------------------------------------------------
(* Types *)

Copies == Record \cup {NoRecord}

RequestState ==
    [step : Step, kind : Kind, id : Session \cup {0}, rec : Copies,
     redirect : Redirect \cup {NoRedirect}, at : Time, sent : BOOLEAN, out : BOOLEAN]

LEMMA Values ==
    /\ Time \subseteq Nat /\ Session \subseteq Nat \ {0} /\ SignIn \subseteq Nat \ {0}
    /\ 0 \in Time /\ Nobody \notin User
    /\ MaxTime \in Nat /\ Latency \in Nat /\ Anonymous \in Nat \ {0}
    /\ Authenticated \in Nat \ {0} /\ Retention \in Nat
    /\ Anonymous <= Authenticated /\ Authenticated <= Retention
    /\ CheckTtl \in Nat \ {0} /\ MaxSignIns \in Nat
    /\ NoRecord \notin Record /\ NoRecord.issued = -1 /\ NoRecord.user = Nobody
    /\ NoRecord.checked = -1
BY SessionBounds DEF Time, Session, SignIn, NoRecord, Record

LEMMA CopyTyped ==
    ASSUME NEW rec \in Copies
    PROVE  /\ rec.user \in User \cup {Nobody} /\ rec.issued \in Int /\ -1 <= rec.issued
           /\ rec.state \in SignIn \cup {0} /\ rec.checked \in Int
           /\ rec # NoRecord => rec \in Record /\ rec.issued \in Time
           /\ ApplyLifetime(rec) \in [user : User \cup {Nobody}, issued : Time \cup {now},
                                      state : SignIn \cup {0}, checked : Time \cup {-1}]
           /\ ApplyLifetime(rec).user = rec.user
           /\ ApplyLifetime(rec).checked = rec.checked
           /\ ApplyLifetime(rec).issued = (IF rec = NoRecord THEN now ELSE rec.issued)
<1>1. CASE rec = NoRecord
    BY <1>1, Values DEF NoRecord, ApplyLifetime
<1>2. CASE rec \in Record
    BY <1>2, Values DEF Record, ApplyLifetime, NoRecord
<1> QED
    BY <1>1, <1>2 DEF Copies

LEMMA RequestTyped ==
    ASSUME TypeOK, NEW r \in Request
    PROVE  /\ request[r] \in RequestState
           /\ request[r].step \in Step /\ request[r].kind \in Kind
           /\ request[r].id \in Session \cup {0} /\ request[r].rec \in Copies
           /\ request[r].redirect \in Redirect \cup {NoRedirect}
           /\ request[r].at \in Time /\ request[r].sent \in BOOLEAN
           /\ request[r].out \in BOOLEAN
BY DEF TypeOK, RequestState, Copies

LEMMA IdleTyped == Idle \in RequestState
BY Values DEF Idle, RequestState, Copies, Step, Kind

\* A step of a request changes that request only.
Others(r) ==
    /\ request' \in [Request -> RequestState]
    /\ \A s \in Request \ {r} : request'[s] = request[s]

LEMMA Moved ==
    ASSUME TypeOK, NEW r \in Request, NEW q \in RequestState,
           request' = [request EXCEPT ![r] = q]
    PROVE  Others(r) /\ request'[r] = q
BY DEF TypeOK, Others, RequestState, Copies

-----------------------------------------------------------------------------
(* What each action of a request does to it. *)

\* The request, as it was and is; what is left to be said of other state.
Goes(r, kind, step, id, rec) ==
    /\ Others(r)
    /\ request'[r].kind = kind /\ request'[r].step = step
    /\ request'[r].id = id /\ request'[r].rec = rec

Keeps(r) ==
    /\ request'[r].redirect = request[r].redirect /\ request'[r].out = request[r].out
    /\ request'[r].at = request[r].at

Quiet == UNCHANGED <<now, store, marker, admins, lastAdmin, begun, signedOut>>

LEMMA BeginEffect ==
    ASSUME TypeOK, NEW r \in Request, NEW kind \in Kind,
           NEW redirect \in Redirect \cup {NoRedirect}, Begin(r, kind, redirect)
    PROVE  /\ Others(r) /\ Quiet /\ cookie' = cookie
           /\ request'[r].rec = NoRecord
           /\ \/ request'[r].id = 0 /\ request'[r].step = "handle"
              \/ /\ request'[r].id = cookie /\ cookie \in Session /\ request'[r].step = "get"
                 /\ marker[cookie] <= now
           /\ request'[r].out => cookie \in signedOut
<1> DEFINE id == IF cookie = 0 \/ Revoked(cookie) THEN 0 ELSE cookie
           step == IF id = 0 THEN "handle" ELSE "get"
           sent == cookie # 0
           out == cookie \in signedOut
           q == [Idle EXCEPT !.step = step, !.kind = kind, !.id = id,
                             !.redirect = redirect, !.sent = sent, !.out = out]
<1>1. cookie \in Session \cup {0} /\ id \in {0, cookie} /\ now \in Nat
    BY Values DEF TypeOK
<1>2. step \in Step /\ sent \in BOOLEAN /\ out \in BOOLEAN
    BY DEF Step
<1>3. request' = [request EXCEPT ![r] = q]
    BY Zenon DEF Begin
<1>4. id # 0 => id = cookie /\ cookie \in Session /\ marker[cookie] <= now
    <2>1. id # 0 => id = cookie /\ cookie \in Session /\ ~(now < marker[cookie])
        BY <1>1 DEF Revoked
    <2>2. cookie \in Session => marker[cookie] \in Nat
        BY DEF TypeOK
    <2> QED
        BY <1>1, <2>1, <2>2
<1>5. step = IF id = 0 THEN "handle" ELSE "get"
    OBVIOUS
<1>6. /\ q \in RequestState /\ q.rec = NoRecord /\ q.id = id /\ q.step = step
      /\ q.out => out
    <2>1. id \in Session \cup {0} /\ NoRecord \in Copies /\ 0 \in Time
        BY <1>1, Values DEF Copies
    <2>2. q = [Idle EXCEPT !.step = step, !.kind = kind, !.id = id,
                           !.redirect = redirect, !.sent = sent, !.out = out]
        OBVIOUS
    <2> HIDE DEF id, step, sent, out, q
    <2>3. q = [step |-> step, kind |-> kind, id |-> id, rec |-> NoRecord,
               redirect |-> redirect, at |-> 0, sent |-> sent, out |-> out]
        BY <1>2, <2>1, <2>2 DEF Idle
    <2>4. q \in RequestState
        BY <1>2, <2>1, <2>3 DEF RequestState
    <2>5. q.rec = NoRecord /\ q.id = id /\ q.step = step
        BY <2>3
    <2>6. q.out = out
        BY <2>3
    <2> QED
        BY <2>4, <2>5, <2>6
<1>7. Others(r) /\ request'[r] = q
    <2> HIDE DEF q
    <2> QED
        BY <1>3, <1>6, Moved
<1>8. Quiet /\ cookie' = cookie
    BY DEF Begin, Quiet
<1> HIDE DEF id, q, step, sent
<1> QED
    BY <1>1, <1>4, <1>5, <1>6, <1>7, <1>8

\* A request may end at any point, with or without its cookie.
LEMMA EndEffect ==
    ASSUME TypeOK, NEW r \in Request, End(r)
    PROVE  Others(r) /\ request'[r] = Idle /\ cookie' \in {0, cookie}
BY IdleTyped, Moved DEF End

LEMMA GotoEffect ==
    ASSUME TypeOK, NEW r \in Request, NEW step \in Step, Goto(r, step)
    PROVE  Goes(r, request[r].kind, step, request[r].id, request[r].rec) /\ Keeps(r)
<1> DEFINE q == [request[r] EXCEPT !.step = step]
<1>1. request[r] \in RequestState
    BY RequestTyped
<1>2. q \in RequestState
    BY <1>1 DEF RequestState
<1>3. request' = [request EXCEPT ![r] = q]
    BY DEF Goto, TypeOK
<1>4. Others(r) /\ request'[r] = q
    BY <1>2, <1>3, Moved
<1> QED
    BY <1>1, <1>4 DEF Goes, Keeps, RequestState

LEMMA LoadGetsEffect ==
    ASSUME TypeOK, NEW r \in Request, request[r].id # 0, LoadGets(r)
    PROVE  /\ Keeps(r) /\ Quiet /\ cookie' = cookie
           /\ \/ /\ Valid(store[request[r].id])
                 /\ Goes(r, request[r].kind, "handle", request[r].id, store[request[r].id])
              \/ /\ ~Valid(store[request[r].id])
                 /\ Goes(r, request[r].kind, "handle", 0, request[r].rec)
<1> DEFINE q == IF Valid(store[request[r].id])
                THEN [request[r] EXCEPT !.step = "handle", !.rec = store[request[r].id]]
                ELSE [request[r] EXCEPT !.step = "handle", !.id = 0]
<1>1. request[r] \in RequestState
    BY RequestTyped
<1>2. store[request[r].id] \in Copies
    BY <1>1 DEF RequestState, TypeOK, Copies
<1>3. q \in RequestState
    BY <1>1, <1>2 DEF RequestState, Step
<1>4. request' = [request EXCEPT ![r] = q]
    BY DEF LoadGets, TypeOK
<1>5. Others(r) /\ request'[r] = q
    BY <1>3, <1>4, Moved
<1>6. Quiet /\ cookie' = cookie /\ request[r].step = "get"
    BY DEF LoadGets, Quiet
<1>7. CASE Valid(store[request[r].id])
    BY <1>1, <1>5, <1>6, <1>7 DEF Goes, Keeps, RequestState
<1>8. CASE ~Valid(store[request[r].id])
    BY <1>1, <1>5, <1>6, <1>8 DEF Goes, Keeps, RequestState
<1> QED
    BY <1>7, <1>8

LEMMA LoginEffect ==
    ASSUME TypeOK, NEW r \in Request, Login(r)
    PROVE  /\ Goes(r, "login", "save", request[r].id, request'[r].rec) /\ Keeps(r)
           /\ Quiet /\ cookie' = cookie
           /\ request'[r].rec \in Record
           /\ request'[r].rec.user = request[r].rec.user
           /\ request'[r].rec.checked = request[r].rec.checked
           /\ request'[r].rec.issued = ApplyLifetime(request[r].rec).issued
           /\ request[r].step = "handle"
<1> DEFINE rec == [ApplyLifetime(request[r].rec) EXCEPT !.state = signIns']
           q == [request[r] EXCEPT !.step = "save", !.rec = rec]
<1>1. /\ request[r] \in RequestState /\ request[r].rec \in Copies /\ now \in Time
      /\ signIns' \in SignIn /\ request[r].kind = "login" /\ request[r].step = "handle"
    BY RequestTyped, Values DEF Login, In, TypeOK, SignIn
<1>2. /\ ApplyLifetime(request[r].rec) \in
              [user : User \cup {Nobody}, issued : Time \cup {now},
               state : SignIn \cup {0}, checked : Time \cup {-1}]
      /\ ApplyLifetime(request[r].rec).user = request[r].rec.user
      /\ ApplyLifetime(request[r].rec).checked = request[r].rec.checked
    BY <1>1, CopyTyped
<1>3. /\ rec \in Record /\ rec.user = request[r].rec.user
      /\ rec.checked = request[r].rec.checked
      /\ rec.issued = ApplyLifetime(request[r].rec).issued
    BY <1>1, <1>2 DEF Record
<1>4. request' = [request EXCEPT ![r] = q]
    BY DEF Login, TypeOK
<1> HIDE DEF rec
<1>5. q \in RequestState
    BY <1>1, <1>3 DEF RequestState, Step, Copies
<1>6. Others(r) /\ request'[r] = q
    BY <1>4, <1>5, Moved
<1>7. Quiet /\ cookie' = cookie
    BY DEF Login, Quiet
<1> QED
    BY <1>1, <1>3, <1>6, <1>7 DEF Goes, Keeps, RequestState

LEMMA CallbackEffect ==
    ASSUME TypeOK, NEW r \in Request, Callback(r)
    PROVE  /\ Goes(r, "callback", "save", request[r].id, request'[r].rec) /\ Keeps(r)
           /\ Quiet /\ cookie' = cookie
           /\ request'[r].rec \in Record
           /\ request'[r].rec.user = request[r].rec.user
           /\ request'[r].rec.checked = request[r].rec.checked
           /\ request'[r].rec.issued = ApplyLifetime(request[r].rec).issued
           /\ request[r].step = "handle"
<1> DEFINE rec == [ApplyLifetime(request[r].rec) EXCEPT !.state = 0]
           q == [request[r] EXCEPT !.step = "save", !.rec = rec]
<1>1. /\ request[r] \in RequestState /\ request[r].rec \in Copies /\ now \in Time
      /\ request[r].kind = "callback" /\ request[r].step = "handle"
    BY RequestTyped DEF Callback, In, TypeOK
<1>2. /\ ApplyLifetime(request[r].rec) \in
              [user : User \cup {Nobody}, issued : Time \cup {now},
               state : SignIn \cup {0}, checked : Time \cup {-1}]
      /\ ApplyLifetime(request[r].rec).user = request[r].rec.user
      /\ ApplyLifetime(request[r].rec).checked = request[r].rec.checked
    BY <1>1, CopyTyped
<1>3. /\ rec \in Record /\ rec.user = request[r].rec.user
      /\ rec.checked = request[r].rec.checked
      /\ rec.issued = ApplyLifetime(request[r].rec).issued
    BY <1>1, <1>2 DEF Record
<1>4. request' = [request EXCEPT ![r] = q]
    BY DEF Callback, TypeOK
<1> HIDE DEF rec
<1>5. q \in RequestState
    BY <1>1, <1>3 DEF RequestState, Step, Copies
<1>6. Others(r) /\ request'[r] = q
    BY <1>4, <1>5, Moved
<1>7. Quiet /\ cookie' = cookie
    BY DEF Callback, Quiet
<1> QED
    BY <1>1, <1>3, <1>6, <1>7 DEF Goes, Keeps, RequestState

LEMMA ConsoleEffect ==
    ASSUME TypeOK, NEW r \in Request, Console(r)
    PROVE  /\ Goes(r, "console", request'[r].step, request[r].id, request'[r].rec) /\ Keeps(r)
           /\ Quiet /\ cookie' = cookie
           /\ request'[r].step = IF Cached(request[r].rec) THEN "save" ELSE "ask"
           /\ request'[r].rec \in Record
           /\ request'[r].rec.user = request[r].rec.user /\ request[r].rec.user # Nobody
           /\ request'[r].rec.checked = request[r].rec.checked
           /\ request'[r].rec.issued = ApplyLifetime(request[r].rec).issued
           /\ request[r].step = "handle"
<1> DEFINE rec == ApplyLifetime(request[r].rec)
           step == IF Cached(request[r].rec) THEN "save" ELSE "ask"
           q == [request[r] EXCEPT !.step = step, !.rec = rec]
<1>1. /\ request[r] \in RequestState /\ request[r].rec \in Copies /\ now \in Time
      /\ request[r].kind = "console" /\ request[r].step = "handle"
      /\ request[r].rec.user # Nobody
    BY RequestTyped DEF Console, In, TypeOK, IsAuthenticated
<1>2. /\ ApplyLifetime(request[r].rec) \in
              [user : User \cup {Nobody}, issued : Time \cup {now},
               state : SignIn \cup {0}, checked : Time \cup {-1}]
      /\ ApplyLifetime(request[r].rec).user = request[r].rec.user
      /\ ApplyLifetime(request[r].rec).checked = request[r].rec.checked
    BY <1>1, CopyTyped
<1>3. /\ rec \in Record /\ rec.user = request[r].rec.user
      /\ rec.checked = request[r].rec.checked
      /\ rec.issued = ApplyLifetime(request[r].rec).issued
    BY <1>1, <1>2 DEF Record
<1>4. request' = [request EXCEPT ![r] = q]
    BY DEF Console, TypeOK
<1>5. step \in Step
    BY DEF Step
<1> HIDE DEF rec
<1>6. q \in RequestState
    BY <1>1, <1>3, <1>5 DEF RequestState, Copies
<1>7. Others(r) /\ request'[r] = q
    BY <1>4, <1>6, Moved
<1>8. Quiet /\ cookie' = cookie
    BY DEF Console, Quiet
<1> QED
    BY <1>1, <1>3, <1>7, <1>8 DEF Goes, Keeps, RequestState

LEMMA AnswerEffect ==
    ASSUME TypeOK, NEW r \in Request, Answer(r), request[r].rec.user \in admins
    PROVE  /\ Goes(r, request[r].kind, "answered", request[r].id, request[r].rec)
           /\ request'[r].out = request[r].out /\ request'[r].at = now
           /\ Quiet /\ cookie' = cookie
           /\ request[r].step = "ask"
<1> DEFINE q == [request[r] EXCEPT !.step = "answered", !.at = now]
<1>1. request[r] \in RequestState /\ now \in Time
    BY RequestTyped DEF TypeOK
<1>2. q \in RequestState
    BY <1>1 DEF RequestState, Step
<1>3. request' = [request EXCEPT ![r] = q]
    BY DEF Answer, TypeOK
<1>4. Others(r) /\ request'[r] = q
    BY <1>2, <1>3, Moved
<1>5. Quiet /\ cookie' = cookie /\ request[r].step = "ask"
    BY DEF Answer, Quiet
<1> QED
    BY <1>1, <1>4, <1>5 DEF Goes, RequestState

LEMMA GrantEffect ==
    ASSUME TypeOK, NEW r \in Request, Grant(r), request[r].rec # NoRecord
    PROVE  /\ Goes(r, request[r].kind, "save", request[r].id, request'[r].rec)
           /\ request'[r].out = request[r].out
           /\ Quiet /\ cookie' = cookie
           /\ request'[r].rec \in Record
           /\ request'[r].rec.user = request[r].rec.user
           /\ request'[r].rec.issued = request[r].rec.issued
           /\ request'[r].rec.checked = now
           /\ request[r].step = "answered"
<1> DEFINE rec == [request[r].rec EXCEPT !.checked = now]
           q == [request[r] EXCEPT !.step = "save", !.at = 0, !.rec = rec]
<1>1. request[r] \in RequestState /\ now \in Time /\ request[r].rec \in Record
    BY RequestTyped, CopyTyped DEF TypeOK
<1>2. /\ rec \in Record /\ rec.user = request[r].rec.user
      /\ rec.issued = request[r].rec.issued /\ rec.checked = now
    BY <1>1 DEF Record
<1>3. request' = [request EXCEPT ![r] = q]
    <2>1. request \in [Request -> RequestState]
        BY DEF TypeOK, RequestState, Copies
    <2>2. request' = [request EXCEPT ![r].step = "save", ![r].at = 0, ![r].rec.checked = now]
        BY DEF Grant
    <2> QED
        BY <1>1, <2>1, <2>2
<1> HIDE DEF rec
<1>4. q \in RequestState
    BY <1>1, <1>2, Values DEF RequestState, Step, Copies
<1>5. Others(r) /\ request'[r] = q
    BY <1>3, <1>4, Moved
<1>6. Quiet /\ cookie' = cookie /\ request[r].step = "answered"
    BY DEF Grant, Quiet
<1> QED
    BY <1>1, <1>2, <1>5, <1>6 DEF Goes, RequestState

\* A marker is never shortened, and outlasts a session that begins by now.
LEMMA MarkEffect ==
    ASSUME TypeOK, NEW id \in Session, Mark(id)
    PROVE  /\ marker' \in [Session -> Nat]
           /\ \A i \in Session : marker[i] <= marker'[i]
           /\ now + Retention <= marker'[id]
<1>1. marker \in [Session -> Nat] /\ now \in Nat /\ Retention \in Nat
    BY Values DEF TypeOK
<1>2. marker' = [marker EXCEPT ![id] =
                     IF now + Retention > marker[id] THEN now + Retention ELSE marker[id]]
    BY <1>1 DEF Mark
<1> QED
    BY <1>1, <1>2

LEMMA CycleIdEffect ==
    ASSUME TypeOK, NEW r \in Request, CycleId(r), request[r].id # 0
    PROVE  /\ Goes(r, "login", "save", 0, request'[r].rec)
           /\ request'[r].out = request[r].out
           /\ request'[r].rec \in Record
           /\ request'[r].rec.issued = now /\ request'[r].rec.checked = -1
           /\ request[r].id \in Session /\ Mark(request[r].id)
           /\ \/ store' = [store EXCEPT ![request[r].id] = NoRecord]
              \/ store' = store
           /\ signedOut' = signedOut \cup {request[r].id}
           /\ UNCHANGED <<now, cookie, admins, lastAdmin, begun>>
<1> DEFINE rec == [user |-> request[r].redirect.user, issued |-> now,
                   state |-> 0, checked |-> -1]
           q == [request[r] EXCEPT !.step = "save", !.kind = "login", !.id = 0, !.rec = rec]
<1>1. request[r] \in RequestState /\ now \in Time /\ request[r].id \in Session
    BY RequestTyped DEF TypeOK, RequestState
<1>2. rec \in Record /\ rec.issued = now /\ rec.checked = -1
    BY <1>1 DEF Record, RequestState, Redirect, NoRedirect
<1>3. request' = [request EXCEPT ![r] = q]
    BY DEF CycleId, TypeOK
<1> HIDE DEF rec
<1>4. q \in RequestState
    BY <1>1, <1>2 DEF RequestState, Step, Kind, Copies
<1>5. Others(r) /\ request'[r] = q
    BY <1>3, <1>4, Moved
<1>6. /\ Mark(request[r].id) /\ signedOut' = signedOut \cup {request[r].id}
      /\ \/ store' = [store EXCEPT ![request[r].id] = NoRecord]
         \/ store' = store
      /\ UNCHANGED <<now, cookie, admins, lastAdmin, begun>>
    BY DEF CycleId
<1> QED
    BY <1>1, <1>2, <1>5, <1>6 DEF Goes, RequestState

-----------------------------------------------------------------------------
(* What a step keeps *)

\* Sessions that have begun, markers and administrators: all only grow.
Grows ==
    /\ \A id \in Session : begun[id].at # -1 => begun'[id] = begun[id]
    /\ \A id \in Session : marker[id] <= marker'[id]
    /\ \A u \in User : lastAdmin[u] <= lastAdmin'[u]
    /\ now <= now'

LEMMA Sorts ==
    ASSUME TypeOK
    PROVE  /\ now \in Nat /\ \A id \in Session : marker[id] \in Nat
           /\ \A u \in User : lastAdmin[u] \in Int
           /\ \A id \in Session : begun[id].at \in Int /\ store[id] \in Copies
           /\ cookie \in Session \cup {0} /\ signedOut \subseteq Session
<1>1. now \in Nat /\ \A u \in User : lastAdmin[u] \in Int
    BY Values DEF TypeOK, Time
<1>2. \A id \in Session : begun[id] \in [user : User \cup {Nobody}, at : Time \cup {-1}]
    BY DEF TypeOK
<1>3. \A id \in Session : begun[id].at \in Int
    BY <1>2, Values DEF Time
<1> QED
    BY <1>1, <1>3 DEF TypeOK, Copies

\* What was so of a request stays so, while the clock does not run.
LEMMA FitsStays ==
    ASSUME TypeOK, TypeOK', Grows, now' = now, NEW q \in RequestState,
           Fits(q, begun, marker, lastAdmin, now)
    PROVE  Fits(q, begun', marker', lastAdmin', now')
<1>1. /\ q.id \in Session \cup {0} /\ q.rec \in Copies /\ q.at \in Nat
      /\ q.rec.checked \in Int
    BY Values, CopyTyped DEF RequestState
<1>2. q.id # 0 => q.id \in Session /\ begun'[q.id] = begun[q.id]
    BY <1>1 DEF Grows, Fits, CopyOf
<1>3. CopyOf(q, begun', now')
    BY <1>2 DEF Fits, CopyOf, Of
<1>4. OutOf(q, begun', now')
    BY <1>2 DEF Fits, CopyOf, OutOf
<1>5. DeleteOf(q, begun', marker')
    <2>1. ASSUME q.step = "delete" PROVE begun'[q.id].at + Authenticated <= marker'[q.id]
        <3>1. q.id # 0 /\ begun[q.id].at + Authenticated <= marker[q.id]
            BY <2>1 DEF Fits, CopyOf, DeleteOf
        <3>2. marker[q.id] <= marker'[q.id] /\ q.id \in Session
            BY <1>2, <3>1 DEF Grows
        <3> QED
            <4>1. marker[q.id] \in Nat /\ marker'[q.id] \in Nat /\ begun[q.id].at \in Int
                BY <3>2, Sorts DEF TypeOK
            <4> QED
                BY <1>2, <3>1, <3>2, <4>1, Values
    <2> QED
        BY <2>1 DEF DeleteOf
<1>6. ASSUME q.rec.user \in User
      PROVE  /\ lastAdmin[q.rec.user] \in Int /\ lastAdmin'[q.rec.user] \in Int
             /\ lastAdmin[q.rec.user] <= lastAdmin'[q.rec.user]
    BY <1>6, Sorts DEF Grows, TypeOK, Time
<1>7. AnswerOf(q, lastAdmin', now')
    BY <1>1, <1>6 DEF Fits, AnswerOf
<1>8. Checked(q.rec, lastAdmin')
    BY <1>1, <1>6, Values DEF Fits, Checked
<1> QED
    BY <1>3, <1>4, <1>5, <1>7, <1>8 DEF Fits

\* So a step of one request keeps what is so of the others.
LEMMA OthersFit ==
    ASSUME IInv, TypeOK', Grows, now' = now, NEW r \in Request, Others(r),
           Fits(request'[r], begun', marker', lastAdmin', now')
    PROVE  RequestInv'
<1> SUFFICES ASSUME NEW s \in Request
             PROVE  Fits(request'[s], begun', marker', lastAdmin', now')
    BY DEF RequestInv
<1>1. CASE s = r
    BY <1>1
<1>2. CASE s # r
    <2>1. request'[s] = request[s] /\ request[s] \in RequestState
        BY <1>2, RequestTyped DEF Others, IInv
    <2>2. Fits(request[s], begun, marker, lastAdmin, now)
        BY DEF IInv, RequestInv
    <2> QED
        BY <2>1, <2>2, FitsStays DEF IInv
<1> QED
    BY <1>1, <1>2

\* A step that leaves the records, markers and sign-ins alone.
LEMMA QuietKeeps ==
    ASSUME IInv, TypeOK', Quiet, NEW r \in Request, Others(r), cookie' \in {0, cookie},
           Fits(request'[r], begun, marker, lastAdmin, now)
    PROVE  IInv'
<1>1. Grows
    BY Sorts DEF Quiet, Grows, IInv
<1>2. RequestInv'
    BY <1>1, OthersFit DEF Quiet
<1>3. StoreInv' /\ SignedOutInv' /\ AdminInv'
    BY DEF IInv, StoreInv, SignedOutInv, AdminInv, Quiet
<1>4. CookieInv'
    BY DEF IInv, CookieInv, Quiet
<1> QED
    BY <1>2, <1>3, <1>4 DEF IInv

LEMMA IdleFits ==
    ASSUME TypeOK
    PROVE  Fits(Idle, begun, marker, lastAdmin, now)
BY Sorts, Values DEF Idle, Fits, CopyOf, OutOf, DeleteOf, AnswerOf, Checked

-----------------------------------------------------------------------------
(* Types, action by action *)

LEMMA QuietTypes ==
    ASSUME TypeOK, Quiet, NEW r \in Request, Others(r), cookie' \in {0, cookie},
           signIns' \in 0..MaxSignIns, codes' \subseteq codes
    PROVE  TypeOK'
BY DEF TypeOK, Quiet, Others, RequestState, Copies

\* Actions of a request that leave sessions, codes and sign-ins alone.
LEMMA RequestTypes ==
    ASSUME TypeOK, NEW r \in Request, Others(r), cookie' \in {0, cookie}, Quiet,
           UNCHANGED <<signIns, codes>>
    PROVE  TypeOK'
BY QuietTypes DEF TypeOK

-----------------------------------------------------------------------------
(* The invariant, action by action *)

LEMMA BeginKeeps ==
    ASSUME IInv, NEW r \in Request, NEW kind \in Kind,
           NEW redirect \in Redirect \cup {NoRedirect}, Begin(r, kind, redirect)
    PROVE  IInv'
<1>1. /\ Others(r) /\ Quiet /\ cookie' = cookie
      /\ request'[r].rec = NoRecord
      /\ \/ request'[r].id = 0 /\ request'[r].step = "handle"
         \/ /\ request'[r].id = cookie /\ cookie \in Session /\ request'[r].step = "get"
            /\ marker[cookie] <= now
      /\ request'[r].out => cookie \in signedOut
    BY BeginEffect DEF IInv
<1>2. TypeOK'
    BY <1>1, RequestTypes DEF IInv, Begin
<1> DEFINE q == request'[r]
<1>3. CopyOf(q, begun, now)
    BY <1>1, Sorts, Values DEF IInv, CookieInv, CopyOf
<1>4. OutOf(q, begun, now)
    <2>1. ASSUME q.out PROVE q.step = "get" => begun[q.id].at + Authenticated <= now
        <3>1. cookie \in signedOut
            BY <1>1, <2>1
        <3>2. cookie \in Session /\ begun[cookie].at + Authenticated <= marker[cookie]
            BY <3>1, Sorts DEF IInv, SignedOutInv
        <3>3. begun[cookie].at \in Int /\ marker[cookie] \in Nat /\ now \in Nat
            BY <3>2, Sorts DEF IInv
        <3> QED
            BY <1>1, <3>2, <3>3, Values
    <2>2. ASSUME q.out PROVE q.step # "get" => q.id = 0
        BY <1>1
    <2> QED
        BY <2>1, <2>2 DEF OutOf
<1>5. DeleteOf(q, begun, marker) /\ AnswerOf(q, lastAdmin, now) /\ Checked(q.rec, lastAdmin)
    BY <1>1, Values DEF DeleteOf, AnswerOf, Checked
<1> HIDE DEF q
<1>6. Fits(q, begun, marker, lastAdmin, now)
    BY <1>3, <1>4, <1>5 DEF Fits
<1> QED
    BY <1>1, <1>2, <1>6, QuietKeeps DEF q

LEMMA EndKeeps ==
    ASSUME IInv, NEW r \in Request, End(r), Quiet, UNCHANGED <<signIns, codes>>
    PROVE  IInv'
<1>1. Others(r) /\ request'[r] = Idle /\ cookie' \in {0, cookie}
    BY EndEffect DEF IInv
<1>2. TypeOK'
    BY <1>1, RequestTypes DEF IInv
<1> QED
    BY <1>1, <1>2, IdleFits, QuietKeeps DEF IInv

LEMMA LoadGetsKeeps ==
    ASSUME IInv, NEW r \in Request, LoadGets(r)
    PROVE  IInv'
<1> DEFINE id == request[r].id
           q == request'[r]
<1>1. Fits(request[r], begun, marker, lastAdmin, now) /\ request[r].step = "get"
    BY DEF IInv, RequestInv, LoadGets
<1>2. id # 0 /\ id \in Session /\ request[r].rec = NoRecord /\ begun[id].at # -1
    BY <1>1, RequestTyped DEF Fits, CopyOf, IInv
<1>3. /\ Keeps(r) /\ Quiet /\ cookie' = cookie
      /\ \/ /\ Valid(store[id])
            /\ Goes(r, request[r].kind, "handle", id, store[id])
         \/ /\ ~Valid(store[id])
            /\ Goes(r, request[r].kind, "handle", 0, request[r].rec)
    BY <1>2, LoadGetsEffect DEF IInv
<1>4. TypeOK'
    BY <1>3, RequestTypes DEF IInv, LoadGets, Goes
<1>5. CASE ~Valid(store[id])
    <2>1. q.step = "handle" /\ q.id = 0 /\ q.rec = NoRecord
        BY <1>2, <1>3, <1>5 DEF Goes
    <2>2. Fits(q, begun, marker, lastAdmin, now)
        BY <2>1, Sorts, Values
        DEF Fits, CopyOf, OutOf, DeleteOf, AnswerOf, Checked, IInv
    <2> QED
        BY <1>3, <1>4, <1>5, <2>2, QuietKeeps DEF Goes
<1>6. CASE Valid(store[id])
    <2>1. q.step = "handle" /\ q.id = id /\ q.rec = store[id] /\ q.out = request[r].out
        BY <1>3, <1>6 DEF Goes, Keeps
    <2>2. store[id] # NoRecord /\ now < store[id].issued + Lifetime(store[id])
        BY <1>6 DEF Valid
    <2>3. /\ Of(id, store[id], begun) /\ Checked(store[id], lastAdmin) /\ begun[id].at <= now
          /\ store[id].issued = begun[id].at
        BY <1>2, <2>2 DEF IInv, StoreInv, Of
    <2>4. now < begun[id].at + Authenticated
        <3>1. Lifetime(store[id]) \in {Anonymous, Authenticated}
            BY DEF Lifetime
        <3>2. now \in Nat /\ begun[id].at \in Int
            BY <1>2, Sorts DEF IInv
        <3> QED
            BY <2>2, <2>3, <3>1, <3>2, Values
    <2>5. ~q.out
        <3>1. request[r].out => begun[id].at + Authenticated <= now
            BY <1>1 DEF Fits, OutOf
        <3>2. now \in Nat /\ begun[id].at \in Int
            BY <1>2, Sorts DEF IInv
        <3> QED
            BY <2>1, <2>4, <3>1, <3>2, Values
    <2>6. Fits(q, begun, marker, lastAdmin, now)
        BY <1>2, <2>1, <2>3, <2>5
        DEF Fits, CopyOf, OutOf, DeleteOf, AnswerOf
    <2> QED
        BY <1>3, <1>4, <1>6, <2>6, QuietKeeps DEF Goes
<1> QED
    BY <1>5, <1>6

\* The request goes on with its session and its record.
LEMMA GotoKeeps ==
    ASSUME IInv, NEW r \in Request, NEW step \in {"put", "cycle"}, Goto(r, step), Quiet,
           cookie' = cookie, signIns' = signIns, codes' \subseteq codes,
           request[r].step = (IF step = "put" THEN "save" ELSE "exchange"),
           request[r].id # 0
    PROVE  IInv'
<1> DEFINE q == request'[r]
<1>1. /\ Others(r) /\ q.step = step /\ q.id = request[r].id /\ q.rec = request[r].rec
      /\ q.out = request[r].out /\ q.kind = request[r].kind
    BY GotoEffect DEF Goes, Keeps, IInv, Step
<1>2. TypeOK'
    BY <1>1, QuietTypes DEF IInv, TypeOK
<1>3. Fits(request[r], begun, marker, lastAdmin, now)
    BY DEF IInv, RequestInv
<1>4. Fits(q, begun, marker, lastAdmin, now)
    BY <1>1, <1>3 DEF Fits, CopyOf, OutOf, DeleteOf, AnswerOf
<1> HIDE DEF q
<1> QED
    BY <1>1, <1>2, <1>4, QuietKeeps DEF q

LEMMA SaveChecksKeeps ==
    ASSUME IInv, NEW r \in Request, SaveChecks(r)
    PROVE  IInv'
BY GotoKeeps DEF SaveChecks, Quiet

LEMMA ExchangeKeeps ==
    ASSUME IInv, NEW r \in Request, Exchange(r)
    PROVE  IInv'
<1>1. Fits(request[r], begun, marker, lastAdmin, now)
    BY DEF IInv, RequestInv
<1>2. request[r].id # 0
    BY <1>1 DEF Exchange, Fits, CopyOf
<1> QED
    BY <1>2, GotoKeeps DEF Exchange, Quiet

\* What a handler does to the record: the sign-in and the check stay.
LEMMA HandlerKeeps ==
    ASSUME IInv, NEW r \in Request, request[r].step = "handle",
           NEW kind, NEW step \in {"save", "ask"}, NEW rec \in Record,
           Goes(r, kind, step, request[r].id, rec), Keeps(r), Quiet, cookie' = cookie,
           signIns' \in 0..MaxSignIns, codes' = codes,
           rec.user = request[r].rec.user, rec.checked = request[r].rec.checked,
           rec.issued = ApplyLifetime(request[r].rec).issued,
           step = "ask" => rec.user # Nobody
    PROVE  IInv'
<1> DEFINE q == request'[r]
<1>1. /\ Others(r) /\ q.step = step /\ q.id = request[r].id /\ q.rec = rec
      /\ q.out = request[r].out
    BY DEF Goes, Keeps
<1>2. TypeOK'
    BY <1>1, QuietTypes DEF IInv
<1>3. /\ Fits(request[r], begun, marker, lastAdmin, now)
      /\ request[r].id \in Session \cup {0} /\ request[r].rec \in Copies
    BY RequestTyped DEF IInv, RequestInv
<1>4. rec.issued <= now /\ (request[r].rec # NoRecord => rec.issued = request[r].rec.issued)
    <2>1. rec.issued = IF request[r].rec = NoRecord THEN now ELSE request[r].rec.issued
        BY <1>3, CopyTyped
    <2>2. now \in Nat
        BY Sorts DEF IInv
    <2> QED
        BY <1>3, <2>1, <2>2 DEF Fits, CopyOf
<1>5. request[r].id # 0 => request[r].rec # NoRecord
    <2> SUFFICES ASSUME request[r].id # 0, request[r].rec = NoRecord PROVE FALSE
        OBVIOUS
    <2>1. Of(request[r].id, request[r].rec, begun) /\ begun[request[r].id].at # -1
        BY <1>3 DEF Fits, CopyOf
    <2> QED
        BY <2>1, Values DEF Of
<1>6. request[r].rec.user # Nobody => request[r].id # 0
    BY <1>3 DEF Fits, CopyOf
<1>7. CopyOf(q, begun, now)
    BY <1>1, <1>3, <1>4, <1>5, <1>6 DEF Fits, CopyOf, Of
<1>8. OutOf(q, begun, now) /\ DeleteOf(q, begun, marker) /\ AnswerOf(q, lastAdmin, now)
    BY <1>1, <1>3 DEF Fits, OutOf, DeleteOf, AnswerOf
<1>9. Checked(q.rec, lastAdmin)
    BY <1>1, <1>3 DEF Fits, Checked
<1>10. Fits(q, begun, marker, lastAdmin, now)
    BY <1>7, <1>8, <1>9 DEF Fits
<1> HIDE DEF q
<1> QED
    BY <1>1, <1>2, <1>10, QuietKeeps DEF q

LEMMA LoginKeeps ==
    ASSUME IInv, NEW r \in Request, Login(r)
    PROVE  IInv'
<1>1. /\ Goes(r, "login", "save", request[r].id, request'[r].rec) /\ Keeps(r)
      /\ Quiet /\ cookie' = cookie
      /\ request'[r].rec \in Record
      /\ request'[r].rec.user = request[r].rec.user
      /\ request'[r].rec.checked = request[r].rec.checked
      /\ request'[r].rec.issued = ApplyLifetime(request[r].rec).issued
      /\ request[r].step = "handle"
    BY LoginEffect DEF IInv
<1>2. signIns' \in 0..MaxSignIns /\ codes' = codes
    BY Values DEF IInv, TypeOK, Login
<1>3. PICK rec \in Record : rec = request'[r].rec
    BY <1>1
<1> QED
    BY <1>1, <1>2, <1>3, HandlerKeeps

LEMMA CallbackKeeps ==
    ASSUME IInv, NEW r \in Request, Callback(r)
    PROVE  IInv'
<1>1. /\ Goes(r, "callback", "save", request[r].id, request'[r].rec) /\ Keeps(r)
      /\ Quiet /\ cookie' = cookie
      /\ request'[r].rec \in Record
      /\ request'[r].rec.user = request[r].rec.user
      /\ request'[r].rec.checked = request[r].rec.checked
      /\ request'[r].rec.issued = ApplyLifetime(request[r].rec).issued
      /\ request[r].step = "handle"
    BY CallbackEffect DEF IInv
<1>2. signIns' \in 0..MaxSignIns /\ codes' = codes
    BY DEF IInv, TypeOK, Callback
<1>3. PICK rec \in Record : rec = request'[r].rec
    BY <1>1
<1> QED
    BY <1>1, <1>2, <1>3, HandlerKeeps

LEMMA ConsoleKeeps ==
    ASSUME IInv, NEW r \in Request, Console(r)
    PROVE  IInv'
<1>1. /\ Goes(r, "console", request'[r].step, request[r].id, request'[r].rec) /\ Keeps(r)
      /\ Quiet /\ cookie' = cookie
      /\ request'[r].step \in {"save", "ask"}
      /\ request'[r].rec \in Record
      /\ request'[r].rec.user = request[r].rec.user /\ request[r].rec.user # Nobody
      /\ request'[r].rec.checked = request[r].rec.checked
      /\ request'[r].rec.issued = ApplyLifetime(request[r].rec).issued
      /\ request[r].step = "handle"
    BY ConsoleEffect DEF IInv
<1>2. signIns' \in 0..MaxSignIns /\ codes' = codes
    BY DEF IInv, TypeOK, Console
<1>3. PICK rec \in Record : rec = request'[r].rec
    BY <1>1
<1>4. PICK step \in {"save", "ask"} : step = request'[r].step
    BY <1>1
<1> QED
    BY <1>1, <1>2, <1>3, <1>4, HandlerKeeps

LEMMA AnswerKeeps ==
    ASSUME IInv, NEW r \in Request, Answer(r)
    PROVE  IInv'
<1>1. CASE request[r].rec.user \notin admins
    BY <1>1, EndKeeps DEF Answer, Quiet
<1>2. CASE request[r].rec.user \in admins
    <2> DEFINE q == request'[r]
    <2>1. /\ Others(r) /\ q.step = "answered" /\ q.id = request[r].id
          /\ q.rec = request[r].rec /\ q.out = request[r].out /\ q.at = now
          /\ Quiet /\ cookie' = cookie /\ request[r].step = "ask"
        BY <1>2, AnswerEffect DEF IInv, Goes
    <2>2. TypeOK'
        BY <2>1, RequestTypes DEF IInv, Answer
    <2>3. Fits(request[r], begun, marker, lastAdmin, now)
        BY DEF IInv, RequestInv
    <2>4. q.rec.user \in User /\ lastAdmin[q.rec.user] = now
        BY <1>2, <2>1 DEF IInv, AdminInv, TypeOK
    <2>5. now \in Nat /\ Latency \in Nat
        BY Sorts, Values DEF IInv
    <2>6. AnswerOf(q, lastAdmin, now)
        BY <2>1, <2>4, <2>5 DEF AnswerOf
    <2>7. Fits(q, begun, marker, lastAdmin, now)
        BY <2>1, <2>3, <2>6 DEF Fits, CopyOf, OutOf, DeleteOf
    <2> HIDE DEF q
    <2> QED
        BY <2>1, <2>2, <2>7, QuietKeeps DEF q
<1> QED
    BY <1>1, <1>2

LEMMA GrantKeeps ==
    ASSUME IInv, NEW r \in Request, Grant(r)
    PROVE  IInv'
<1> DEFINE q == request'[r]
<1>1. Fits(request[r], begun, marker, lastAdmin, now) /\ request[r].step = "answered"
    BY DEF IInv, RequestInv, Grant
<1>2. request[r].rec # NoRecord /\ request[r].id # 0
    BY <1>1, Values DEF Fits, CopyOf
<1>3. /\ Others(r) /\ q.step = "save" /\ q.id = request[r].id /\ q.out = request[r].out
      /\ Quiet /\ cookie' = cookie
      /\ q.rec.user = request[r].rec.user /\ q.rec.issued = request[r].rec.issued
      /\ q.rec.checked = now
    BY <1>2, GrantEffect DEF IInv, Goes
<1>4. TypeOK'
    BY <1>3, RequestTypes DEF IInv, Grant
<1>5. /\ request[r].rec.user \in User /\ request[r].at <= lastAdmin[request[r].rec.user]
      /\ now <= request[r].at + Latency
    BY <1>1 DEF Fits, AnswerOf
<1>6. now <= lastAdmin[request[r].rec.user] + Latency
    <2>1. /\ request[r].at \in Nat /\ now \in Nat /\ Latency \in Nat
          /\ lastAdmin[request[r].rec.user] \in Int
        BY <1>5, RequestTyped, Sorts, Values DEF IInv
    <2> QED
        BY <1>5, <2>1
<1>7. Checked(q.rec, lastAdmin)
    BY <1>3, <1>5, <1>6 DEF Checked
<1>8. Fits(q, begun, marker, lastAdmin, now)
    BY <1>1, <1>2, <1>3, <1>7 DEF Fits, CopyOf, OutOf, DeleteOf, AnswerOf, Of
<1> HIDE DEF q
<1> QED
    BY <1>3, <1>4, <1>8, QuietKeeps DEF q

\* The session of a request, when it has one, and what its record bears.
LEMMA Held ==
    ASSUME IInv, NEW r \in Request, request[r].id # 0
    PROVE  /\ request[r].id \in Session /\ begun[request[r].id].at # -1
           /\ begun[request[r].id].at \in Nat /\ begun[request[r].id].at <= now
           /\ request[r].step # "get" => Of(request[r].id, request[r].rec, begun)
<1> DEFINE id == request[r].id
<1>1. id \in Session /\ Fits(request[r], begun, marker, lastAdmin, now)
    BY RequestTyped DEF IInv, RequestInv
<1>2. begun[id].at # -1 /\ (request[r].step # "get" => Of(id, request[r].rec, begun))
    BY <1>1 DEF Fits, CopyOf
<1>3. begun[id] \in [user : User \cup {Nobody}, at : Time \cup {-1}]
    BY <1>1 DEF IInv, TypeOK
<1>4. begun[id].at \in Nat
    BY <1>2, <1>3, Values
<1>5. begun[id].at <= now
    BY <1>1 DEF IInv, StoreInv
<1> QED
    BY <1>1, <1>2, <1>4, <1>5

\* A session that is marked now is outlasted.
LEMMA MarkOutlasts ==
    ASSUME IInv, NEW id \in Session, begun[id].at \in Nat, begun[id].at <= now, Mark(id)
    PROVE  begun[id].at + Authenticated <= marker'[id]
<1>1. /\ now + Retention <= marker'[id] /\ marker' \in [Session -> Nat]
    BY MarkEffect DEF IInv
<1>2. now \in Nat /\ marker'[id] \in Nat
    BY <1>1, Sorts DEF IInv
<1> QED
    BY <1>1, <1>2, Values

LEMMA LogoutKeeps ==
    ASSUME IInv, NEW r \in Request, Logout(r)
    PROVE  IInv'
<1>1. /\ request[r].step = "handle" /\ request[r].rec.user # Nobody
      /\ Fits(request[r], begun, marker, lastAdmin, now)
    BY DEF IInv, RequestInv, Logout, In, IsAuthenticated
<1>2. request[r].id # 0
    BY <1>1 DEF Fits, CopyOf
<1>3. CASE Mark(request[r].id) /\ Goto(r, "delete") /\ cookie' = cookie
    <2> DEFINE id == request[r].id
               q == request'[r]
    <2>1. /\ Others(r) /\ q.step = "delete" /\ q.id = id /\ q.rec = request[r].rec
          /\ q.out = request[r].out
        BY <1>3, GotoEffect DEF Goes, Keeps, IInv, Step
    <2>2. /\ marker' \in [Session -> Nat]
          /\ \A i \in Session : marker[i] <= marker'[i]
          /\ begun[id].at + Authenticated <= marker'[id]
        BY <1>2, <1>3, Held, MarkEffect, MarkOutlasts DEF IInv
    <2>3. UNCHANGED <<now, store, cookie, signIns, codes, admins, lastAdmin, begun, signedOut>>
        BY <1>3 DEF Logout
    <2>4. TypeOK'
        BY <2>1, <2>2, <2>3 DEF IInv, TypeOK, Others, RequestState, Copies
    <2>5. Grows
        BY <2>2, <2>3, Sorts DEF Grows, IInv
    <2>6. Fits(q, begun', marker', lastAdmin', now')
        BY <1>1, <1>2, <2>1, <2>2, <2>3
        DEF Fits, CopyOf, OutOf, DeleteOf, AnswerOf, Of, Checked
    <2> HIDE DEF q
    <2>7. RequestInv'
        BY <2>1, <2>3, <2>4, <2>5, <2>6, OthersFit DEF q
    <2>8. SignedOutInv'
        <3> SUFFICES ASSUME NEW i \in signedOut
                     PROVE  begun[i].at # -1 /\ begun[i].at + Authenticated <= marker'[i]
            BY <2>3 DEF SignedOutInv
        <3>1. /\ i \in Session /\ begun[i].at # -1 /\ begun[i].at \in Int
              /\ begun[i].at + Authenticated <= marker[i]
              /\ marker[i] \in Nat /\ marker'[i] \in Nat /\ marker[i] <= marker'[i]
            BY <2>2, Sorts DEF IInv, SignedOutInv
        <3> QED
            BY <3>1, Values
    <2>9. StoreInv' /\ CookieInv' /\ AdminInv'
        BY <2>3 DEF IInv, StoreInv, CookieInv, AdminInv
    <2> QED
        BY <2>4, <2>7, <2>8, <2>9 DEF IInv
<1>4. CASE marker' = marker /\ request' = [request EXCEPT ![r] = Idle] /\ cookie' = 0
    <2>1. Quiet /\ UNCHANGED <<signIns, codes>>
        BY <1>4 DEF Logout, Quiet
    <2>2. Others(r) /\ request'[r] = Idle
        BY <1>4, IdleTyped, Moved DEF IInv
    <2>3. TypeOK'
        BY <1>4, <2>1, <2>2, RequestTypes DEF IInv
    <2> QED
        BY <1>4, <2>1, <2>2, <2>3, IdleFits, QuietKeeps DEF IInv
<1> QED
    BY <1>3, <1>4 DEF Logout

\* A session that was outlasted by its marker stays so as markers grow.
LEMMA SignedOutGrows ==
    ASSUME IInv, TypeOK', Grows, NEW id \in Session,
           begun[id].at # -1, begun[id].at + Authenticated <= marker'[id],
           signedOut' \subseteq signedOut \cup {id}
    PROVE  SignedOutInv'
<1> SUFFICES ASSUME NEW i \in signedOut'
             PROVE  begun'[i].at # -1 /\ begun'[i].at + Authenticated <= marker'[i]
    BY DEF SignedOutInv
<1>1. CASE i = id
    <2>1. begun'[id] = begun[id]
        BY DEF Grows
    <2> QED
        BY <1>1, <2>1
<1>2. CASE i # id
    <2>1. i \in signedOut /\ i \in Session
        BY <1>2, Sorts DEF IInv
    <2>2. /\ begun[i].at # -1 /\ begun[i].at \in Int /\ begun'[i] = begun[i]
          /\ begun[i].at + Authenticated <= marker[i] /\ marker[i] <= marker'[i]
        BY <2>1, Sorts DEF IInv, SignedOutInv, Grows
    <2>3. marker[i] \in Nat /\ marker'[i] \in Nat
        BY <2>1 DEF IInv, TypeOK
    <2> QED
        BY <2>2, <2>3, Values
<1> QED
    BY <1>1, <1>2

LEMMA DeleteKeeps ==
    ASSUME IInv, NEW r \in Request, Delete(r)
    PROVE  IInv'
<1> DEFINE id == request[r].id
<1>1. /\ request[r].step = "delete"
      /\ Fits(request[r], begun, marker, lastAdmin, now)
    BY DEF IInv, RequestInv, Delete
<1>2. id # 0 /\ begun[id].at + Authenticated <= marker[id]
    BY <1>1 DEF Fits, CopyOf, DeleteOf
<1>3. id \in Session /\ begun[id].at # -1
    BY <1>2, Held
<1>4. /\ store' = [store EXCEPT ![id] = NoRecord] \/ store' = store
      /\ signedOut' = signedOut \cup {id} /\ cookie' = 0
      /\ UNCHANGED <<now, marker, signIns, codes, admins, lastAdmin, begun>>
    BY DEF Delete
<1>5. Others(r) /\ request'[r] = Idle
    BY IdleTyped, Moved DEF Delete, IInv
<1>6. /\ store' \in [Session -> Copies]
      /\ \A i \in Session : store'[i] = store[i] \/ store'[i] = NoRecord
    BY <1>3, <1>4, Values DEF IInv, TypeOK, Copies
<1> HIDE DEF id
<1>7. TypeOK'
    BY <1>3, <1>4, <1>5, <1>6 DEF IInv, TypeOK, Others, RequestState, Copies
<1>8. Grows
    BY <1>4, Sorts DEF Grows, IInv
<1>9. RequestInv'
    BY <1>4, <1>5, <1>7, <1>8, IdleFits, OthersFit DEF IInv
<1>10. StoreInv'
    BY <1>4, <1>6, Values DEF IInv, StoreInv, Checked
<1>11. SignedOutInv'
    BY <1>2, <1>3, <1>4, <1>7, <1>8, SignedOutGrows DEF id
<1>12. CookieInv' /\ AdminInv'
    BY <1>4 DEF IInv, CookieInv, AdminInv
<1> QED
    BY <1>7, <1>9, <1>10, <1>11, <1>12 DEF IInv

LEMMA CycleIdKeeps ==
    ASSUME IInv, NEW r \in Request, CycleId(r)
    PROVE  IInv'
<1> DEFINE id == request[r].id
           q == request'[r]
<1>1. /\ request[r].step = "cycle"
      /\ Fits(request[r], begun, marker, lastAdmin, now)
    BY DEF IInv, RequestInv, CycleId
<1>2. id # 0 /\ ~request[r].out
    BY <1>1 DEF Fits, CopyOf, OutOf
<1>3. /\ Others(r) /\ q.step = "save" /\ q.kind = "login" /\ q.id = 0
      /\ q.out = request[r].out
      /\ q.rec.issued = now /\ q.rec.checked = -1
      /\ Mark(id)
      /\ store' = [store EXCEPT ![id] = NoRecord] \/ store' = store
      /\ signedOut' = signedOut \cup {id}
      /\ UNCHANGED <<now, cookie, admins, lastAdmin, begun>>
    BY <1>2, CycleIdEffect DEF IInv, Goes
<1>4. id \in Session /\ begun[id].at # -1
    BY <1>2, Held
<1>5. /\ marker' \in [Session -> Nat]
      /\ \A i \in Session : marker[i] <= marker'[i]
      /\ begun[id].at + Authenticated <= marker'[id]
    BY <1>2, <1>3, Held, MarkEffect, MarkOutlasts DEF IInv
<1>6. /\ store' \in [Session -> Copies]
      /\ \A i \in Session : store'[i] = store[i] \/ store'[i] = NoRecord
    BY <1>3, <1>4, Values DEF IInv, TypeOK, Copies
<1>a. UNCHANGED <<signIns, codes>>
    BY DEF CycleId
<1> HIDE DEF id
<1>7. TypeOK'
    BY <1>3, <1>4, <1>5, <1>6, <1>a DEF IInv, TypeOK, Others, RequestState, Copies
<1>8. Grows
    BY <1>3, <1>5, Sorts DEF Grows, IInv
<1>9. Fits(q, begun', marker', lastAdmin', now')
    <2>1. now \in Nat
        BY Sorts DEF IInv
    <2> QED
        BY <1>2, <1>3, <2>1, Values DEF Fits, CopyOf, OutOf, DeleteOf, AnswerOf, Checked
<1> HIDE DEF q
<1>10. RequestInv'
    BY <1>3, <1>7, <1>8, <1>9, OthersFit DEF q
<1>11. StoreInv'
    BY <1>3, <1>6, Values DEF IInv, StoreInv, Checked
<1>12. SignedOutInv'
    BY <1>3, <1>4, <1>5, <1>7, <1>8, SignedOutGrows
<1>13. CookieInv' /\ AdminInv'
    BY <1>3 DEF IInv, CookieInv, AdminInv
<1> QED
    BY <1>7, <1>10, <1>11, <1>12, <1>13 DEF IInv

LEMMA SavePutsKeeps ==
    ASSUME IInv, NEW r \in Request, SavePuts(r)
    PROVE  IInv'
<1> DEFINE id == request[r].id
           q == request'[r]
<1>1. /\ request[r].step = "put"
      /\ Fits(request[r], begun, marker, lastAdmin, now)
      /\ request[r].rec \in Copies
    BY RequestTyped DEF IInv, RequestInv, SavePuts
<1>2. /\ id \in Session /\ begun[id].at # -1 /\ Of(id, request[r].rec, begun)
      /\ Checked(request[r].rec, lastAdmin)
    BY <1>1, Held DEF Fits, CopyOf
<1>3. /\ store' = [store EXCEPT ![id] = request[r].rec]
      /\ UNCHANGED <<now, marker, signIns, codes, admins, lastAdmin, begun, signedOut>>
    BY DEF SavePuts
<1>4. /\ Others(r) /\ Fits(q, begun, marker, lastAdmin, now)
      /\ cookie' \in {cookie, id}
    <2>1. CASE request[r].kind = "callback"
        <3>1. Goto(r, "exchange") /\ cookie' = cookie
            BY <2>1 DEF SavePuts
        <3>2. /\ Others(r) /\ q.step = "exchange" /\ q.id = id /\ q.rec = request[r].rec
              /\ q.out = request[r].out /\ q.kind = "callback"
            BY <2>1, <3>1, GotoEffect DEF Goes, Keeps, IInv, Step
        <3> QED
            BY <1>1, <3>1, <3>2 DEF Fits, CopyOf, OutOf, DeleteOf, AnswerOf
    <2>2. CASE request[r].kind # "callback"
        <3>1. request' = [request EXCEPT ![r] = Idle] /\ cookie' = id
            BY <2>2 DEF SavePuts
        <3> QED
            BY <3>1, IdleTyped, IdleFits, Moved DEF IInv
    <2> QED
        BY <2>1, <2>2
<1>5. /\ store' \in [Session -> Copies]
      /\ \A i \in Session : store'[i] = IF i = id THEN request[r].rec ELSE store[i]
    BY <1>1, <1>2, <1>3 DEF IInv, TypeOK, Copies
<1> HIDE DEF id, q
<1>6. TypeOK'
    BY <1>2, <1>3, <1>4, <1>5 DEF IInv, TypeOK, Others, RequestState, Copies
<1>7. Grows
    BY <1>3, Sorts DEF Grows, IInv
<1>8. RequestInv'
    BY <1>3, <1>4, <1>6, <1>7, OthersFit DEF q
<1>9. StoreInv'
    <2> SUFFICES ASSUME NEW i \in Session
                 PROVE  /\ store'[i] # NoRecord => Of(i, store'[i], begun)
                        /\ Checked(store'[i], lastAdmin)
                        /\ begun[i].at <= now
        BY <1>3 DEF StoreInv
    <2> QED
        BY <1>2, <1>5 DEF IInv, StoreInv
<1>10. SignedOutInv' /\ AdminInv'
    BY <1>3 DEF IInv, SignedOutInv, AdminInv
<1>11. CookieInv'
    BY <1>2, <1>3, <1>4 DEF IInv, CookieInv
<1> QED
    BY <1>6, <1>8, <1>9, <1>10, <1>11 DEF IInv

LEMMA CreatesKeeps ==
    ASSUME IInv, NEW r \in Request, Creates(r)
    PROVE  IInv'
<1> DEFINE rec == request[r].rec
<1>1. /\ Fits(request[r], begun, marker, lastAdmin, now)
      /\ request[r].rec \in Copies /\ rec # NoRecord
    BY RequestTyped DEF IInv, RequestInv, Creates, Valid
<1>2. rec \in Record /\ rec.issued \in Time /\ rec.user \in User \cup {Nobody}
    BY <1>1, CopyTyped
<1>3. PICK id \in Session :
          /\ begun[id].at = -1
          /\ store' = [store EXCEPT ![id] = rec]
          /\ begun' = [begun EXCEPT ![id] = [user |-> rec.user, at |-> rec.issued]]
          /\ cookie' = id
    BY DEF Creates
<1>4. /\ request' = [request EXCEPT ![r] = Idle]
      /\ UNCHANGED <<now, marker, signIns, codes, admins, lastAdmin, signedOut>>
    BY DEF Creates
<1>5. Others(r) /\ request'[r] = Idle
    BY <1>4, IdleTyped, Moved DEF IInv
<1>6. /\ store' \in [Session -> Copies]
      /\ begun' \in [Session -> [user : User \cup {Nobody}, at : Time \cup {-1}]]
      /\ \A i \in Session : i # id => store'[i] = store[i] /\ begun'[i] = begun[i]
      /\ store'[id] = rec /\ begun'[id] = [user |-> rec.user, at |-> rec.issued]
    BY <1>2, <1>3 DEF IInv, TypeOK, Copies
<1> HIDE DEF rec
<1>7. TypeOK'
    BY <1>3, <1>4, <1>5, <1>6 DEF IInv, TypeOK, Others, RequestState, Copies
<1>8. Grows
    BY <1>3, <1>4, <1>6, Sorts DEF Grows, IInv
<1>9. RequestInv'
    <2>1. Fits(Idle, begun', marker', lastAdmin', now')
        <3>1. now' \in Nat
            BY <1>4, Sorts DEF IInv
        <3> QED
            BY <3>1, Values
            DEF Idle, Fits, CopyOf, OutOf, DeleteOf, AnswerOf, Checked
    <2> QED
        BY <1>4, <1>5, <1>7, <1>8, <2>1, OthersFit
<1>10. StoreInv'
    <2> SUFFICES ASSUME NEW i \in Session
                 PROVE  /\ store'[i] # NoRecord => Of(i, store'[i], begun')
                        /\ Checked(store'[i], lastAdmin)
                        /\ begun'[i].at <= now
        BY <1>4 DEF StoreInv
    <2>1. CASE i = id
        <3>1. Checked(rec, lastAdmin) /\ rec.issued <= now
            BY <1>1 DEF Fits, CopyOf, rec
        <3> QED
            BY <1>6, <2>1, <3>1 DEF Of
    <2>2. CASE i # id
        BY <1>6, <2>2 DEF IInv, StoreInv, Of
    <2> QED
        BY <2>1, <2>2
<1>11. SignedOutInv'
    <2> SUFFICES ASSUME NEW i \in signedOut
                 PROVE  begun'[i].at # -1 /\ begun'[i].at + Authenticated <= marker[i]
        BY <1>4 DEF SignedOutInv
    <2>1. i \in Session /\ begun[i].at # -1 /\ begun[i].at + Authenticated <= marker[i]
        BY Sorts DEF IInv, SignedOutInv
    <2>2. begun'[i] = begun[i]
        BY <1>3, <1>6, <2>1
    <2> QED
        BY <2>1, <2>2
<1>12. CookieInv'
    BY <1>2, <1>3, <1>6, Values DEF CookieInv
<1>13. AdminInv'
    BY <1>4 DEF IInv, AdminInv
<1> QED
    BY <1>7, <1>9, <1>10, <1>11, <1>12, <1>13 DEF IInv

\* GitHub redirects, and changes its mind about administrators.
LEMMA GitHubKeeps ==
    ASSUME IInv,
           \/ \E state \in SignIn, user \in User : Authorize(state, user)
           \/ \E u \in User : Demote(u)
           \/ UNCHANGED vars
    PROVE  IInv'
<1>1. UNCHANGED <<now, store, marker, cookie, request, lastAdmin, begun, signedOut>>
    BY DEF Authorize, Demote, vars
<1>2. signIns' = signIns /\ admins' \subseteq admins
    BY DEF Authorize, Demote, vars
<1>3. codes' \subseteq Redirect
    BY DEF Authorize, Demote, vars, Redirect, IInv, TypeOK
<1>4. TypeOK'
    BY <1>1, <1>2, <1>3 DEF IInv, TypeOK
<1>5. RequestInv' /\ StoreInv' /\ SignedOutInv' /\ CookieInv'
    BY <1>1 DEF IInv, RequestInv, StoreInv, SignedOutInv, CookieInv
<1>6. AdminInv'
    BY <1>1, <1>2 DEF IInv, AdminInv
<1> QED
    BY <1>4, <1>5, <1>6 DEF IInv

LEMMA TickKeeps ==
    ASSUME IInv, Tick
    PROVE  IInv'
<1>1. /\ now \in Nat /\ now' = now + 1 /\ now' \in Time
      /\ UNCHANGED <<store, marker, cookie, request, signIns, codes, admins, begun, signedOut>>
    BY Sorts, Values DEF IInv, Tick, Time
<1>2. \A u \in User : lastAdmin'[u] = IF u \in admins THEN now' ELSE lastAdmin[u]
    BY DEF Tick
<1>3. TypeOK'
    <2>1. lastAdmin' \in [User -> Time \cup {-1}]
        BY <1>1 DEF Tick, IInv, TypeOK
    <2> QED
        BY <1>1, <2>1 DEF IInv, TypeOK
<1>4. Grows /\ AdminInv'
    <2>1. \A u \in User : lastAdmin[u] \in Int /\ lastAdmin[u] <= now
        BY Sorts DEF IInv, AdminInv
    <2>2. \A id \in Session : marker[id] <= marker[id]
        BY Sorts DEF IInv
    <2> QED
        BY <1>1, <1>2, <2>1, <2>2 DEF Grows, AdminInv
<1>5. RequestInv'
    <2> SUFFICES ASSUME NEW r \in Request
                 PROVE  Fits(request[r], begun, marker, lastAdmin', now')
        BY <1>1 DEF RequestInv
    <2> DEFINE q == request[r]
    <2>1. /\ Fits(q, begun, marker, lastAdmin, now)
          /\ q.id \in Session \cup {0} /\ q.rec \in Copies /\ q.at \in Nat
          /\ q.rec.checked \in Int /\ q.rec.issued \in Int
        BY RequestTyped, CopyTyped, Values DEF IInv, RequestInv
    <2>2. q.step = "answered" => now - q.at < Latency
        BY DEF Tick
    <2> HIDE DEF q
    <2>3. CopyOf(q, begun, now')
        BY <1>1, <2>1 DEF Fits, CopyOf
    <2>4. OutOf(q, begun, now')
        <3>1. ASSUME q.out, q.step = "get" PROVE begun[q.id].at + Authenticated <= now'
            <4>1. begun[q.id].at + Authenticated <= now /\ q.id \in Session
                BY <2>1, <3>1 DEF Fits, OutOf, CopyOf
            <4>2. begun[q.id].at \in Int
                BY <4>1, Sorts DEF IInv
            <4> QED
                BY <1>1, <4>1, <4>2, Values
        <3>2. ASSUME q.out, q.step # "get" PROVE q.id = 0
            BY <2>1, <3>2 DEF Fits, OutOf
        <3> QED
            BY <3>1, <3>2 DEF OutOf
    <2>5. ASSUME q.rec.user \in User
          PROVE  /\ lastAdmin[q.rec.user] \in Int /\ lastAdmin'[q.rec.user] \in Int
                 /\ lastAdmin[q.rec.user] <= lastAdmin'[q.rec.user]
        BY <1>1, <1>2, <1>4, <2>5, Sorts DEF Grows, IInv
    <2>6. AnswerOf(q, lastAdmin', now')
        BY <1>1, <2>1, <2>2, <2>5, Values DEF Fits, AnswerOf
    <2>7. Checked(q.rec, lastAdmin')
        BY <2>1, <2>5, Values DEF Fits, Checked
    <2>8. DeleteOf(q, begun, marker)
        BY <2>1 DEF Fits
    <2>9. Fits(q, begun, marker, lastAdmin', now')
        BY <2>3, <2>4, <2>6, <2>7, <2>8 DEF Fits
    <2> QED
        BY <2>9 DEF q
<1>6. StoreInv'
    <2> SUFFICES ASSUME NEW id \in Session
                 PROVE  /\ store[id] # NoRecord => Of(id, store[id], begun)
                        /\ Checked(store[id], lastAdmin')
                        /\ begun[id].at <= now'
        BY <1>1 DEF StoreInv
    <2>1. /\ store[id] # NoRecord => Of(id, store[id], begun)
          /\ Checked(store[id], lastAdmin) /\ begun[id].at <= now
          /\ begun[id].at \in Int /\ store[id] \in Copies
        BY Sorts DEF IInv, StoreInv
    <2>2. store[id].checked \in Int
        BY <2>1, CopyTyped
    <2>3. ASSUME store[id].user \in User
          PROVE  /\ lastAdmin[store[id].user] \in Int /\ lastAdmin'[store[id].user] \in Int
                 /\ lastAdmin[store[id].user] <= lastAdmin'[store[id].user]
        BY <1>1, <1>2, <1>4, <2>3, Sorts DEF Grows, IInv
    <2>4. Checked(store[id], lastAdmin')
        BY <2>1, <2>2, <2>3, Values DEF Checked
    <2> QED
        BY <1>1, <2>1, <2>4
<1>7. SignedOutInv' /\ CookieInv'
    BY <1>1 DEF IInv, SignedOutInv, CookieInv
<1> QED
    BY <1>3, <1>4, <1>5, <1>6, <1>7 DEF IInv

LEMMA InitInvariant == Init => IInv
<1> SUFFICES ASSUME Init PROVE IInv
    OBVIOUS
<1>1. TypeOK
    BY IdleTyped, Values DEF Init, TypeOK, RequestState, Copies
<1>2. RequestInv
    BY <1>1, IdleFits DEF Init, RequestInv
<1>3. StoreInv /\ SignedOutInv /\ CookieInv /\ AdminInv
    BY Values DEF Init, StoreInv, SignedOutInv, CookieInv, AdminInv, Checked
<1> QED
    BY <1>1, <1>2, <1>3 DEF IInv

LEMMA NextInvariant == IInv /\ [Next]_vars => IInv'
<1> SUFFICES ASSUME IInv, [Next]_vars PROVE IInv'
    OBVIOUS
<1>1. ASSUME NEW r \in Request,
             \/ \E kind \in {"login", "console", "logout"} : Begin(r, kind, NoRedirect)
             \/ \E redirect \in codes : Begin(r, "callback", redirect)
      PROVE  IInv'
    BY <1>1, BeginKeeps DEF Kind, IInv, TypeOK
<1>2. ASSUME NEW r \in Request, Fail(r) \/ SignInFirst(r)
      PROVE  IInv'
    BY <1>2, EndKeeps DEF Fail, SignInFirst, Quiet
<1>3. ASSUME NEW r \in Request,
             \/ LoadGets(r) \/ SaveChecks(r) \/ SavePuts(r) \/ Creates(r)
             \/ Login(r) \/ Callback(r) \/ Exchange(r) \/ CycleId(r)
             \/ Console(r) \/ Answer(r) \/ Grant(r) \/ Logout(r) \/ Delete(r)
      PROVE  IInv'
    BY <1>3, LoadGetsKeeps, SaveChecksKeeps, SavePutsKeeps, CreatesKeeps, LoginKeeps,
       CallbackKeeps, ExchangeKeeps, CycleIdKeeps, ConsoleKeeps, AnswerKeeps, GrantKeeps,
       LogoutKeeps, DeleteKeeps
<1> QED
    BY <1>1, <1>2, <1>3, NextCases, GitHubKeeps, TickKeeps

\* The inductive invariant holds in every reachable state.
THEOREM WebSessionInvariant == Spec => []IInv
BY InitInvariant, NextInvariant, PTL DEF Spec

-----------------------------------------------------------------------------
(* The properties *)

\* Type correctness of the store, the browser, its requests and its sessions.
THEOREM WebSessionTypeOK == Spec => []TypeOK
<1>1. IInv => TypeOK
    BY DEF IInv
<1> QED
    BY <1>1, WebSessionInvariant, PTL

\* A session that was signed out gives no later request anything: its marker
\* outlasts whatever record a concurrent request stored for it.
THEOREM WebSessionSignedOut == Spec => []SignedOutStaysOut
<1>1. IInv => SignedOutStaysOut
    BY DEF IInv, RequestInv, Fits, OutOf, SignedOutStaysOut
<1> QED
    BY <1>1, WebSessionInvariant, PTL

\* A request changes by its own steps only.
Own(r) ==
    \/ \E kind \in {"login", "console", "logout"} : Begin(r, kind, NoRedirect)
    \/ \E redirect \in codes : Begin(r, "callback", redirect)
    \/ LoadGets(r) \/ SaveChecks(r) \/ SavePuts(r) \/ Creates(r) \/ Fail(r)
    \/ Login(r) \/ Callback(r) \/ Exchange(r) \/ CycleId(r)
    \/ SignInFirst(r) \/ Console(r) \/ Answer(r) \/ Grant(r)
    \/ Logout(r) \/ Delete(r)

LEMMA OwnSteps ==
    ASSUME IInv, [Next]_vars, NEW r \in Request
    PROVE  Own(r) \/ request'[r] = request[r]
<1>1. ASSUME NEW s \in Request, Own(s), s # r PROVE request'[r] = request[r]
    <2>1. request \in [Request -> RequestState]
        BY DEF IInv, TypeOK, RequestState, Copies
    <2>2. CASE \/ \E kind \in {"login", "console", "logout"} : Begin(s, kind, NoRedirect)
               \/ \E redirect \in codes : Begin(s, "callback", redirect)
        BY <1>1, <2>1, <2>2 DEF Begin
    <2>3. CASE LoadGets(s) \/ SaveChecks(s) \/ SavePuts(s) \/ Creates(s) \/ Exchange(s)
        BY <1>1, <2>1, <2>3 DEF LoadGets, SaveChecks, SavePuts, Creates, Exchange, Goto
    <2>4. CASE Login(s) \/ Callback(s) \/ CycleId(s) \/ Console(s) \/ Grant(s)
        BY <1>1, <2>1, <2>4 DEF Login, Callback, CycleId, Console, Grant
    <2>5. CASE Fail(s) \/ SignInFirst(s) \/ Answer(s) \/ Logout(s) \/ Delete(s)
        BY <1>1, <2>1, <2>5 DEF Fail, SignInFirst, Answer, Logout, Delete, End, Goto
    <2> QED
        BY <1>1, <2>2, <2>3, <2>4, <2>5 DEF Own
<1>2. (\E s \in Request : Own(s)) \/ request' = request
    <2>1. ASSUME \/ \E state \in SignIn, user \in User : Authorize(state, user)
                 \/ \E u \in User : Demote(u)
                 \/ Tick
                 \/ UNCHANGED vars
          PROVE  request' = request
        BY <2>1 DEF Authorize, Demote, Tick, vars
    <2> QED
        BY <2>1, NextCases DEF Own
<1> QED
    BY <1>1, <1>2

\* A session stays its user's, and no copy stored later extends its lifetime.
THEOREM WebSessionBounded == Spec => SessionIsBounded
<1> DEFINE Bound(r) ==
        request[r].step = "get" /\ IsAuthenticated(request[r].rec)' =>
            LET signIn == begun[request[r].id]
            IN /\ request[r].rec.user' = signIn.user
               /\ now < signIn.at + Authenticated
<1>1. ASSUME IInv, [Next]_vars, NEW r \in Request PROVE Bound(r)
    <2> SUFFICES ASSUME request[r].step = "get", request'[r].rec.user # Nobody
                 PROVE  /\ request'[r].rec.user = begun[request[r].id].user
                        /\ now < begun[request[r].id].at + Authenticated
        BY DEF IsAuthenticated
    <2> DEFINE id == request[r].id
    <2>1. id # 0 /\ id \in Session /\ request[r].rec = NoRecord
        BY <1>1, RequestTyped DEF IInv, RequestInv, Fits, CopyOf
    <2>2. CASE LoadGets(r)
        <3>1. /\ \/ /\ Valid(store[id])
                    /\ Goes(r, request[r].kind, "handle", id, store[id])
                 \/ /\ ~Valid(store[id])
                    /\ Goes(r, request[r].kind, "handle", 0, request[r].rec)
            BY <1>1, <2>1, <2>2, LoadGetsEffect DEF IInv
        <3>2. Valid(store[id]) /\ request'[r].rec = store[id]
            BY <2>1, <3>1, Values DEF Goes
        <3>3. store[id] # NoRecord /\ Of(id, store[id], begun)
            BY <1>1, <2>1, <3>2 DEF Valid, IInv, StoreInv
        <3> QED
            BY <3>2, <3>3 DEF Valid, Of, Lifetime, IsAuthenticated
    <2>3. CASE ~LoadGets(r)
        <3>1. request'[r] = request[r] \/ Fail(r)
            <4>1. \A kind, redirect : ~Begin(r, kind, redirect)
                BY DEF Begin, Idle
            <4>2. ~(SaveChecks(r) \/ SavePuts(r) \/ Creates(r) \/ Exchange(r) \/ CycleId(r))
                BY DEF SaveChecks, SavePuts, Creates, Exchange, CycleId
            <4>3. ~(Login(r) \/ Callback(r) \/ Console(r) \/ Logout(r) \/ SignInFirst(r))
                BY DEF Login, Callback, Console, Logout, SignInFirst, In
            <4>4. ~(Answer(r) \/ Grant(r) \/ Delete(r))
                BY DEF Answer, Grant, Delete
            <4> QED
                BY <1>1, <2>3, <4>1, <4>2, <4>3, <4>4, OwnSteps DEF Own
        <3>2. Fail(r) => request'[r] = Idle
            BY <1>1, EndEffect DEF Fail, IInv
        <3> QED
            BY <2>1, <3>1, <3>2, Values DEF Idle
    <2> QED
        BY <2>2, <2>3
<1>2. IInv /\ [Next]_vars => [\A r \in Request : Bound(r)]_vars
    BY <1>1
<1> QED
    BY <1>2, WebSessionInvariant, PTL DEF Spec, SessionIsBounded

\* Whom the console lets in was an administrator within the cache's lifetime
\* and the time an answer travels, however old the copies that requests store.
THEOREM WebSessionAdministratorWasRecent == Spec => AdministratorWasRecent
<1> DEFINE Recent(r) ==
        Grants(r) => now - lastAdmin[request[r].rec.user] < CheckTtl + Latency
<1>1. ASSUME IInv, [Next]_vars, NEW r \in Request PROVE Recent(r)
    <2> SUFFICES ASSUME Grants(r)
                 PROVE  now - lastAdmin[request[r].rec.user] < CheckTtl + Latency
        OBVIOUS
    <2>1. /\ Fits(request[r], begun, marker, lastAdmin, now)
          /\ request[r].rec \in Copies /\ request[r].at \in Nat
          /\ request[r].rec.checked \in Int /\ now \in Nat
        BY <1>1, RequestTyped, CopyTyped, Sorts, Values DEF IInv, RequestInv
    <2>2. Console(r) \/ Grant(r)
        <3>1. Own(r)
            BY <1>1, OwnSteps DEF Grants
        <3>2. request[r].kind = "console" /\ request[r].step # "save"
              /\ request'[r].step = "save" /\ request'[r] # Idle
            BY DEF Grants, Idle
        <3>3. \A kind, redirect : ~Begin(r, kind, redirect)
            BY <3>2 DEF Begin, Idle
        <3>4. ~LoadGets(r)
            <4>1. request[r].step = "get" => request[r].id # 0
                BY <2>1 DEF Fits, CopyOf
            <4> QED
                BY <1>1, <3>2, <4>1, LoadGetsEffect DEF LoadGets, Goes, IInv
        <3>5. ~(SaveChecks(r) \/ Creates(r))
            BY <3>2 DEF SaveChecks, Creates
        <3>6. ~(SavePuts(r) \/ Delete(r))
            BY <1>1, <3>2, IdleTyped, Moved DEF SavePuts, Delete, IInv
        <3>7. ~(Login(r) \/ Callback(r) \/ Logout(r))
            BY <3>2 DEF Login, Callback, Logout, In
        <3>8. ~(Fail(r) \/ SignInFirst(r) \/ Answer(r))
            <4>1. ~End(r)
                BY <1>1, <3>2, EndEffect DEF IInv
            <4>2. Answer(r) => request'[r].step = "answered"
                BY <1>1, <4>1, AnswerEffect DEF Answer, Goes, IInv
            <4> QED
                BY <3>2, <4>1, <4>2 DEF Fail, SignInFirst
        <3>9. ~(Exchange(r) \/ CycleId(r))
            BY <2>1, <3>2 DEF Exchange, CycleId, Fits, CopyOf
        <3> QED
            BY <3>1, <3>3, <3>4, <3>5, <3>6, <3>7, <3>8, <3>9 DEF Own
    <2>3. CASE Console(r)
        <3>1. Cached(request[r].rec)
            BY <1>1, <2>3, ConsoleEffect DEF Grants, IInv
        <3>2. /\ request[r].rec.user \in User
              /\ request[r].rec.checked <= lastAdmin[request[r].rec.user] + Latency
              /\ now - request[r].rec.checked < CheckTtl
            BY <2>1, <3>1 DEF Fits, Checked, Cached
        <3>3. lastAdmin[request[r].rec.user] \in Int
            BY <1>1, <3>2, Sorts DEF IInv
        <3> QED
            BY <2>1, <3>2, <3>3, Values
    <2>4. CASE Grant(r)
        <3>1. /\ request[r].rec.user \in User
              /\ request[r].at <= lastAdmin[request[r].rec.user]
              /\ now <= request[r].at + Latency
            BY <2>1, <2>4 DEF Grant, Fits, AnswerOf
        <3>2. lastAdmin[request[r].rec.user] \in Int
            BY <1>1, <3>1, Sorts DEF IInv
        <3> QED
            BY <2>1, <3>1, <3>2, Values
    <2> QED
        BY <2>2, <2>3, <2>4
<1>2. IInv /\ [Next]_vars => [\A r \in Request : Recent(r)]_vars
    BY <1>1
<1> QED
    BY <1>2, WebSessionInvariant, PTL DEF Spec, AdministratorWasRecent
=============================================================================
