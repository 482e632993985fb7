------------------------------ MODULE Attempts ------------------------------
(***************************************************************************)
(* One browser session's commands on their way to the durable objects:      *)
(* the forms of the console and of the invitation page, the continuation    *)
(* each leaves in SQL before it is sent                                     *)
(* (crates/ghinvite-web/src/attempt_continuations.rs,                       *)
(* crates/ghinvite-core/src/storage/attempt_continuations.rs), the ingress  *)
(* call with its deadline, and what each flow makes of the answer           *)
(* (routes/console/attempts.rs, routes/invitation/attempt.rs).              *)
(*                                                                         *)
(* A tab is one web request. Several run at once, in no order; any of them  *)
(* may be cut off after any step. A call whose caller gave up may still     *)
(* reach its object. Of an object only what it retains under a command's    *)
(* identity is kept.                                                        *)
(***************************************************************************)
EXTENDS Naturals, FiniteSets

CONSTANTS
    Tab,            \* concurrent web requests of the session
    Value,          \* inputs of a creation form
    Expiring,       \* those whose expiry passes
    Operation,      \* decision identities, one for each rendered form
    Attempt,        \* admission attempt identities
    Text,           \* justifications as submitted
    Canonical,      \* their normal form
    None,           \* nothing
    MaxSubmissions, \* bound on submitted forms
    MaxFaults       \* bound on cut off requests and lost answers

ASSUME AttemptsBounds ==
    /\ Expiring \subseteq Value
    /\ Canonical \in [Text -> Text]
    /\ None \notin Value \cup Operation \cup Attempt \cup Text \cup Tab
    /\ Operation \cap Attempt = {}
    /\ {"creation", "revocation"} \cap (Operation \cup Attempt) = {}
    /\ MaxSubmissions \in Nat
    /\ MaxFaults \in Nat

VARIABLES
    rows,        \* live rows of attempt_continuations in the session's scopes
    pc,          \* where each web request is
    command,     \* the command it carries
    calls,       \* ingress calls not yet handled
    authority,   \* what the objects retain under each identity
    request,     \* state of the invitation request
    late,        \* whether the expiry of the Expiring inputs has passed
    ended,       \* whether the browser session, and so its rows, expired
    sent,        \* history: commands sent to ingress
    told,        \* history: outcomes shown to the browser
    stray,       \* history: rows deleted by the release of another input
    submissions, \* forms submitted so far
    faults       \* disturbances so far

webVars == <<pc, command>>
objectVars == <<authority, request>>
historyVars == <<sent, told, stray>>
vars == <<rows, webVars, calls, objectVars, late, ended, historyVars,
          submissions, faults>>

-----------------------------------------------------------------------------
(* Commands. "id" is the identity of an attempt, "binding" its logical        *)
(* subject. One link is created and revoked, one request decided.             *)

Action == {"approve", "decline"}

Creation == [kind : {"create"}, id : {"creation"}, binding : {"creation"},
             input : Value]
Revocation == [kind : {"revoke"}, id : {"revocation"}, binding : {"revocation"},
               input : {None}]
Admission == UNION {[kind : {"admit"}, id : {q}, binding : {q}, input : Text] :
                        q \in Attempt}

\* Defect: a decision is bound to its own identity only.
BoundByOperation(operation) == operation

\* A decision is also bound to its request.
Binding(operation) == "request"

Decision == UNION {[kind : {"decide"}, id : {o}, binding : {Binding(o)},
                    input : Action] : o \in Operation}

Command == Creation \cup Revocation \cup Decision \cup Admission

Id == {"creation", "revocation"} \cup Operation \cup Attempt

Nothing == [input |-> None, outcome |-> "none"]
Outcome == {"created", "revoked", "prepared", "accepted", "rejected", "applied",
            "already", "incompatible"}
Retained == [input : Value \cup Action \cup Text \cup {None}, outcome : Outcome]
Answer == Outcome \cup {"none", "invalid", "conflict"}
PC == {"idle", "recover", "insert", "find", "send", "await", "release"}

TypeOK ==
    /\ rows \subseteq Command
    /\ pc \in [Tab -> PC]
    /\ command \in [Tab -> Command \cup {None}]
    /\ calls \subseteq [tab : Tab \cup {None}, command : Command, prepare : BOOLEAN]
    /\ authority \in [Id -> Retained \cup {Nothing}]
    /\ request \in {"pending", "approved", "declined", "expired"}
    /\ late \in BOOLEAN
    /\ ended \in BOOLEAN
    /\ sent \subseteq Command
    /\ told \subseteq [command : Command, outcome : Answer]
    /\ stray \subseteq Command
    /\ submissions \in 0..MaxSubmissions
    /\ faults \in 0..MaxFaults

Init ==
    /\ rows = {}
    /\ pc = [t \in Tab |-> "idle"]
    /\ command = [t \in Tab |-> None]
    /\ calls = {}
    /\ authority = [i \in Id |-> Nothing]
    /\ request = "pending"
    /\ late = FALSE
    /\ ended = FALSE
    /\ sent = {}
    /\ told = {}
    /\ stray = {}
    /\ submissions = 0
    /\ faults = 0

Disturbance == faults < MaxFaults /\ faults' = faults + 1

Goto(t, place) == pc' = [pc EXCEPT ![t] = place]

\* The response leaves; nothing of the request stays.
Respond(t) ==
    /\ Goto(t, "idle")
    /\ command' = [command EXCEPT ![t] = None]

Tell(c, outcome) == told' = told \cup {[command |-> c, outcome |-> outcome]}

-----------------------------------------------------------------------------
(* Continuations in SQL *)

\* Rows of an expired session are selected by nobody.
Live == IF ended THEN {} ELSE rows

\* GET
Load(id) == {r \in Live : r.id = id}

\* INSERT ... ON CONFLICT DO NOTHING: identity and binding are unique.
Insert(c) ==
    IF \E r \in rows : r.id = c.id \/ r.binding = c.binding
    THEN rows ELSE rows \cup {c}

\* BY_BINDING: the exact identity goes before the binding.
Found(c) ==
    IF Load(c.id) # {} THEN Load(c.id) ELSE {r \in Live : r.binding = c.binding}

\* Defect: whatever is retained under the identity will do.
SameIdentity(c, original) == c.id = original.id

\* The retained input is the submitted one. Admission compares canonical input.
Same(c, original) ==
    \/ c = original
    \/ /\ c.kind = "admit"
       /\ original.id = c.id
       /\ Canonical[c.input] = Canonical[original.input]

-----------------------------------------------------------------------------
(* Web requests *)

\* A form that its page accepts is submitted. The link's page, which revokes, needs
\* the link.
Submit(t, c) ==
    /\ pc[t] = "idle"
    /\ ~ended
    /\ submissions < MaxSubmissions
    /\ c.kind = "revoke" => authority["creation"] # Nothing
    /\ submissions' = submissions + 1
    /\ Goto(t, IF c.kind = "create" THEN "recover" ELSE "insert")
    /\ command' = [command EXCEPT ![t] = c]
    /\ UNCHANGED <<rows, calls, objectVars, late, ended, historyVars, faults>>

\* recover_create: a creation retained under the form's identity is replayed if
\* the input is the same and reported as a conflict otherwise.
Recover(t) ==
    /\ pc[t] = "recover"
    /\ IF \E r \in Load(command[t].id) : r # command[t]
       THEN Respond(t)
       ELSE Goto(t, "insert") /\ UNCHANGED command
    /\ UNCHANGED <<rows, calls, objectVars, late, ended, historyVars, submissions,
                   faults>>

\* The attempt's page posts its retained input again.
Retry(t, c) ==
    /\ pc[t] = "idle"
    /\ c \in Load(c.id)
    /\ Goto(t, "insert")
    /\ command' = [command EXCEPT ![t] = c]
    /\ UNCHANGED <<rows, calls, objectVars, late, ended, historyVars,
                   submissions, faults>>

\* retain, first statement; the row of an ended session is born expired.
RetainInsert(t) ==
    /\ pc[t] = "insert"
    /\ rows' = Insert(command[t])
    /\ Goto(t, "find")
    /\ UNCHANGED <<command, calls, objectVars, late, ended, historyVars,
                   submissions, faults>>

\* retain, second statement. Retained goes on; Bound, Conflict and a row that is
\* gone again end the request with a page that says so.
RetainFind(t) ==
    /\ pc[t] = "find"
    /\ IF \E r \in Found(command[t]) : Same(command[t], r)
       THEN Goto(t, "send") /\ UNCHANGED command
       ELSE Respond(t)
    /\ UNCHANGED <<rows, calls, objectVars, late, ended, historyVars, submissions,
                   faults>>

Call(t, c, prepare) == [tab |-> t, command |-> c, prepare |-> prepare]

\* An admission is prepared first, then admitted.
Send(t) ==
    /\ pc[t] = "send"
    /\ calls' = calls \cup {Call(t, command[t], command[t].kind = "admit")}
    /\ sent' = sent \cup {command[t]}
    /\ Goto(t, "await")
    /\ UNCHANGED <<rows, command, objectVars, late, ended, told, stray,
                   submissions, faults>>

\* Defect: no answer is taken for a refusal.
UnansweredIsInvalid == "invalid"

\* A deadline, a lost connection or an unusable body never proves no effect.
Unanswered == "none"

\* The browser is told that the outcome is unknown.
TimeOut(t) ==
    /\ pc[t] = "await"
    /\ Disturbance
    /\ calls' = {IF call.tab = t THEN [call EXCEPT !.tab = None] ELSE call :
                     call \in calls}
    /\ IF Unanswered = "invalid"
       THEN /\ Goto(t, "release")
            /\ UNCHANGED command
       ELSE Respond(t)
    /\ UNCHANGED <<rows, objectVars, late, ended, historyVars, submissions>>

\* RELEASE deletes by identity, whatever input it carries by now. A release that
\* fails leaves the row; the page is the same.
Release(t) ==
    /\ pc[t] = "release"
    /\ \/ /\ rows' = {r \in rows : r.id # command[t].id}
          /\ stray' = stray \cup {r \in rows : r.id = command[t].id /\ r # command[t]}
          /\ UNCHANGED faults
       \/ Disturbance /\ UNCHANGED <<rows, stray>>
    /\ Tell(command[t], "invalid")
    /\ Respond(t)
    /\ UNCHANGED <<calls, objectVars, late, ended, sent, submissions>>

Input(c) == IF c.kind = "admit" THEN Canonical[c.input] ELSE c.input

\* The object retains the command's outcome, and for its very input.
Recorded(c) ==
    /\ authority[c.id].outcome \notin {"none", "prepared"}
    /\ authority[c.id].input = Input(c)

\* The attempt's page asks the object without sending the command.
Look(c) ==
    /\ c \in Load(c.id)
    /\ Recorded(c)
    /\ Tell(c, authority[c.id].outcome)
    /\ UNCHANGED <<rows, webVars, calls, objectVars, late, ended, sent, stray,
                   submissions, faults>>

\* The connection breaks or the process ends before the browser sees a page.
CutOff(t) ==
    /\ pc[t] \notin {"idle", "await"}
    /\ Disturbance
    /\ Respond(t)
    /\ UNCHANGED <<rows, calls, objectVars, late, ended, historyVars, submissions>>

-----------------------------------------------------------------------------
(* The objects *)

Done(c) == IF c.input = "approve" THEN "approved" ELSE "declined"

\* A decision that comes to the request's state agrees with it or not.
DecisionOutcome(c) ==
    CASE request = "pending" -> "applied"
      [] request = Done(c) -> "already"
      [] OTHER -> "incompatible"

\* What the object decides on a command it sees for the first time.
Possible(c) ==
    CASE c.kind = "create" -> {"created"}
      [] c.kind = "revoke" -> {"revoked"}
      [] c.kind = "decide" -> {DecisionOutcome(c)}
      [] c.kind = "admit" -> {"accepted", "rejected"}

Retain(c, outcome) ==
    authority' = [authority EXCEPT ![c.id] = [input |-> Input(c), outcome |-> outcome]]

\* What the answer means to the web request that still waits for it: a prepared
\* admission goes on, an invalid creation is released, a conflict is reported,
\* everything else is shown.
Triage(t, c, outcome) ==
    CASE outcome = "prepared" ->
           /\ calls' = (calls \ {Call(t, c, TRUE)}) \cup {Call(t, c, FALSE)}
           /\ UNCHANGED <<webVars, told>>
      [] outcome = "invalid" ->
           /\ calls' = calls \ {Call(t, c, FALSE)}
           /\ Goto(t, "release")
           /\ UNCHANGED <<command, told>>
      [] outcome = "conflict" ->
           /\ calls' = {call \in calls : call.tab # t}
           /\ Respond(t)
           /\ UNCHANGED told
      [] OTHER ->
           /\ calls' = {call \in calls : call.tab # t}
           /\ Respond(t)
           /\ Tell(c, outcome)

Reply(call, outcome) ==
    IF call.tab = None
    THEN calls' = calls \ {call} /\ UNCHANGED <<webVars, told>>
    ELSE Triage(call.tab, call.command, outcome)

\* An object handles a call: it replays what it retains under the identity,
\* refuses another input, and decides otherwise. A creation whose expiry has
\* passed is invalid and leaves nothing.
Handle(call) ==
    LET c == call.command
        known == authority[c.id] IN
    /\ \/ /\ known # Nothing
          /\ known.input # Input(c)
          /\ Reply(call, "conflict")
          /\ UNCHANGED objectVars
       \/ /\ known # Nothing
          /\ known.input = Input(c)
          /\ known.outcome # "prepared" \/ call.prepare
          /\ Reply(call, known.outcome)
          /\ UNCHANGED objectVars
       \/ /\ known = Nothing
          /\ c.kind = "create"
          /\ late
          /\ c.input \in Expiring
          /\ Reply(call, "invalid")
          /\ UNCHANGED objectVars
       \/ /\ known = Nothing
          /\ call.prepare
          /\ Retain(c, "prepared")
          /\ Reply(call, "prepared")
          /\ UNCHANGED request
       \/ /\ ~call.prepare
          /\ known = Nothing \/ known = [input |-> Input(c), outcome |-> "prepared"]
          /\ ~(c.kind = "create" /\ late /\ c.input \in Expiring)
          /\ \E outcome \in Possible(c) : Retain(c, outcome) /\ Reply(call, outcome)
          /\ request' = IF c.kind = "decide" /\ request = "pending"
                        THEN Done(c) ELSE request
    /\ UNCHANGED <<rows, late, ended, sent, stray, submissions, faults>>

\* Another session decides, or the deadline passes.
DecidedElsewhere ==
    /\ request = "pending"
    /\ request' \in {"approved", "declined", "expired"}
    /\ UNCHANGED <<rows, webVars, calls, authority, late, ended, historyVars,
                   submissions, faults>>

ExpiryPasses ==
    /\ ~late
    /\ late' = TRUE
    /\ UNCHANGED <<rows, webVars, calls, objectVars, ended, historyVars, submissions,
                   faults>>

SessionEnds ==
    /\ ~ended
    /\ ended' = TRUE
    /\ UNCHANGED <<rows, webVars, calls, objectVars, late, historyVars, submissions,
                   faults>>

-----------------------------------------------------------------------------
Step(t) ==
    \/ Recover(t)
    \/ RetainInsert(t)
    \/ RetainFind(t)
    \/ Send(t)
    \/ Release(t)

Next ==
    \/ \E t \in Tab :
          \/ \E c \in Command : Submit(t, c) \/ Retry(t, c)
          \/ Step(t)
          \/ TimeOut(t)
          \/ CutOff(t)
    \/ \E c \in Command : Look(c)
    \/ \E call \in calls : Handle(call)
    \/ DecidedElsewhere
    \/ ExpiryPasses
    \/ SessionEnds

Spec == Init /\ [][Next]_vars

-----------------------------------------------------------------------------
(* Properties *)

\* What the browser was shown is so and stays so: a completed command is retained
\* by its object with its own input and outcome, and an input reported as refused
\* is never applied, by whatever call of it may still be under way.
ToldIsTrue ==
    \A t \in told :
        IF t.outcome = "invalid"
        THEN authority[t.command.id].input # Input(t.command)
        ELSE authority[t.command.id] = [input |-> Input(t.command), outcome |-> t.outcome]

\* Two tabs that approve and decline one request send one original decision only,
\* under one identity, however their retentions interleave.
OneDecision == Cardinality(sent \cap Decision) <= 1

\* A command that took effect is retained with exactly its input while the session
\* lives, so that its page can tell the outcome or repeat the command. The exception
\* is a row deleted by a late release of an earlier input of its identity, as the
\* code allows (attempts.rs:320).
EffectIsRecoverable ==
    ended \/ \A c \in sent :
        Recorded(c) => \/ \E r \in rows : r.id = c.id /\ Input(r) = Input(c)
                       \/ c \in stray
=============================================================================
