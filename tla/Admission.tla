------------------------------ MODULE Admission ------------------------------
(***************************************************************************)
(* InvitationLink/<link>: the durable object that admits requesters         *)
(* (crates/ghinvite-workflows/src/admission.rs), composed with the owners   *)
(* of the requests it admitted, which it asks before a requester may apply  *)
(* again, and with the account's availability evidence.                     *)
(*                                                                         *)
(* Handlers of one link exclude each other, so the module follows one       *)
(* running admit. While it waits for an answer, or for a crashed process    *)
(* to resume, the clock runs on, administrators decide requests, the        *)
(* repositories come and go. Every step is journaled by Restate, so a crash *)
(* only delays; what can fail is a call to another object, before or after  *)
(* that object did its part, and then the caller gets a retryable 503.      *)
(***************************************************************************)
EXTENDS RequestLifecycle, FiniteSets

CONSTANTS
    Requester,     \* GitHub users who apply
    Operation,     \* admission attempt identities chosen by browsers
    None,          \* nobody, no operation
    Terms,         \* guardrails an administrator may create the link with
    Lifetime,      \* PENDING_LIFETIME
    Window,        \* RECENT_OBSERVATION: how long an observation admits
    MaxRequests,   \* bound on requests admitted under an unlimited link
    MaxTime,       \* bound on the clock
    MaxRevision,   \* bound on metadata edits
    MaxFaults      \* bound on failed calls and changes of access

\* The values max_uses and expires_at have when they are absent.
Unlimited == -1
NoExpiry == 0

ASSUME AdmissionBounds ==
    /\ None \notin Requester \cup Operation
    /\ Terms \subseteq [max_uses : 1..MaxRequests \cup {Unlimited},
                        expires_at : Nat, approval_required : BOOLEAN]
    /\ Lifetime \in Nat \ {0}
    /\ Window \in Nat \ {0}
    /\ MaxRequests \in Nat
    /\ MaxTime \in Nat
    /\ MaxRevision \in Nat
    /\ MaxFaults \in Nat

VARIABLES
    now,         \* the wall clock every closure reads
    link,        \* "link": terms, uses, revision, revocation
    attempt,     \* "attempt/<op>": the input an operation is bound to
    latest,      \* "latest-attempt/<requester>"
    pointer,     \* "latest-request/<requester>"
    receipts,    \* "op/<op>": the recorded outcome of an operation
    handoff,     \* "handoff/<op>": accepted, not yet known to be initialized
    admission,   \* "admission/<request>": what the link handed over
    outbox,      \* link snapshots sent to InvitationProjection
    pc,          \* where the running admit is
    run,         \* its operation, requester, verdict and evidence
    requests,    \* the request owners' snapshots
    verdicts,    \* their retained "verdict/<op>" records
    access,      \* GitHub grants the installation the link's whole scope
    observed_at, \* time of the retained observation that it does, or Never
    granted,     \* history: times at which access was granted
    denied,      \* history: times at which it was not
    faults       \* disturbances so far

attemptVars == <<attempt, latest, receipts>>
admittedVars == <<link, pointer, handoff, admission, outbox>>
requestVars == <<requests, verdicts>>
accessVars == <<access, granted, denied>>
vars == <<now, attemptVars, admittedVars, pc, run, requestVars, accessVars,
          observed_at, faults>>

-----------------------------------------------------------------------------
Time == 0..MaxTime
Never == -1
RequestId == 1..MaxRequests
NoId == 0

\* An attempt's input matters only by whether it is the one the operation is
\* bound to; the requesters stand for their inputs.
Somebody == Requester \cup {None}
SomeOperation == Operation \cup {None}

NoTerms == [max_uses |-> 0, expires_at |-> NoExpiry, approval_required |-> FALSE]
NoLink == [terms |-> NoTerms, uses |-> 0, revision |-> 0, revoked_at |-> Never]
NoReceipt ==
    [requester |-> None, result |-> "none", request |-> NoId, decided_at |-> Never]
NoRequest == [requester |-> None, state |-> "absent", deadline |-> NoDeadline,
              ended_at |-> Never]
NoEvidence == [eligibility |-> "none", valid_until |-> Never]
NoRun == [operation |-> None, requester |-> None, blocked_at |-> Never,
          evidence |-> NoEvidence]

Rejection == {"revoked", "expired", "exhausted", "existing_request", "unavailable"}
Eligibility == {"available", "unavailable", "unknown"}
PC == {"idle", "ask", "probe", "evidence", "decide", "initialize", "record"}

LinkSnapshot == [terms : Terms \cup {NoTerms}, uses : {NoId} \cup RequestId,
                 revision : Nat, revoked_at : Time \cup {Never}]
Receipt == [requester : Somebody, result : Rejection \cup {"accepted", "none"},
            request : {NoId} \cup RequestId, decided_at : Time \cup {Never}]
RequestSnapshot == [requester : Somebody, state : RequestState \cup {"absent"},
                    deadline : Nat, ended_at : Nat \cup {Never}]
Evidence == [eligibility : Eligibility \cup {"none"}, valid_until : Nat \cup {Never}]
Verdict == [request : RequestId, operation : Operation, blocking : BOOLEAN,
            evaluated_at : Time]

TypeOK ==
    /\ now \in Time
    /\ link \in LinkSnapshot
    /\ attempt \in [Operation -> Somebody]
    /\ latest \in [Requester -> SomeOperation]
    /\ pointer \in [Requester -> {NoId} \cup RequestId]
    /\ receipts \in [Operation -> Receipt]
    /\ handoff \in [Operation -> Receipt]
    /\ admission \in [RequestId -> RequestSnapshot]
    /\ outbox \subseteq LinkSnapshot
    /\ pc \in PC
    /\ run \in [operation : SomeOperation, requester : Somebody,
                blocked_at : Time \cup {Never}, evidence : Evidence]
    /\ requests \in [RequestId -> RequestSnapshot]
    /\ verdicts \subseteq Verdict
    /\ access \in BOOLEAN
    /\ observed_at \in Time \cup {Never}
    /\ granted \subseteq Time
    /\ denied \subseteq Time
    /\ faults \in Nat

Init ==
    /\ now = 0
    /\ link = NoLink
    /\ attempt = [o \in Operation |-> None]
    /\ latest = [r \in Requester |-> None]
    /\ pointer = [r \in Requester |-> NoId]
    /\ receipts = [o \in Operation |-> NoReceipt]
    /\ handoff = [o \in Operation |-> NoReceipt]
    /\ admission = [i \in RequestId |-> NoRequest]
    /\ outbox = {}
    /\ pc = "idle"
    /\ run = NoRun
    /\ requests = [i \in RequestId |-> NoRequest]
    /\ verdicts = {}
    /\ access \in BOOLEAN
    /\ observed_at = Never
    /\ granted = IF access THEN {0} ELSE {}
    /\ denied = IF access THEN {} ELSE {0}
    /\ faults = 0

Disturbance == faults < MaxFaults /\ faults' = faults + 1

\* The caller is told 503 and may send the same attempt again.
Uncertain == pc' = "idle" /\ run' = NoRun

-----------------------------------------------------------------------------
(* The link and its guardrails *)

Created == link.revision # 0

Revoked == link.revoked_at # Never

\* Defect: the last use is not the last.
ExhaustedLate == link.terms.max_uses # Unlimited /\ link.uses > link.terms.max_uses

Exhausted == link.terms.max_uses # Unlimited /\ link.uses >= link.terms.max_uses

Expired == link.terms.expires_at # NoExpiry /\ now >= link.terms.expires_at

\* Inactive::check: revocation before expiration before exhausted max use.
Inactive == Revoked \/ Expired \/ Exhausted

InactiveReason ==
    IF Revoked THEN "revoked" ELSE IF Expired THEN "expired" ELSE "exhausted"

\* The new snapshot replaces the old one and goes to the projection.
Publish(snapshot) ==
    /\ link' = snapshot
    /\ outbox' = outbox \cup {snapshot}

\* Defect: a changed snapshot keeps its revision.
ReviseInPlace(snapshot) == snapshot

Revise(snapshot) == [snapshot EXCEPT !.revision = @ + 1]

\* Defect: a repeated creation starts the link afresh.
CreatableAlways == TRUE

\* A repeated creation replays the first one's receipt or conflicts with it.
Creatable == ~Created

Create(terms) ==
    /\ pc = "idle"
    /\ Creatable
    /\ terms.expires_at = NoExpiry \/ terms.expires_at > now
    /\ Publish([terms |-> terms, uses |-> 0, revision |-> 1, revoked_at |-> Never])
    /\ UNCHANGED <<now, attemptVars, pointer, handoff, admission, pc, run,
                   requestVars, accessVars, observed_at, faults>>

Revoke ==
    /\ pc = "idle"
    /\ Created
    /\ ~Revoked
    /\ Publish([Revise(link) EXCEPT !.revoked_at = now])
    /\ UNCHANGED <<now, attemptVars, pointer, handoff, admission, pc, run,
                   requestVars, accessVars, observed_at, faults>>

UpdateMetadata ==
    /\ pc = "idle"
    /\ Created
    /\ link.revision < MaxRevision
    /\ Publish(Revise(link))
    /\ UNCHANGED <<now, attemptVars, pointer, handoff, admission, pc, run,
                   requestVars, accessVars, observed_at, faults>>

-----------------------------------------------------------------------------
(* Attempts *)

Decided(operation) == receipts[operation].result # "none"

\* An operation is bound to the first input that came with it.
Bound(operation, requester) ==
    /\ handoff[operation].requester \in {None, requester}
    /\ attempt[operation] \in {None, requester}

BindAttempt(operation, requester) ==
    /\ attempt' = [attempt EXCEPT ![operation] = requester]
    /\ latest' = [latest EXCEPT ![requester] = operation]
    /\ UNCHANGED receipts

PrepareAttempt(operation, requester) ==
    /\ pc = "idle"
    /\ Created
    /\ ~Decided(operation)
    /\ attempt[operation] = None
    /\ BindAttempt(operation, requester)
    /\ UNCHANGED <<now, admittedVars, pc, run, requestVars, accessVars,
                   observed_at, faults>>

\* Defect: an operation with a handoff starts over.
ResumableNever(operation) == FALSE

Resumable(operation) == handoff[operation].result # "none"

\* admit, up to its first call. A recorded operation replays its receipt and
\* an operation bound to another input conflicts, both without a change.
Admit(operation, requester) ==
    /\ pc = "idle"
    /\ ~Decided(operation)
    /\ Bound(operation, requester)
    /\ \/ /\ Resumable(operation)
          /\ pc' = "initialize"
          /\ UNCHANGED attemptVars
       \/ /\ ~Resumable(operation)
          /\ Created
          /\ BindAttempt(operation, requester)
          /\ pc' = IF pointer[requester] # NoId THEN "ask" ELSE "probe"
    /\ run' = [NoRun EXCEPT !.operation = operation, !.requester = requester]
    /\ UNCHANGED <<now, admittedVars, requestVars, accessVars, observed_at, faults>>

\* Before the link exists admit binds the attempt and answers 404.
AdmitMissing(operation, requester) ==
    /\ pc = "idle"
    /\ ~Created
    /\ Bound(operation, requester)
    /\ BindAttempt(operation, requester)
    /\ UNCHANGED <<now, admittedVars, pc, run, requestVars, accessVars,
                   observed_at, faults>>

-----------------------------------------------------------------------------
(* The request owners *)

Inspect(i, snapshot) ==
    IF Due(snapshot, now)
    THEN [snapshot EXCEPT !.state = "expired", !.ended_at = snapshot.deadline]
    ELSE snapshot

\* A verdict once given to an operation is given to it again.
GivenVerdict(i, operation) ==
    {v \in verdicts : v.request = i /\ v.operation = operation}

NewVerdict(i, operation) ==
    [request |-> i, operation |-> operation,
     blocking |-> Blocking(Inspect(i, requests[i])), evaluated_at |-> now]

Answered(verdict) ==
    /\ pc' = "probe"
    /\ run' = [run EXCEPT !.blocked_at =
                  IF verdict.blocking THEN verdict.evaluated_at ELSE Never]

\* eligibility of the requester's latest request, asked of its owner. An owner
\* that was never initialized knows no request, so the attempt stays open.
Ask ==
    /\ pc = "ask"
    /\ LET i == pointer[run.requester] IN
       \/ /\ requests[i].state = "absent"
          /\ Uncertain
          /\ UNCHANGED <<requestVars, faults>>
       \/ /\ requests[i].state # "absent"
          /\ \E given \in GivenVerdict(i, run.operation) : Answered(given)
          /\ UNCHANGED <<requestVars, faults>>
       \/ /\ requests[i].state # "absent"
          /\ GivenVerdict(i, run.operation) = {}
          /\ requests' = [requests EXCEPT ![i] = Inspect(i, @)]
          /\ verdicts' = verdicts \cup {NewVerdict(i, run.operation)}
          /\ \/ Answered(NewVerdict(i, run.operation)) /\ UNCHANGED faults
             \/ Disturbance /\ Uncertain
       \/ Disturbance /\ Uncertain /\ UNCHANGED requestVars
    /\ UNCHANGED <<now, attemptVars, admittedVars, accessVars, observed_at>>

\* decide and the inspections (status, tick_expire) of a request's own owner.
OwnerDecides(i) ==
    /\ requests[i].state = "pending"
    /\ \E state \in Decidable(requests[i], now) :
          requests' = [requests EXCEPT ![i].state = state,
                          ![i].ended_at = IF Due(requests[i], now)
                                          THEN requests[i].deadline ELSE now]
    /\ UNCHANGED <<now, attemptVars, admittedVars, pc, run, verdicts, accessVars,
                   observed_at, faults>>

-----------------------------------------------------------------------------
(* Deciding an attempt *)

Rejected(reason, at) ==
    [requester |-> run.requester, result |-> reason, request |-> NoId,
     decided_at |-> at]

Reject(reason, at) ==
    /\ receipts' = [receipts EXCEPT ![run.operation] = Rejected(reason, at)]
    /\ pc' = "idle"
    /\ run' = NoRun
    /\ UNCHANGED <<attempt, latest>>

\* Defect: the rejection is dated when the link learns of it.
SuppressedNow == now

\* A rejection for a live request is dated when its owner saw it alive.
SuppressedAt == run.blocked_at

Suppress ==
    /\ pc = "probe"
    /\ run.blocked_at # Never
    /\ Reject("existing_request", SuppressedAt)
    /\ UNCHANGED <<now, admittedVars, requestVars, accessVars, observed_at, faults>>

\* "needs_availability": an inactive link needs no evidence to reject.
Probe ==
    /\ pc = "probe"
    /\ run.blocked_at = Never
    /\ pc' = IF Inactive THEN "decide" ELSE "evidence"
    /\ UNCHANGED <<now, attemptVars, admittedVars, run, requestVars, accessVars,
                   observed_at, faults>>

\* Only an acceptance may rest on a retained observation, a recent one.
RetainedAvailable == observed_at # Never /\ now - observed_at < Window

\* How long an answer may take to reach the decision: 5 minutes or 1 second.
Allowance(eligibility) == IF eligibility = "available" THEN Window ELSE 1

Evident(eligibility, at) ==
    /\ run' = [run EXCEPT !.evidence =
                  [eligibility |-> eligibility,
                   valid_until |-> at + Allowance(eligibility)]]
    /\ pc' = "decide"

GatherEvidence ==
    /\ pc = "evidence"
    /\ \/ /\ RetainedAvailable
          /\ Evident("available", observed_at)
          /\ UNCHANGED <<observed_at, faults>>
       \/ /\ ~RetainedAvailable
          /\ observed_at' = IF access THEN now ELSE Never
          /\ Evident(IF access THEN "available" ELSE "unavailable", now)
          /\ UNCHANGED faults
       \/ /\ ~RetainedAvailable
          /\ Disturbance
          /\ observed_at' = Never
          /\ Evident("unknown", now)
       \/ Disturbance /\ Uncertain /\ UNCHANGED observed_at
    /\ UNCHANGED <<now, attemptVars, admittedVars, requestVars, accessVars>>

\* Defect: evidence is used whenever it arrives.
StaleNever == FALSE

\* The answer may be read long after it was given.
Stale == run.evidence # NoEvidence /\ now >= run.evidence.valid_until

\* An active link whose fresh evidence says so. No evidence at all counts as
\* available; with a clock that never runs back the link is then inactive.
Found(eligibility) ==
    /\ ~Inactive
    /\ ~Stale
    /\ eligibility = IF run.evidence = NoEvidence THEN "available"
                     ELSE run.evidence.eligibility

DecideUncertain ==
    /\ pc = "decide"
    /\ (~Inactive /\ Stale) \/ Found("unknown")
    /\ Uncertain
    /\ UNCHANGED <<now, attemptVars, admittedVars, requestVars, accessVars,
                   observed_at, faults>>

DecideReject ==
    /\ pc = "decide"
    /\ \/ Inactive /\ Reject(InactiveReason, now)
       \/ Found("unavailable") /\ Reject("unavailable", now)
    /\ UNCHANGED <<now, admittedVars, requestVars, accessVars, observed_at, faults>>

NewRequest ==
    IF link.terms.approval_required
    THEN [requester |-> run.requester, state |-> "pending",
          deadline |-> now + Lifetime, ended_at |-> Never]
    ELSE [requester |-> run.requester, state |-> "approved",
          deadline |-> NoDeadline, ended_at |-> now]

Accepted(i) ==
    [requester |-> run.requester, result |-> "accepted", request |-> i,
     decided_at |-> now]

\* One use is spent and the request is handed to its owner.
DecideAccept ==
    /\ pc = "decide"
    /\ Found("available")
    /\ link.terms.max_uses = Unlimited => link.uses < MaxRequests
    /\ LET i == link.uses + 1 IN
       /\ Publish([Revise(link) EXCEPT !.uses = i])
       /\ admission' = [admission EXCEPT ![i] = NewRequest]
       /\ pointer' = [pointer EXCEPT ![run.requester] = i]
       /\ handoff' = [handoff EXCEPT ![run.operation] = Accepted(i)]
    /\ pc' = "initialize"
    /\ UNCHANGED <<now, attemptVars, run, requestVars, accessVars, observed_at, faults>>

-----------------------------------------------------------------------------
(* Handing the request over *)

Initialized(i) ==
    IF requests[i].state = "absent"
    THEN [requests EXCEPT ![i] = admission[i]] ELSE requests

\* The call failed, before or after the owner initialized the request.
InitializeFails == Disturbance /\ Uncertain

Initialize ==
    /\ pc = "initialize"
    /\ LET i == handoff[run.operation].request IN
       \/ requests' = Initialized(i) /\ pc' = "record" /\ UNCHANGED <<run, faults>>
       \/ requests' \in {requests, Initialized(i)} /\ InitializeFails
    /\ UNCHANGED <<now, attemptVars, admittedVars, verdicts, accessVars, observed_at>>

RecordAccepted ==
    /\ pc = "record"
    /\ receipts' = [receipts EXCEPT ![run.operation] = handoff[run.operation]]
    /\ handoff' = [handoff EXCEPT ![run.operation] = NoReceipt]
    /\ pc' = "idle"
    /\ run' = NoRun
    /\ UNCHANGED <<now, attempt, latest, link, pointer, admission, outbox,
                   requestVars, accessVars, observed_at, faults>>

-----------------------------------------------------------------------------
(* The surroundings *)

Noted(at, granting) ==
    /\ granted' = IF granting THEN granted \cup {at} ELSE granted
    /\ denied' = IF granting THEN denied ELSE denied \cup {at}

Tick ==
    /\ now < MaxTime
    /\ now' = now + 1
    /\ Noted(now + 1, access)
    /\ UNCHANGED <<attemptVars, admittedVars, pc, run, requestVars, access,
                   observed_at, faults>>

\* Repositories leave the installation's scope, or it is suspended; or back.
ChangeAccess ==
    /\ Disturbance
    /\ access' = ~access
    /\ Noted(now, ~access)
    /\ UNCHANGED <<now, attemptVars, admittedVars, pc, run, requestVars, observed_at>>

\* A webhook or recheck makes the account owner look again.
Observe ==
    /\ \/ observed_at' = (IF access THEN now ELSE Never) /\ UNCHANGED faults
       \/ observed_at' = Never /\ Disturbance
    /\ UNCHANGED <<now, attemptVars, admittedVars, pc, run, requestVars, accessVars>>

-----------------------------------------------------------------------------
Proceed ==
    \/ Ask \/ Suppress \/ Probe \/ GatherEvidence
    \/ DecideUncertain \/ DecideReject \/ DecideAccept
    \/ Initialize \/ RecordAccepted

Next ==
    \/ \E terms \in Terms : Create(terms)
    \/ Revoke
    \/ UpdateMetadata
    \/ \E o \in Operation, r \in Requester :
          PrepareAttempt(o, r) \/ Admit(o, r) \/ AdmitMissing(o, r)
    \/ Proceed
    \/ \E i \in RequestId : OwnerDecides(i)
    \/ Tick
    \/ ChangeAccess
    \/ Observe

Spec == Init /\ [][Next]_vars

\* The same attempt again.
Repeat(o) == attempt[o] # None /\ Admit(o, attempt[o])

\* Restate resumes a running admit. A browser sends its attempt again until it
\* is answered, and the object's queue serves every invocation in turn, so no
\* other attempts keep it out for ever.
Fairness ==
    /\ WF_vars(Proceed)
    /\ \A o \in Operation : SF_vars(Repeat(o))

FairSpec == Spec /\ Fairness

-----------------------------------------------------------------------------
(* Properties *)

\* An operation's outcome as it stands: recorded, or accepted and handed off.
Outcome(o) == IF handoff[o].result # "none" THEN handoff[o] ELSE receipts[o]

AcceptedOps == {o \in Operation : Outcome(o).result = "accepted"}

\* Each use is spent by exactly one operation, however often its attempt is
\* repeated or its handoff interrupted, and never more than max use
\* (admit, admission.rs:455).
UsesAreSpentOnce ==
    /\ link.uses = Cardinality(AcceptedOps)
    /\ Cardinality({Outcome(o).request : o \in AcceptedOps}) = link.uses
    /\ Created /\ link.terms.max_uses # Unlimited => link.uses <= link.terms.max_uses

\* The state of an admitted request: its owner's, or until the owner is
\* initialized the one handed over.
Standing(i) == IF requests[i].state = "absent" THEN admission[i] ELSE requests[i]

Live(i) == Standing(i).state \in {"pending", "approved"}

\* Though the link was checked before the evidence was gathered and decides
\* after it, nobody is accepted at or after expiration or after revocation, nor
\* unless the installation had access to the whole scope less than the
\* observation window before (ADR 0004; admission.rs:540-546).
AcceptanceWasAllowed ==
    \A o \in AcceptedOps :
        LET at == Outcome(o).decided_at
        IN /\ link.terms.expires_at # NoExpiry => at < link.terms.expires_at
           /\ Revoked => at <= link.revoked_at
           /\ \E t \in granted : t \in (at - Window + 1)..at

\* A request of the requester stood at a time: live, or ended only later.
HeldAt(requester, at) ==
    \E i \in RequestId :
        /\ admission[i].state # "absent"
        /\ admission[i].requester = requester
        /\ Live(i) \/ Standing(i).ended_at >= at

\* A lasting rejection was true at the time it bears: one for unavailability
\* never rests on a cached or belated answer (availability.rs:538), one for an
\* existing request never on an answer given to an earlier, failed run of the
\* attempt and dated as if it were new (admission.rs:499).
RejectionWasTrue ==
    \A o \in Operation :
        /\ receipts[o].result = "unavailable" => receipts[o].decided_at \in denied
        /\ receipts[o].result = "existing_request" =>
              HeldAt(receipts[o].requester, receipts[o].decided_at)

\* The projection orders link snapshots by revision alone, so two different
\* snapshots never share one, and the newest is the link itself.
RevisionNamesLink ==
    /\ \A s, t \in outbox : s.revision = t.revision => s = t
    /\ \A s \in outbox : s.revision <= link.revision /\ s.uses <= link.uses

\* An attempt that is repeated until it is answered is answered: neither an
\* interrupted handoff nor an uncertain answer leaves it open for ever.
RepeatedIsAnswered ==
    \A o \in Operation : (Created /\ attempt[o] # None) ~> Decided(o)

-----------------------------------------------------------------------------
(* The promise of a link *)

Promise == INSTANCE AdmissionPromise WITH
    allowed <- link.terms.max_uses,
    spent <- link.uses,
    holders <- {r \in Requester : \E i \in RequestId :
                                     Live(i) /\ Standing(i).requester = r},
    closed <- Revoked

\* Whatever fails, the link and the owners of its requests together spend one
\* use per admission, never refund it, and admit nobody who holds a request.
KeepsPromise == Promise!PromiseSpec
=============================================================================
