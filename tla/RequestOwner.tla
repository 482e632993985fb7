---------------------------- MODULE RequestOwner ----------------------------
(***************************************************************************)
(* InvitationRequest/<request>: the durable object that owns the lifecycle  *)
(* of one admitted request (crates/ghinvite-workflows/src/request_owner.rs):*)
(* its decision or expiry, the manifest of an approved one, and the         *)
(* submission of that manifest to the repository deliveries.                *)
(*                                                                         *)
(* The object's exclusive handlers exclude each other. The longer ones run  *)
(* step by step, while the clock runs on and the shared handlers            *)
(* (delivery_status, delivery_progress, approved_plan) read what is stored  *)
(* so far. A crash only delays, as Restate journals every step; but an      *)
(* initialization or a decision that is given up halfway leaves what it     *)
(* stored, and its caller, who got no answer, repeats it.                   *)
(***************************************************************************)
EXTENDS RequestLifecycle

CONSTANTS
    Repo,       \* the repositories in the admitted scope
    Attempt,    \* admission operations that ask for eligibility
    Decision,   \* decision operation identities
    Reason,     \* reasons an administrator may decline with
    Lifetime,   \* PENDING_LIFETIME, as the request is admitted at time 0
    MaxTime,    \* bound on the clock
    MaxPlans,   \* bound on manifests made (one, unless one is made anew)
    MaxEarly,   \* bound on expiry timers that fire before the deadline
    MaxFaults   \* bound on handlers given up and repeated

ASSUME RequestBounds ==
    /\ "approve" \notin Reason
    /\ "none" \notin Reason
    /\ Lifetime \in Nat \ {0}
    /\ MaxTime \in Nat
    /\ MaxPlans \in Nat
    /\ MaxEarly \in Nat
    /\ MaxFaults \in Nat

VARIABLES
    now,         \* the wall clock every closure reads
    policy,      \* the handed over request waits for approval
    request,     \* "request": the current snapshot
    initialized, \* "initialized"
    plan,        \* "plan": the invitation identity per repository, or 0
    submitted,   \* "submitted/<repo>" records
    verdicts,    \* "verdict/<op>" records
    decisions,   \* "decision/<op>" records
    ticks,       \* tick_expire messages under way
    dispatching, \* a dispatch message is under way
    sends,       \* create commands sent to the repository deliveries
    outbox,      \* snapshots sent to RequestProjection
    made,        \* manifests made so far: the source of fresh identities
    pc,          \* where the running handler is
    run,         \* its task, decision operation, journaled receipt, repository
    asked,       \* what administrators decided and repeat until answered
    early,       \* timers that fired early so far
    faults       \* handlers given up so far

planVars == <<plan, made>>
sendVars == <<submitted, dispatching, sends>>
recordVars == <<initialized, verdicts, decisions>>
vars == <<now, policy, request, recordVars, planVars, sendVars, ticks, outbox,
          pc, run, asked, early, faults>>

-----------------------------------------------------------------------------
Time == 0..MaxTime
Never == -1
Action == {"approve"} \cup Reason
Command == [repo : Repo, invitation : Nat]

NoRequest == [state |-> "absent", revision |-> 0, deadline |-> NoDeadline,
              reason |-> "none", effective_at |-> Never, evaluated_at |-> Never]
NoPlan == [repo \in Repo |-> 0]
NoReceipt == [action |-> "none", request |-> NoRequest, outcome |-> "none"]
NoRun == [task |-> "none", decision |-> "none", receipt |-> NoReceipt,
          repo |-> "none"]
NoVerdict == [state |-> "none", evaluated_at |-> Never]

RequestSnapshot ==
    [state : RequestState \cup {"absent"}, revision : 0..2, deadline : Nat,
     reason : Reason \cup {"none"}, effective_at : Nat \cup {Never},
     evaluated_at : Time \cup {Never}]
DecisionReceipt ==
    [action : Action \cup {"none"}, request : RequestSnapshot,
     outcome : {"none", "applied", "already_completed", "incompatible"}]
PC == {"idle", "publish", "plan", "project", "finish", "send", "mark"}

TypeOK ==
    /\ now \in Time
    /\ policy \in BOOLEAN
    /\ request \in RequestSnapshot
    /\ initialized \in BOOLEAN
    /\ plan \in [Repo -> Nat]
    /\ submitted \subseteq Repo
    /\ verdicts \in [Attempt -> [state : RequestState \cup {"none"},
                                 evaluated_at : Time \cup {Never}]]
    /\ decisions \in [Decision -> DecisionReceipt]
    /\ ticks \in Nat
    /\ dispatching \in BOOLEAN
    /\ sends \subseteq Command
    /\ outbox \subseteq RequestSnapshot
    /\ made \in Nat
    /\ pc \in PC
    /\ run \in [task : {"none", "initialize", "decide", "dispatch"},
                decision : Decision \cup {"none"}, receipt : DecisionReceipt,
                repo : Repo \cup {"none"}]
    /\ asked \in [Decision -> Action \cup {"none"}]
    /\ early \in Nat
    /\ faults \in Nat

Init ==
    /\ now = 0
    /\ policy \in BOOLEAN
    /\ request = NoRequest
    /\ initialized = FALSE
    /\ plan = NoPlan
    /\ submitted = {}
    /\ verdicts = [a \in Attempt |-> NoVerdict]
    /\ decisions = [d \in Decision |-> NoReceipt]
    /\ ticks = 0
    /\ dispatching = FALSE
    /\ sends = {}
    /\ outbox = {}
    /\ made = 0
    /\ pc = "idle"
    /\ run = NoRun
    /\ asked = [d \in Decision |-> "none"]
    /\ early = 0
    /\ faults = 0

Recorded == request # NoRequest

Idle == pc' = "idle" /\ run' = NoRun

-----------------------------------------------------------------------------
(* Expiry *)

Expired(snapshot) ==
    [snapshot EXCEPT !.state = "expired", !.revision = @ + 1,
                     !.effective_at = snapshot.deadline, !.evaluated_at = now]

\* expire_due: one deadline transition for inspection, timers and decisions.
Current(snapshot) == IF Due(snapshot, now) THEN Expired(snapshot) ELSE snapshot

\* Defect: what an inspection finds expired is told but not kept.
KeepPending == request

\* expire: what an inspection finds expired is stored.
Keep == Current(request)

\* admin_status and request_status inspect and project.
Inspect ==
    /\ pc = "idle"
    /\ Recorded
    /\ request' = Keep
    /\ outbox' = outbox \cup {Current(request)}
    /\ UNCHANGED <<now, policy, recordVars, planVars, sendVars, ticks, pc, run,
                   asked, early, faults>>

\* Defect: the timer fires once.
RearmNever(snapshot) == FALSE

\* A timer that finds the request still pending sends itself again.
Rearm(snapshot) == snapshot.state = "pending"

\* tick_expire. Its clock may lag behind that of the timer.
TickExpire ==
    /\ pc = "idle"
    /\ ticks > 0
    /\ Rearm(Current(request)) => early < MaxEarly
    /\ request' = Keep
    /\ outbox' = outbox \cup {Current(request)}
    /\ \/ Rearm(Current(request)) /\ early' = early + 1 /\ UNCHANGED ticks
       \/ ~Rearm(Current(request)) /\ ticks' = ticks - 1 /\ UNCHANGED early
    /\ UNCHANGED <<now, policy, recordVars, planVars, sendVars, pc, run, asked, faults>>

\* eligibility: a verdict given once is given again, without a change.
Eligibility(attempt) ==
    /\ pc = "idle"
    /\ Recorded
    /\ verdicts[attempt] = NoVerdict
    /\ request' = Keep
    /\ outbox' = IF Due(request, now) THEN outbox \cup {Current(request)} ELSE outbox
    /\ verdicts' = [verdicts EXCEPT ![attempt] =
                       [state |-> Current(request).state, evaluated_at |-> now]]
    /\ UNCHANGED <<now, policy, initialized, decisions, planVars, sendVars, ticks,
                   pc, run, asked, early, faults>>

-----------------------------------------------------------------------------
(* Initialization *)

Handed ==
    IF policy
    THEN [NoRequest EXCEPT !.state = "pending", !.revision = 1,
                           !.deadline = Lifetime]
    ELSE [NoRequest EXCEPT !.state = "approved", !.revision = 1,
                           !.effective_at = 0, !.evaluated_at = 0]

\* The link hands the request over, and again until it is acknowledged.
Initialize ==
    /\ pc = "idle"
    /\ ~initialized
    /\ request' = IF Recorded THEN request ELSE Handed
    /\ pc' = "plan"
    /\ run' = [NoRun EXCEPT !.task = "initialize"]
    /\ UNCHANGED <<now, policy, recordVars, planVars, sendVars, ticks, outbox,
                   asked, early, faults>>

-----------------------------------------------------------------------------
(* Decisions *)

\* Only a request still pending at this time takes a decision.
Undecided == request.state = "pending" /\ ~Due(request, now)

\* "record_decision": the request as the decision leaves it.
DecidedRequest(action) ==
    IF Undecided
    THEN [request EXCEPT !.state = IF action = "approve" THEN "approved" ELSE "declined",
                         !.reason = IF action = "approve" THEN "none" ELSE action,
                         !.revision = @ + 1,
                         !.effective_at = now, !.evaluated_at = now]
    ELSE Current(request)

Matching(snapshot, action) ==
    IF action = "approve" THEN snapshot.state = "approved"
    ELSE snapshot.state = "declined" /\ snapshot.reason = action

\* Defect: whoever finds his decision taken is told he took it.
OutcomeMatching(action) ==
    IF Matching(DecidedRequest(action), action) THEN "applied" ELSE "incompatible"

DecisionOutcome(action) ==
    IF ~Matching(DecidedRequest(action), action) THEN "incompatible"
    ELSE IF request.state = "pending" THEN "applied" ELSE "already_completed"

\* decide, up to the journaled receipt; a recorded decision is replayed.
Decide(decision, action) ==
    /\ pc = "idle"
    /\ Recorded
    /\ decisions[decision] = NoReceipt
    /\ pc' = "publish"
    /\ run' = [NoRun EXCEPT
                  !.task = "decide", !.decision = decision,
                  !.receipt = [action |-> action, request |-> DecidedRequest(action),
                               outcome |-> DecisionOutcome(action)]]
    /\ asked' = [asked EXCEPT ![decision] = action]
    /\ UNCHANGED <<now, policy, request, recordVars, planVars, sendVars, ticks,
                   outbox, early, faults>>

\* Defect: a decision found taken needs no arrangement.
ArrangeApplied == IF run.receipt.outcome = "applied" THEN "plan" ELSE "finish"

\* Every decision arranges, also one whose effect an earlier run stored.
ArrangeNext == "plan"

\* A journaled decision binds, however late it is published.
PublishDecision ==
    /\ pc = "publish"
    /\ request' = run.receipt.request
    /\ pc' = ArrangeNext
    /\ UNCHANGED <<now, policy, recordVars, planVars, sendVars, ticks, outbox, run,
                   asked, early, faults>>

-----------------------------------------------------------------------------
(* arrange: the manifest, the projection, the dispatch *)

\* Defect: every arrangement makes a manifest.
PlanDueAlways == request.state = "approved"

PlanDue == request.state = "approved" /\ plan = NoPlan

\* "approved_manifest": one fresh invitation identity per repository.
RetainPlan ==
    /\ pc = "plan"
    /\ \/ /\ PlanDue
          /\ made < MaxPlans
          /\ made' = made + 1
          /\ plan' = [repo \in Repo |-> made + 1]
       \/ ~PlanDue /\ UNCHANGED planVars
    /\ pc' = "project"
    /\ UNCHANGED <<now, policy, request, recordVars, sendVars, ticks, outbox, run,
                   asked, early, faults>>

Arrange ==
    /\ pc = "project"
    /\ outbox' = outbox \cup {request}
    /\ dispatching' = (dispatching \/ request.state = "approved")
    /\ pc' = "finish"
    /\ UNCHANGED <<now, policy, request, recordVars, planVars, submitted, sends,
                   ticks, run, asked, early, faults>>

TimerDue == pc = "finish" /\ run.task = "initialize" /\ policy

\* The expiry timer of a manual request is sent, and initialization is done.
FinishInitialize ==
    /\ pc = "finish"
    /\ run.task = "initialize"
    /\ ticks' = ticks + (IF TimerDue THEN 1 ELSE 0)
    /\ initialized' = TRUE
    /\ Idle
    /\ UNCHANGED <<now, policy, request, verdicts, decisions, planVars, sendVars,
                   outbox, asked, early, faults>>

FinishDecide ==
    /\ pc = "finish"
    /\ run.task = "decide"
    /\ decisions' = [decisions EXCEPT ![run.decision] = run.receipt]
    /\ Idle
    /\ UNCHANGED <<now, policy, request, initialized, verdicts, planVars, sendVars,
                   ticks, outbox, asked, early, faults>>

-----------------------------------------------------------------------------
(* Dispatch *)

CommandOf(repo) == [repo |-> repo, invitation |-> plan[repo]]

Dispatch ==
    /\ pc = "idle"
    /\ dispatching
    /\ plan # NoPlan
    /\ dispatching' = FALSE
    /\ pc' = "send"
    /\ run' = [NoRun EXCEPT !.task = "dispatch"]
    /\ UNCHANGED <<now, policy, request, recordVars, planVars, submitted, sends,
                   ticks, outbox, asked, early, faults>>

\* Commands are sent one by one, those already submitted left out.
SendCommand ==
    /\ pc = "send"
    /\ \/ \E repo \in Repo \ submitted :
             /\ sends' = sends \cup {CommandOf(repo)}
             /\ pc' = "mark"
             /\ run' = [run EXCEPT !.repo = repo]
       \/ /\ submitted = Repo
          /\ UNCHANGED sends
          /\ Idle
    /\ UNCHANGED <<now, policy, request, recordVars, planVars, submitted,
                   dispatching, ticks, outbox, asked, early, faults>>

MarkSubmitted ==
    /\ pc = "mark"
    /\ submitted' = submitted \cup {run.repo}
    /\ pc' = "send"
    /\ UNCHANGED <<now, policy, request, recordVars, planVars, dispatching, sends,
                   ticks, outbox, run, asked, early, faults>>

\* recover sends the whole manifest again.
Recover ==
    /\ pc = "idle"
    /\ plan # NoPlan
    /\ sends' = sends \cup {CommandOf(repo) : repo \in Repo}
    /\ submitted' = Repo
    /\ UNCHANGED <<now, policy, request, recordVars, planVars, dispatching, ticks,
                   outbox, pc, run, asked, early, faults>>

-----------------------------------------------------------------------------
(* The surroundings *)

\* An initialization or a decision is given up; what it stored remains, and a
\* timer it may just have sent.
GiveUp ==
    /\ run.task \in {"initialize", "decide"}
    /\ faults < MaxFaults
    /\ faults' = faults + 1
    /\ Idle
    /\ ticks' \in {ticks, ticks + (IF TimerDue THEN 1 ELSE 0)}
    /\ UNCHANGED <<now, policy, request, recordVars, planVars, sendVars, outbox,
                   asked, early>>

Tick ==
    /\ now < MaxTime
    /\ now' = now + 1
    /\ UNCHANGED <<policy, request, recordVars, planVars, sendVars, ticks, outbox,
                   pc, run, asked, early, faults>>

-----------------------------------------------------------------------------
Proceed ==
    \/ PublishDecision \/ RetainPlan \/ Arrange
    \/ FinishInitialize \/ FinishDecide
    \/ SendCommand \/ MarkSubmitted

Next ==
    \/ Inspect
    \/ TickExpire
    \/ \E attempt \in Attempt : Eligibility(attempt)
    \/ Initialize
    \/ \E decision \in Decision, action \in Action : Decide(decision, action)
    \/ Proceed
    \/ Dispatch
    \/ Recover
    \/ GiveUp
    \/ Tick

Spec == Init /\ [][Next]_vars

\* The same decision again.
Repeat(decision) ==
    asked[decision] # "none" /\ Decide(decision, asked[decision])

\* Restate resumes a running handler and delivers durable messages; the link
\* repeats a handover, an administrator's browser a decision, until answered,
\* and the object's queue serves every invocation in turn.
Fairness ==
    /\ WF_vars(Tick)
    /\ WF_vars(Proceed)
    /\ SF_vars(TickExpire)
    /\ SF_vars(Dispatch)
    /\ SF_vars(Initialize)
    /\ \A d \in Decision : SF_vars(Repeat(d))

FairSpec == Spec /\ Fairness

-----------------------------------------------------------------------------
(* Properties *)

\* A decision applies only strictly before the deadline; an expired request
\* expired at the deadline, whenever that was found out, though a journaled
\* decision may be published after the deadline (expire_due, line 193).
DecidedInTime ==
    /\ policy /\ request.state \in {"approved", "declined"} =>
          request.effective_at < request.deadline
    /\ request.state = "expired" =>
          request.effective_at = request.deadline
             /\ request.deadline <= request.evaluated_at

\* At most one decision is told that it was applied, and every receipt is true
\* of the request from then on (decide, line 607).
ReceiptsAgree ==
    /\ \A d, e \in Decision :
          decisions[d].outcome = "applied" /\ decisions[e].outcome = "applied" => d = e
    /\ \A d \in Decision :
          decisions[d] # NoReceipt =>
             /\ decisions[d].request = request
             /\ decisions[d].outcome = "incompatible" <=>
                   ~Matching(request, decisions[d].action)

\* The projection treats two different snapshots of one revision as a broken
\* invariant, so an owner never sends such a pair, even if what an inspection
\* finds is found again later (expire, line 181).
RevisionNamesRequest ==
    \A s, t \in outbox : s.revision = t.revision => s = t

\* Every request handed over ends, by its deadline if by nothing else.
PendingEnds == request.state = "pending" ~> request.state \in RequestState \ {"pending"}

\* Every approved request is submitted to all its repositories.
ApprovedIsSubmitted == request.state = "approved" ~> submitted = Repo

-----------------------------------------------------------------------------
(* The promise of a request *)

Promise == INSTANCE RequestPromise WITH
    InvitationId <- Nat, standing <- request.state, ordered <- sends

\* However decisions, timers and repeated calls interleave, a request ends once
\* and each repository is ordered under one invitation identity, after approval.
KeepsPromise == Promise!PromiseSpec
=============================================================================
