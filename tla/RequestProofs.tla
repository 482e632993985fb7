---------------------------- MODULE RequestProofs ----------------------------
(***************************************************************************)
(* Theorems about RequestOwner, for every lifetime, every set of           *)
(* repositories, decisions and attempts, and every bound.                  *)
(***************************************************************************)
EXTENDS RequestOwner, TLAPS

(* The inductive invariant. A request is handed over once and changes at    *)
(* most once more; what a handler has journaled but not yet published is     *)
(* still what the request will be.                                          *)

Terminal == {"approved", "declined", "expired"}

\* How a request that waited for a decision ends.
Ended(s) ==
    /\ policy
    /\ s.revision = 2
    /\ s.deadline = Lifetime
    /\ s.state # "expired" => s.effective_at < s.deadline
    /\ s.state = "expired" =>
          s.effective_at = s.deadline /\ s.deadline <= s.evaluated_at

WellFormed(s) ==
    /\ s \in RequestSnapshot
    /\ s.state = "absent" => s = NoRequest
    /\ s.state = "pending" => s = Handed
    /\ s.state \in Terminal => s = Handed \/ Ended(s)

\* A request a handler works on, or a timer waits for, exists.
HandlersInv ==
    /\ pc # "idle" => Recorded
    /\ ticks > 0 => Recorded
    /\ pc = "publish" => run.task = "decide"
    /\ pc \in {"send", "mark"} => run.task = "dispatch"
    /\ run.task = "decide" => pc # "idle" /\ run.decision \in Decision
    /\ pc = "mark" => run.repo \in Repo

\* The receipt is true of the request that its handler leaves.
Agrees(receipt) ==
    /\ WellFormed(receipt.request)
    /\ receipt.request.state \in Terminal
    /\ receipt.outcome = "incompatible" <=> ~Matching(receipt.request, receipt.action)

JournalInv ==
    run.task = "decide" =>
        /\ Agrees(run.receipt)
        /\ pc # "publish" \/ request.state # "pending" => run.receipt.request = request
        /\ run.receipt.outcome = "applied" =>
              \A d \in Decision : decisions[d].outcome # "applied"

ReceiptsInv ==
    /\ \A d \in Decision : decisions[d] # NoReceipt =>
          Agrees(decisions[d]) /\ decisions[d].request = request
    /\ \A d, e \in Decision :
          decisions[d].outcome = "applied" /\ decisions[e].outcome = "applied" => d = e

\* What was ever sent to the projection is how the request began or ended.
OutboxInv == \A s \in outbox : Recorded /\ (s = Handed \/ s = request)

\* Only an approved request has a manifest, and each command names it.
OrdersInv ==
    /\ plan # NoPlan => request.state = "approved"
    /\ pc \in {"send", "mark"} => plan # NoPlan
    /\ \A s \in sends : plan # NoPlan /\ s.repo \in Repo /\ s = CommandOf(s.repo)

IInv ==
    /\ TypeOK
    /\ WellFormed(request)
    /\ HandlersInv
    /\ JournalInv
    /\ ReceiptsInv
    /\ OutboxInv
    /\ OrdersInv

-----------------------------------------------------------------------------
(* One step per action, used by every proof below.                          *)
LEMMA NextCases ==
    ASSUME [Next]_vars
    PROVE  \/ Inspect \/ TickExpire
           \/ \E attempt \in Attempt : Eligibility(attempt)
           \/ Initialize
           \/ \E decision \in Decision, action \in Action : Decide(decision, action)
           \/ PublishDecision \/ RetainPlan \/ Arrange
           \/ FinishInitialize \/ FinishDecide
           \/ Dispatch \/ SendCommand \/ MarkSubmitted \/ Recover
           \/ GiveUp \/ Tick
           \/ UNCHANGED vars
BY DEF Next, Proceed

LEMMA PolicyStays == [Next]_vars => policy' = policy
BY NextCases
   DEF vars, recordVars, planVars, sendVars, Inspect, TickExpire, Eligibility,
       Initialize, Decide, PublishDecision, RetainPlan, Arrange, FinishInitialize,
       FinishDecide, Dispatch, SendCommand, MarkSubmitted, Recover, GiveUp, Tick

-----------------------------------------------------------------------------
(* The snapshots the owner builds *)

LEMMA Revisions == 0 \in 0..2 /\ 1 \in 0..2 /\ 2 \in 0..2
OBVIOUS

LEMMA States == {"pending", "approved", "declined", "expired"} \subseteq RequestState
BY DEF RequestState

LEMMA NoRequestWellFormed == WellFormed(NoRequest)
<1>1. NoRequest \in RequestSnapshot
    BY Revisions DEF NoRequest, RequestSnapshot, NoDeadline
<1> QED
    BY <1>1 DEF WellFormed, NoRequest, Terminal

LEMMA HandedWellFormed ==
    ASSUME policy \in BOOLEAN
    PROVE  /\ WellFormed(Handed)
           /\ Handed.revision = 1
           /\ Handed.state \in {"pending", "approved"}
           /\ Handed.state = "pending" <=> policy
           /\ Handed.deadline = IF policy THEN Lifetime ELSE NoDeadline
           /\ Handed.reason = "none"
<1>1. Handed \in RequestSnapshot
    <2>1. NoRequest \in RequestSnapshot
        BY NoRequestWellFormed DEF WellFormed
    <2>2. [NoRequest EXCEPT !.state = "pending", !.revision = 1, !.deadline = Lifetime]
              \in RequestSnapshot
        BY <2>1, Revisions, States, RequestBounds DEF RequestSnapshot
    <2>3. [NoRequest EXCEPT !.state = "approved", !.revision = 1, !.effective_at = 0,
                            !.evaluated_at = 0] \in RequestSnapshot
        <3>1. 0 \in Time
            BY RequestBounds DEF Time
        <3> QED
            BY <2>1, <3>1, Revisions, States DEF RequestSnapshot
    <2> QED
        BY <2>2, <2>3 DEF Handed
<1>2. /\ Handed.revision = 1
      /\ Handed.state = IF policy THEN "pending" ELSE "approved"
      /\ Handed.deadline = IF policy THEN Lifetime ELSE NoDeadline
      /\ Handed.reason = "none"
    BY DEF Handed, NoRequest
<1>3. WellFormed(Handed)
    BY <1>1, <1>2 DEF WellFormed, Terminal
<1> QED
    BY <1>2, <1>3

LEMMA PendingIsHanded ==
    ASSUME TypeOK, WellFormed(request), request.state = "pending"
    PROVE  /\ policy
           /\ request = Handed
           /\ request.deadline = Lifetime
           /\ request.revision = 1
           /\ request.reason = "none"
BY HandedWellFormed DEF TypeOK, WellFormed

LEMMA CurrentWellFormed ==
    ASSUME TypeOK, WellFormed(request), Recorded
    PROVE  /\ WellFormed(Current(request))
           /\ Current(request) # NoRequest
           /\ \/ Current(request) = request
              \/ request.state = "pending" /\ Current(request).state = "expired"
           /\ Due(request, now) => Current(request).state = "expired"
<1>1. CASE ~Due(request, now)
    BY <1>1 DEF Current, Recorded
<1>2. CASE Due(request, now)
    <2>1. request.state = "pending" /\ now >= request.deadline
        BY <1>2 DEF Due
    <2>2. Current(request) = Expired(request)
        BY <1>2 DEF Current
    <2>3. /\ request \in RequestSnapshot /\ now \in Time
          /\ request.revision = 1 /\ request.deadline = Lifetime /\ policy
        BY <2>1, PendingIsHanded DEF TypeOK
    <2>4. /\ Expired(request) \in RequestSnapshot
          /\ Expired(request).state = "expired"
          /\ Ended(Expired(request))
        <3>1. /\ Expired(request).state = "expired"
              /\ Expired(request).revision = 2
              /\ Expired(request).deadline = Lifetime
              /\ Expired(request).effective_at = Lifetime
              /\ Expired(request).evaluated_at = now
            BY <2>3 DEF Expired, RequestSnapshot
        <3>2. Expired(request) \in RequestSnapshot
            <4>1. request.revision + 1 \in 0..2
                BY <2>3, Revisions
            <4> QED
                BY <2>3, <4>1, States, RequestBounds DEF Expired, RequestSnapshot
        <3> QED
            BY <2>1, <2>3, <3>1, <3>2 DEF Ended
    <2> QED
        BY <2>1, <2>2, <2>4 DEF WellFormed, NoRequest, Terminal
<1> QED
    BY <1>1, <1>2

LEMMA DecidedWellFormed ==
    ASSUME TypeOK, WellFormed(request), Recorded, NEW action \in Action
    PROVE  /\ WellFormed(DecidedRequest(action))
           /\ DecidedRequest(action).state \in Terminal
           /\ request.state # "pending" => DecidedRequest(action) = request
<1>1. CASE Undecided
    <2>1. /\ request.state = "pending" /\ ~Due(request, now)
          /\ request.revision = 1 /\ request.deadline = Lifetime /\ policy
          /\ request \in RequestSnapshot /\ now \in Time
        BY <1>1, PendingIsHanded DEF Undecided, TypeOK
    <2>2. now < Lifetime
        BY <2>1, RequestBounds DEF Due, NoDeadline, Time
    <2>3. action \in {"approve"} \cup Reason
        BY DEF Action
    <2>4. /\ DecidedRequest(action) \in RequestSnapshot
          /\ DecidedRequest(action).state \in {"approved", "declined"}
          /\ Ended(DecidedRequest(action))
        <3> DEFINE decided == DecidedRequest(action)
        <3>1. /\ decided.state \in {"approved", "declined"}
              /\ decided.revision = 2
              /\ decided.deadline = Lifetime
              /\ decided.effective_at = now
            BY <1>1, <2>1 DEF DecidedRequest, RequestSnapshot
        <3>2. now \in Nat
            BY <2>1, RequestBounds DEF Time
        <3>3. decided \in RequestSnapshot
            <4>1. request.revision + 1 \in 0..2
                BY <2>1, Revisions
            <4>2. action # "approve" => action \in Reason
                BY <2>3
            <4> QED
                BY <1>1, <2>1, <3>2, <4>1, <4>2, States DEF DecidedRequest, RequestSnapshot
        <3> QED
            BY <2>1, <2>2, <3>1, <3>3 DEF Ended
    <2> QED
        BY <2>1, <2>4 DEF WellFormed, NoRequest, Terminal
<1>2. CASE ~Undecided
    <2>1. DecidedRequest(action) = Current(request)
        BY <1>2 DEF DecidedRequest
    <2>2. request.state = "pending" => Due(request, now)
        BY <1>2 DEF Undecided
    <2>3. request.state # "absent"
        BY DEF WellFormed, Recorded
    <2>4. request.state \in RequestState
        BY <2>3 DEF WellFormed, RequestSnapshot
    <2> QED
        BY <2>1, <2>2, <2>4, CurrentWellFormed DEF RequestState, Terminal
<1> QED
    BY <1>1, <1>2

\* The receipt of a decision agrees with the request it leaves.
LEMMA DecisionAgrees ==
    ASSUME TypeOK, WellFormed(request), Recorded, NEW action \in Action,
           NEW receipt,
           receipt = [action |-> action, request |-> DecidedRequest(action),
                      outcome |-> DecisionOutcome(action)]
    PROVE  /\ receipt \in DecisionReceipt
           /\ Agrees(receipt)
           /\ receipt # NoReceipt
           /\ receipt.outcome = "applied" => request.state = "pending"
<1>1. receipt.action = action /\ receipt.request = DecidedRequest(action)
      /\ receipt.outcome = DecisionOutcome(action)
    OBVIOUS
<1>2. DecisionOutcome(action) \in {"applied", "already_completed", "incompatible"}
    BY DEF DecisionOutcome
<1>3. DecisionOutcome(action) = "incompatible" <=> ~Matching(DecidedRequest(action), action)
    BY DEF DecisionOutcome
<1>4. DecisionOutcome(action) = "applied" => request.state = "pending"
    BY DEF DecisionOutcome
<1>5. WellFormed(DecidedRequest(action)) /\ DecidedRequest(action).state \in Terminal
    BY DecidedWellFormed
<1>6. Agrees(receipt)
    BY <1>1, <1>3, <1>5 DEF Agrees
<1>7. receipt \in DecisionReceipt
    BY <1>2, <1>5 DEF DecisionReceipt, WellFormed
<1>8. receipt # NoReceipt
    BY <1>1, <1>2 DEF NoReceipt
<1> QED
    BY <1>1, <1>4, <1>6, <1>7, <1>8

-----------------------------------------------------------------------------
(* How the request changes *)

LEMMA RequestCases ==
    ASSUME IInv, [Next]_vars
    PROVE  \/ UNCHANGED request
           \/ pc = "idle" /\ Recorded /\ request' = Current(request)
           \/ pc = "idle" /\ ~Recorded /\ request' = Handed
           \/ PublishDecision
BY NextCases
   DEF IInv, HandlersInv, vars, recordVars, planVars, sendVars, Keep, Inspect, TickExpire,
       Eligibility, Initialize, Decide, RetainPlan, Arrange, FinishInitialize,
       FinishDecide, Dispatch, SendCommand, MarkSubmitted, Recover, GiveUp, Tick

LEMMA RequestChange ==
    ASSUME IInv, [Next]_vars
    PROVE  /\ WellFormed(request')
           /\ request.state \notin {"absent", "pending"} => request' = request
           /\ Recorded => request' # NoRequest
           /\ request' = request \/ request'.state \in Terminal \/ ~Recorded
<1>t. TypeOK /\ WellFormed(request) /\ policy \in BOOLEAN
    BY DEF IInv, TypeOK
<1>1. CASE UNCHANGED request
    BY <1>1, <1>t DEF Recorded
<1>2. CASE pc = "idle" /\ Recorded /\ request' = Current(request)
    BY <1>2, <1>t, CurrentWellFormed DEF Terminal
<1>3. CASE pc = "idle" /\ ~Recorded /\ request' = Handed
    BY <1>3, <1>t, HandedWellFormed DEF Recorded, NoRequest
<1>4. CASE PublishDecision
    <2>1. run.task = "decide" /\ pc = "publish" /\ request' = run.receipt.request
        BY <1>4 DEF PublishDecision, IInv, HandlersInv
    <2>2. /\ WellFormed(run.receipt.request)
          /\ run.receipt.request.state \in Terminal
          /\ request.state # "pending" => run.receipt.request = request
        BY <2>1 DEF IInv, JournalInv, Agrees
    <2> QED
        BY <2>1, <2>2 DEF Terminal, NoRequest
<1> QED
    BY <1>1, <1>2, <1>3, <1>4, RequestCases

LEMMA WellFormedNext == IInv /\ [Next]_vars => WellFormed(request)'
<1> SUFFICES ASSUME IInv, [Next]_vars PROVE WellFormed(request)'
    OBVIOUS
<1>1. WellFormed(request') /\ policy' = policy
    BY RequestChange, PolicyStays
<1> QED
    BY <1>1 DEF WellFormed, Ended, Handed

-----------------------------------------------------------------------------
(* Types *)

LEMMA InitHolds == Init => IInv
<1> SUFFICES ASSUME Init PROVE IInv
    OBVIOUS
<1>1. request = NoRequest /\ NoRequest \in RequestSnapshot /\ WellFormed(request)
    BY NoRequestWellFormed DEF Init, WellFormed
<1>2. NoReceipt \in DecisionReceipt /\ NoRun.receipt = NoReceipt
    BY <1>1 DEF NoReceipt, NoRun, DecisionReceipt
<1>3. NoVerdict \in [state : RequestState \cup {"none"}, evaluated_at : Time \cup {Never}]
    BY DEF NoVerdict
<1>4. NoRun \in [task : {"none", "initialize", "decide", "dispatch"},
                 decision : Decision \cup {"none"}, receipt : DecisionReceipt,
                 repo : Repo \cup {"none"}]
    BY <1>2 DEF NoRun
<1>5. now \in Time /\ policy \in BOOLEAN /\ initialized \in BOOLEAN /\ dispatching \in BOOLEAN
    <2>1. now = 0 /\ 0 \in Time
        BY RequestBounds DEF Init, Time
    <2>2. policy \in BOOLEAN /\ initialized \in BOOLEAN /\ dispatching \in BOOLEAN
        BY DEF Init
    <2> QED
        BY <2>1, <2>2
<1>6. /\ plan \in [Repo -> Nat]
      /\ verdicts \in [Attempt -> [state : RequestState \cup {"none"},
                                   evaluated_at : Time \cup {Never}]]
      /\ decisions \in [Decision -> DecisionReceipt]
      /\ asked \in [Decision -> Action \cup {"none"}]
    BY <1>2, <1>3 DEF Init, NoPlan
<1>7. submitted \subseteq Repo /\ sends \subseteq Command /\ outbox \subseteq RequestSnapshot
    BY DEF Init
<1>8. ticks \in Nat /\ made \in Nat /\ early \in Nat /\ faults \in Nat /\ pc \in PC
    BY DEF Init, PC
<1>9. TypeOK
    <2>1. request \in RequestSnapshot /\ submitted \subseteq Repo
        BY <1>1, <1>7
    <2>2. run \in [task : {"none", "initialize", "decide", "dispatch"},
                   decision : Decision \cup {"none"}, receipt : DecisionReceipt,
                   repo : Repo \cup {"none"}]
        BY <1>4 DEF Init
    <2> QED
        BY <1>5, <1>6, <1>7, <1>8, <2>1, <2>2, Zenon DEF TypeOK
<1>10. HandlersInv /\ JournalInv
    BY DEF Init, HandlersInv, JournalInv, NoRun
<1>11. ReceiptsInv
    <2>1. \A d \in Decision : decisions[d] = NoReceipt /\ decisions[d].outcome = "none"
        BY DEF Init, NoReceipt
    <2> QED
        BY <2>1 DEF ReceiptsInv
<1>12. OutboxInv /\ OrdersInv
    BY DEF Init, OutboxInv, OrdersInv
<1> QED
    BY <1>1, <1>9, <1>10, <1>11, <1>12 DEF IInv

Run == [task : {"none", "initialize", "decide", "dispatch"},
        decision : Decision \cup {"none"}, receipt : DecisionReceipt,
        repo : Repo \cup {"none"}]

LEMMA RunTyped ==
    /\ NoReceipt \in DecisionReceipt
    /\ NoRun \in Run
    /\ [NoRun EXCEPT !.task = "initialize"] \in Run
    /\ [NoRun EXCEPT !.task = "dispatch"] \in Run
<1>1. NoReceipt \in DecisionReceipt
    BY NoRequestWellFormed DEF NoReceipt, DecisionReceipt, WellFormed
<1> QED
    BY <1>1 DEF NoRun, Run

LEMMA CommandTyped == ASSUME TypeOK, NEW repo \in Repo PROVE CommandOf(repo) \in Command
BY DEF TypeOK, CommandOf, Command

LEMMA TypeNext == IInv /\ [Next]_vars => TypeOK'
<1> SUFFICES ASSUME IInv, [Next]_vars PROVE TypeOK'
    OBVIOUS
<1>0. TypeOK /\ run \in Run
    BY DEF IInv, TypeOK, Run
<1>r. request' \in RequestSnapshot
    BY RequestChange DEF WellFormed
<1>c. Recorded /\ pc = "idle" => Current(request) \in RequestSnapshot
    BY CurrentWellFormed DEF IInv, WellFormed
<1> USE DEF recordVars, planVars, sendVars
<1>1. CASE Inspect
    BY <1>0, <1>r, <1>c, <1>1 DEF Inspect, TypeOK
<1>2. CASE TickExpire
    <2>1. Recorded
        BY <1>2, <1>0 DEF IInv, HandlersInv, TickExpire, TypeOK
    <2>2. ticks' \in Nat /\ early' \in Nat
        BY <1>0, <1>2 DEF TickExpire, TypeOK
    <2>3. outbox' \subseteq RequestSnapshot
        BY <1>0, <1>2, <1>c, <2>1 DEF TickExpire, TypeOK
    <2> QED
        BY <1>0, <1>r, <1>2, <2>2, <2>3 DEF TickExpire, TypeOK
<1>3. ASSUME NEW attempt \in Attempt, Eligibility(attempt) PROVE TypeOK'
    <2>1. Recorded /\ pc = "idle"
        BY <1>3 DEF Eligibility
    <2>2. Current(request).state \in RequestState \cup {"none"}
        BY <2>1, CurrentWellFormed DEF IInv, WellFormed, RequestSnapshot, NoRequest
    <2>3. [state |-> Current(request).state, evaluated_at |-> now] \in
              [state : RequestState \cup {"none"}, evaluated_at : Time \cup {Never}]
        BY <1>0, <2>2 DEF TypeOK
    <2>4. verdicts' \in [Attempt -> [state : RequestState \cup {"none"},
                                     evaluated_at : Time \cup {Never}]]
        BY <1>0, <1>3, <2>3 DEF Eligibility, TypeOK
    <2>5. outbox' \subseteq RequestSnapshot
        BY <1>0, <1>c, <1>3, <2>1 DEF Eligibility, TypeOK
    <2> QED
        BY <1>0, <1>r, <1>3, <2>4, <2>5 DEF Eligibility, TypeOK
<1>4. CASE Initialize
    BY <1>0, <1>r, <1>4, RunTyped DEF Initialize, TypeOK, Run, PC
<1>5. ASSUME NEW decision \in Decision, NEW action \in Action, Decide(decision, action)
      PROVE  TypeOK'
    <2> DEFINE receipt == [action |-> action, request |-> DecidedRequest(action),
                           outcome |-> DecisionOutcome(action)]
    <2>1. receipt \in DecisionReceipt
        BY <1>0, <1>5, DecisionAgrees DEF IInv, Decide
    <2>2. [NoRun EXCEPT !.task = "decide", !.decision = decision, !.receipt = receipt] \in Run
        BY <2>1, RunTyped DEF Run
    <2>3. run' \in Run
        BY <1>5, <2>2 DEF Decide
    <2>4. asked' \in [Decision -> Action \cup {"none"}]
        BY <1>0, <1>5 DEF Decide, TypeOK
    <2>5. pc' \in PC
        BY <1>5 DEF Decide, PC
    <2> QED
        BY <1>0, <1>r, <1>5, <2>3, <2>4, <2>5 DEF Decide, TypeOK, Run
<1>6. CASE PublishDecision
    BY <1>0, <1>r, <1>6 DEF PublishDecision, ArrangeNext, TypeOK, PC
<1>7. CASE RetainPlan
    <2>1. plan' \in [Repo -> Nat] /\ made' \in Nat
        BY <1>0, <1>7 DEF RetainPlan, TypeOK
    <2> QED
        BY <1>0, <1>r, <1>7, <2>1 DEF RetainPlan, TypeOK, PC
<1>8. CASE Arrange
    BY <1>0, <1>r, <1>8 DEF Arrange, TypeOK, PC
<1>9. CASE FinishInitialize
    <2>1. ticks' \in Nat
        BY <1>0, <1>9 DEF FinishInitialize, TypeOK
    <2> QED
        BY <1>0, <1>r, <1>9, <2>1, RunTyped DEF FinishInitialize, Idle, TypeOK, Run, PC
<1>10. CASE FinishDecide
    <2>1. decisions' \in [Decision -> DecisionReceipt]
        BY <1>0, <1>10 DEF FinishDecide, TypeOK
    <2> QED
        BY <1>0, <1>r, <1>10, <2>1, RunTyped DEF FinishDecide, Idle, TypeOK, Run, PC
<1>11. CASE Dispatch
    BY <1>0, <1>r, <1>11, RunTyped DEF Dispatch, TypeOK, Run, PC
<1>12. CASE SendCommand
    <2>1. sends' \subseteq Command
        BY <1>0, <1>12, CommandTyped DEF SendCommand, TypeOK
    <2>2. run' \in Run /\ pc' \in PC
        BY <1>0, <1>12, RunTyped DEF SendCommand, Idle, Run, PC
    <2> QED
        BY <1>0, <1>r, <1>12, <2>1, <2>2 DEF SendCommand, TypeOK, Run
<1>13. CASE MarkSubmitted
    BY <1>0, <1>r, <1>13 DEF MarkSubmitted, IInv, HandlersInv, TypeOK, PC
<1>14. CASE Recover
    <2>1. sends' \subseteq Command
        BY <1>0, <1>14, CommandTyped DEF Recover, TypeOK
    <2> QED
        BY <1>0, <1>r, <1>14, <2>1 DEF Recover, TypeOK
<1>15. CASE GiveUp
    <2>1. ticks' \in Nat /\ faults' \in Nat
        BY <1>0, <1>15 DEF GiveUp, TypeOK
    <2> QED
        BY <1>0, <1>r, <1>15, <2>1, RunTyped DEF GiveUp, Idle, TypeOK, Run, PC
<1>16. CASE Tick
    <2>1. now' \in Time
        BY <1>0, <1>16, RequestBounds DEF Tick, TypeOK, Time
    <2> QED
        BY <1>0, <1>r, <1>16, <2>1 DEF Tick, TypeOK
<1>17. CASE UNCHANGED vars
    BY <1>0, <1>17 DEF vars, TypeOK
<1> QED
    BY <1>1, <1>2, <1>3, <1>4, <1>5, <1>6, <1>7, <1>8, <1>9, <1>10, <1>11, <1>12,
       <1>13, <1>14, <1>15, <1>16, <1>17, NextCases

-----------------------------------------------------------------------------
(* Handlers and what they have journaled *)

LEMMA HandlersNext == IInv /\ [Next]_vars => HandlersInv'
<1> SUFFICES ASSUME IInv, [Next]_vars PROVE HandlersInv'
    OBVIOUS
<1>0. TypeOK /\ HandlersInv /\ WellFormed(request) /\ ticks \in Nat
    BY DEF IInv, TypeOK
<1>r. Recorded => Recorded'
    BY RequestChange DEF Recorded, NoRequest, NoDeadline, Never
<1> USE DEF recordVars, planVars, sendVars, HandlersInv
<1>1. CASE Inspect \/ Recover \/ Tick \/ UNCHANGED vars
    BY <1>0, <1>r, <1>1 DEF Inspect, Recover, Tick, vars
<1>2. CASE TickExpire
    BY <1>0, <1>r, <1>2 DEF TickExpire
<1>3. ASSUME NEW attempt \in Attempt, Eligibility(attempt) PROVE HandlersInv'
    BY <1>0, <1>r, <1>3 DEF Eligibility
<1>4. CASE Initialize
    <2>1. Recorded'
        BY <1>0, <1>4, <1>r, HandedWellFormed
           DEF Initialize, Recorded, TypeOK, NoRequest, NoDeadline, Never
    <2> QED
        BY <1>0, <1>4, <2>1 DEF Initialize, NoRun
<1>5. ASSUME NEW decision \in Decision, NEW action \in Action, Decide(decision, action)
      PROVE  HandlersInv'
    BY <1>0, <1>r, <1>5 DEF Decide, NoRun
<1>6. CASE PublishDecision
    BY <1>0, <1>r, <1>6 DEF PublishDecision, ArrangeNext
<1>7. CASE RetainPlan \/ Arrange
    BY <1>0, <1>r, <1>7 DEF RetainPlan, Arrange
<1>8. CASE FinishInitialize \/ FinishDecide \/ GiveUp
    BY <1>0, <1>r, <1>8, RequestBounds
       DEF FinishInitialize, FinishDecide, GiveUp, Idle, NoRun, TimerDue
<1>9. CASE Dispatch \/ SendCommand \/ MarkSubmitted
    <2>1. CASE Dispatch
        <3>1. Recorded
            BY <2>1 DEF Dispatch, IInv, OrdersInv, Recorded, NoRequest
        <3> QED
            BY <1>0, <1>r, <2>1, <3>1 DEF Dispatch, NoRun
    <2>2. CASE SendCommand
        BY <1>0, <1>r, <2>2 DEF SendCommand, Idle, NoRun, TypeOK
    <2>3. CASE MarkSubmitted
        BY <1>0, <1>r, <2>3 DEF MarkSubmitted
    <2> QED
        BY <1>9, <2>1, <2>2, <2>3
<1> QED
    BY <1>1, <1>2, <1>3, <1>4, <1>5, <1>6, <1>7, <1>8, <1>9, NextCases

\* What a step keeps of a running decision, and of the decisions recorded.
LEMMA JournalNext == IInv /\ [Next]_vars => JournalInv'
<1> SUFFICES ASSUME IInv, [Next]_vars, run'.task = "decide"
             PROVE  /\ Agrees(run.receipt)'
                    /\ pc' # "publish" \/ request'.state # "pending" =>
                          run'.receipt.request = request'
                    /\ run'.receipt.outcome = "applied" =>
                          \A d \in Decision : decisions'[d].outcome # "applied"
    BY DEF JournalInv
<1>0. TypeOK /\ HandlersInv /\ JournalInv /\ ReceiptsInv /\ WellFormed(request)
    BY DEF IInv
<1>p. policy' = policy
    BY PolicyStays
<1>1. CASE UNCHANGED <<run, pc, request, decisions>>
    <2>1. Agrees(run.receipt)'
        BY <1>0, <1>1, <1>p DEF JournalInv, Agrees, WellFormed, Ended, Handed
    <2> QED
        BY <1>0, <1>1, <2>1 DEF JournalInv
<1>2. CASE PublishDecision \/ RetainPlan \/ Arrange
    <2>1. UNCHANGED <<run, decisions>> /\ run.task = "decide" /\ pc' # "publish"
        BY <1>2 DEF PublishDecision, RetainPlan, Arrange, ArrangeNext, recordVars
    <2>2. Agrees(run.receipt)'
        BY <1>0, <1>p, <2>1 DEF JournalInv, Agrees, WellFormed, Ended, Handed
    <2>3. run.receipt.request = request'
        BY <1>0, <1>2, <2>1 DEF JournalInv, PublishDecision, RetainPlan, Arrange
    <2> QED
        BY <1>0, <2>1, <2>2, <2>3 DEF JournalInv
<1>3. ASSUME NEW decision \in Decision, NEW action \in Action, Decide(decision, action)
      PROVE  /\ Agrees(run.receipt)'
             /\ pc' # "publish" \/ request'.state # "pending" =>
                   run'.receipt.request = request'
             /\ run'.receipt.outcome = "applied" =>
                   \A d \in Decision : decisions'[d].outcome # "applied"
    <2> DEFINE receipt == [action |-> action, request |-> DecidedRequest(action),
                           outcome |-> DecisionOutcome(action)]
    <2>1. /\ run'.receipt = receipt /\ pc' = "publish" /\ Recorded
          /\ request' = request /\ decisions' = decisions
        BY <1>3 DEF Decide, NoRun, recordVars
    <2>2. Agrees(receipt) /\ (receipt.outcome = "applied" => request.state = "pending")
        BY <1>0, <2>1, DecisionAgrees
    <2>3. Agrees(run.receipt)'
        BY <1>p, <2>1, <2>2 DEF Agrees, WellFormed, Ended, Handed
    <2>4. request.state # "pending" => receipt.request = request
        BY <1>0, <2>1, DecidedWellFormed
    <2>5. request.state = "pending" => \A d \in Decision : decisions[d].outcome # "applied"
        BY <1>0 DEF ReceiptsInv, Agrees, Terminal, NoReceipt
    <2> QED
        BY <2>1, <2>2, <2>3, <2>4, <2>5
<1>4. \/ UNCHANGED <<run, pc, request, decisions>>
      \/ PublishDecision \/ RetainPlan \/ Arrange
      \/ \E decision \in Decision, action \in Action : Decide(decision, action)
    <2>1. run' = run \/ run' = NoRun => run' = run /\ run.task = "decide" /\ pc # "idle"
        BY <1>0 DEF NoRun, HandlersInv
    <2>2. ~ (Initialize \/ FinishInitialize \/ FinishDecide \/ Dispatch \/ GiveUp)
        BY <2>1 DEF Initialize, FinishInitialize, FinishDecide, Dispatch, GiveUp, Idle, NoRun
    <2>3. ~ SendCommand
        <3>1. \A repo : [run EXCEPT !.repo = repo].task = run.task
            BY <1>0 DEF TypeOK
        <3>2. SendCommand => run' = NoRun \/ run'.task = run.task
            BY <3>1 DEF SendCommand, Idle
        <3>3. SendCommand => run.task = "dispatch"
            BY <1>0 DEF SendCommand, HandlersInv
        <3> QED
            BY <2>1, <3>2, <3>3
    <2>4. ~ (Inspect \/ TickExpire \/ Recover \/ \E attempt \in Attempt : Eligibility(attempt))
        BY <2>1 DEF Inspect, TickExpire, Recover, Eligibility
    <2>5. ~ MarkSubmitted
        BY <1>0, <2>1 DEF MarkSubmitted, HandlersInv
    <2>6. Tick \/ UNCHANGED vars => UNCHANGED <<run, pc, request, decisions>>
        BY DEF Tick, vars, recordVars
    <2> QED
        BY <2>2, <2>3, <2>4, <2>5, <2>6, NextCases
<1> QED
    BY <1>1, <1>2, <1>3, <1>4

LEMMA ReceiptsNext == IInv /\ [Next]_vars => ReceiptsInv'
<1> SUFFICES ASSUME IInv, [Next]_vars PROVE ReceiptsInv'
    OBVIOUS
<1>0. TypeOK /\ HandlersInv /\ JournalInv /\ ReceiptsInv
    BY DEF IInv
<1>p. policy' = policy
    BY PolicyStays
<1>r. request.state \in Terminal => request' = request
    BY RequestChange DEF Terminal
<1>1. CASE UNCHANGED decisions
    <2>1. ASSUME NEW d \in Decision, decisions[d] # NoReceipt
          PROVE  Agrees(decisions[d])' /\ decisions[d].request = request'
        <3>1. Agrees(decisions[d]) /\ decisions[d].request = request
            BY <1>0, <2>1 DEF ReceiptsInv
        <3>2. request' = request
            BY <1>r, <3>1 DEF Agrees
        <3> QED
            BY <1>1, <1>p, <3>1, <3>2 DEF Agrees, WellFormed, Ended, Handed
    <2> QED
        BY <1>0, <1>1, <2>1 DEF ReceiptsInv
<1>2. CASE FinishDecide
    <2>1. /\ pc = "finish" /\ run.task = "decide" /\ run.decision \in Decision
          /\ decisions' = [decisions EXCEPT ![run.decision] = run.receipt]
          /\ request' = request
        BY <1>0, <1>2 DEF FinishDecide, HandlersInv
    <2>2. /\ Agrees(run.receipt) /\ run.receipt.request = request
          /\ run.receipt.outcome = "applied" =>
                \A d \in Decision : decisions[d].outcome # "applied"
        BY <1>0, <2>1 DEF JournalInv
    <2>3. \A d \in Decision :
              decisions'[d] = IF d = run.decision THEN run.receipt ELSE decisions[d]
        BY <1>0, <2>1 DEF TypeOK
    <2>4. ASSUME NEW d \in Decision, decisions'[d] # NoReceipt
          PROVE  Agrees(decisions[d])' /\ decisions'[d].request = request'
        <3>1. Agrees(decisions'[d]) /\ decisions'[d].request = request
            BY <1>0, <2>2, <2>3, <2>4 DEF ReceiptsInv
        <3> QED
            BY <1>p, <2>1, <3>1 DEF Agrees, WellFormed, Ended, Handed
    <2>5. ASSUME NEW d \in Decision, NEW e \in Decision,
                 decisions'[d].outcome = "applied", decisions'[e].outcome = "applied"
          PROVE  d = e
        BY <1>0, <2>2, <2>3, <2>5 DEF ReceiptsInv
    <2> QED
        BY <2>4, <2>5 DEF ReceiptsInv
<1>3. UNCHANGED decisions \/ FinishDecide
    BY NextCases
       DEF vars, recordVars, planVars, sendVars, Inspect, TickExpire, Eligibility,
           Initialize, Decide, PublishDecision, RetainPlan, Arrange, FinishInitialize,
           Dispatch, SendCommand, MarkSubmitted, Recover, GiveUp, Tick
<1> QED
    BY <1>1, <1>2, <1>3

-----------------------------------------------------------------------------
(* What leaves the object: snapshots and commands *)

LEMMA OutboxNext == IInv /\ [Next]_vars => OutboxInv'
<1> SUFFICES ASSUME IInv, [Next]_vars PROVE OutboxInv'
    OBVIOUS
<1>0. OutboxInv /\ HandlersInv /\ WellFormed(request) /\ ticks \in Nat
    BY DEF IInv, TypeOK
<1>p. Handed' = Handed
    BY PolicyStays DEF Handed
<1>1. ASSUME NEW s \in outbox PROVE Recorded' /\ (s = Handed \/ s = request')
    <2>1. Recorded /\ (s = Handed \/ s = request)
        BY <1>0, <1>1 DEF OutboxInv
    <2>2. Recorded'
        BY <2>1, RequestChange DEF Recorded, NoRequest, NoDeadline, Never
    <2>3. request.state # "absent"
        BY <1>0, <2>1 DEF WellFormed, Recorded
    <2>4. request' = request \/ request = Handed
        BY <1>0, <2>3, RequestChange DEF WellFormed
    <2> QED
        BY <2>1, <2>2, <2>4
<1>2. outbox' = outbox \/ (Recorded' /\ outbox' = outbox \cup {request'})
    <2>1. CASE Inspect \/ \E attempt \in Attempt : Eligibility(attempt)
        BY <2>1, RequestChange
           DEF Inspect, Eligibility, Keep, Recorded, NoRequest, NoDeadline, Never
    <2>2. CASE TickExpire
        <3>1. Recorded
            BY <1>0, <2>2 DEF TickExpire, HandlersInv
        <3> QED
            BY <2>2, <3>1, RequestChange
               DEF TickExpire, Keep, Recorded, NoRequest, NoDeadline, Never
    <2>3. CASE Arrange
        BY <1>0, <2>3, RequestChange
           DEF Arrange, HandlersInv, Recorded, NoRequest, NoDeadline, Never
    <2>4. \/ Inspect \/ \E attempt \in Attempt : Eligibility(attempt)
          \/ TickExpire \/ Arrange \/ outbox' = outbox
        BY NextCases
           DEF vars, recordVars, planVars, sendVars,
               Initialize, Decide, PublishDecision, RetainPlan, FinishInitialize,
               FinishDecide, Dispatch, SendCommand, MarkSubmitted, Recover, GiveUp, Tick
    <2> QED
        BY <2>1, <2>2, <2>3, <2>4
<1> QED
    BY <1>p, <1>1, <1>2 DEF OutboxInv

LEMMA OrdersNext == IInv /\ [Next]_vars => OrdersInv'
<1> SUFFICES ASSUME IInv, [Next]_vars PROVE OrdersInv'
    OBVIOUS
<1>0. TypeOK /\ HandlersInv /\ OrdersInv /\ NoPlan \in [Repo -> Nat]
    BY DEF IInv, NoPlan
<1>r. request.state = "approved" => request' = request
    BY RequestChange
<1>1. CASE RetainPlan
    <2>1. CASE UNCHANGED plan
        BY <1>0, <1>1, <2>1 DEF RetainPlan, OrdersInv, CommandOf, sendVars
    <2>2. CASE PlanDue
        <3>1. sends = {} /\ request' = request /\ request.state = "approved"
            BY <1>0, <1>1, <2>2 DEF OrdersInv, PlanDue, RetainPlan
        <3> QED
            BY <1>1, <3>1 DEF RetainPlan, OrdersInv, sendVars
    <2> QED
        BY <1>1, <2>1, <2>2 DEF RetainPlan, planVars
<1>2. CASE SendCommand \/ Recover
    <2>1. plan' = plan /\ request' = request /\ plan # NoPlan
        BY <1>0, <1>2 DEF SendCommand, Recover, OrdersInv, planVars
    <2>2. \A s \in sends' : s \in sends \/ \E repo \in Repo : s = CommandOf(repo)
        BY <1>2 DEF SendCommand, Recover
    <2>3. \A s \in sends' : s.repo \in Repo /\ s = CommandOf(s.repo)
        BY <1>0, <2>2 DEF OrdersInv, CommandOf
    <2> QED
        BY <1>0, <2>1, <2>3 DEF OrdersInv, CommandOf
<1>3. CASE UNCHANGED <<plan, sends>> /\ (pc' \in {"send", "mark"} => plan # NoPlan)
    BY <1>0, <1>r, <1>3 DEF OrdersInv, CommandOf
<1>4. \/ RetainPlan \/ SendCommand \/ Recover
      \/ UNCHANGED <<plan, sends>> /\ (pc' \in {"send", "mark"} => plan # NoPlan)
    BY <1>0, NextCases
       DEF OrdersInv, vars, recordVars, planVars, sendVars, Inspect, TickExpire,
           Eligibility, Initialize, Decide, PublishDecision, Arrange, ArrangeNext,
           FinishInitialize, FinishDecide, Dispatch, MarkSubmitted, GiveUp, Tick, Idle
<1> QED
    BY <1>1, <1>2, <1>3, <1>4

-----------------------------------------------------------------------------
(* The theorems *)

LEMMA InvariantHolds == Spec => []IInv
<1>1. IInv /\ [Next]_vars => IInv'
    BY TypeNext, WellFormedNext, HandlersNext, JournalNext, ReceiptsNext, OutboxNext,
       OrdersNext DEF IInv
<1> QED
    BY InitHolds, <1>1, PTL DEF Spec

\* Every variable keeps its type; in particular a request has two revisions.
THEOREM RequestTypeOK == Spec => []TypeOK
<1>1. IInv => TypeOK
    BY DEF IInv
<1> QED
    BY <1>1, InvariantHolds, PTL

\* A decision counts only before the deadline, and expiry exactly at it, for any
\* lifetime and however late either is stored (expire_due, line 193).
THEOREM RequestDecidedInTime == Spec => []DecidedInTime
<1>1. IInv => DecidedInTime
    <2> SUFFICES ASSUME IInv PROVE DecidedInTime
        OBVIOUS
    <2>1. WellFormed(request) /\ policy \in BOOLEAN
        BY DEF IInv, TypeOK
    <2>2. request = Handed => (request.state = "approved" /\ ~policy) \/ request.state = "pending"
        BY <2>1, HandedWellFormed
    <2> QED
        BY <2>1, <2>2 DEF DecidedInTime, WellFormed, Terminal, Ended
<1> QED
    BY <1>1, InvariantHolds, PTL

\* One decision is told that it applied, and every receipt stays true (decide,
\* line 607), for any number of decisions given up and repeated.
THEOREM RequestReceiptsAgree == Spec => []ReceiptsAgree
<1>1. IInv => ReceiptsAgree
    BY DEF IInv, ReceiptsInv, Agrees, ReceiptsAgree
<1> QED
    BY <1>1, InvariantHolds, PTL

\* Two snapshots of one revision are one snapshot (expire, line 181).
THEOREM RequestRevisionNamesRequest == Spec => []RevisionNamesRequest
<1>1. IInv => RevisionNamesRequest
    <2> SUFFICES ASSUME IInv, NEW s \in outbox, NEW t \in outbox, s.revision = t.revision
                 PROVE  s = t
        BY DEF RevisionNamesRequest
    <2>1. /\ WellFormed(request) /\ Recorded
          /\ s = Handed \/ s = request
          /\ t = Handed \/ t = request
        BY DEF IInv, OutboxInv
    <2>2. Handed.revision = 1
        BY HandedWellFormed DEF IInv, TypeOK
    <2>3. request = Handed \/ request.revision = 2
        BY <2>1 DEF WellFormed, Recorded, RequestSnapshot, RequestState, Terminal, Ended
    <2> QED
        BY <2>1, <2>2, <2>3
<1> QED
    BY <1>1, InvariantHolds, PTL

\* RequestOwner implements RequestPromise: a handover is Begin, the change that
\* ends the request is End, sending commands is Order.
THEOREM RequestKeepsPromise == Spec => KeepsPromise
<1>1. Init => Promise!PromiseInit
    BY DEF Init, Promise!PromiseInit, NoRequest
<1>2. IInv /\ IInv' /\ [Next]_vars => [Promise!PromiseNext]_(Promise!promiseVars)
    <2> SUFFICES ASSUME IInv, IInv', [Next]_vars
                 PROVE  Promise!PromiseNext \/ UNCHANGED Promise!promiseVars
        OBVIOUS
    <2>1. CASE SendCommand \/ Recover
        <3>1. /\ request' = request /\ plan' = plan
              /\ request.state = "approved" /\ sends \subseteq sends'
            BY <2>1 DEF SendCommand, Recover, IInv, OrdersInv, planVars
        <3>2. /\ sends' \subseteq [repo : Repo, invitation : Nat]
              /\ \A s, t \in sends' : s.repo = t.repo => s = t
            BY <3>1 DEF IInv, TypeOK, Command, OrdersInv, CommandOf
        <3> QED
            BY <3>1, <3>2 DEF Promise!PromiseNext, Promise!Order
    <2>2. CASE UNCHANGED sends
        <3>1. CASE UNCHANGED request
            BY <2>2, <3>1 DEF Promise!promiseVars
        <3>2. CASE request' = Handed /\ ~Recorded
            <4>1. request.state = "absent" /\ request'.state \in {"pending", "approved"}
                BY <3>2, HandedWellFormed DEF Recorded, NoRequest, IInv, TypeOK
            <4> QED
                BY <2>2, <4>1 DEF Promise!PromiseNext, Promise!Begin
        <3>3. CASE Recorded /\ request' # request
            <4>1. request.state = "pending" /\ request'.state \in Terminal
                BY <3>3, RequestChange DEF IInv, WellFormed, Recorded
            <4> QED
                BY <2>2, <4>1 DEF Promise!PromiseNext, Promise!End, Terminal
        <3>4. ~Recorded /\ request' # request => request' = Handed
            BY RequestCases DEF PublishDecision, IInv, HandlersInv
        <3> QED
            BY <3>1, <3>2, <3>3, <3>4
    <2>3. SendCommand \/ Recover \/ UNCHANGED sends
        BY NextCases
           DEF vars, recordVars, planVars, sendVars, Inspect, TickExpire, Eligibility,
               Initialize, Decide, PublishDecision, RetainPlan, Arrange, FinishInitialize,
               FinishDecide, Dispatch, MarkSubmitted, GiveUp, Tick
    <2> QED
        BY <2>1, <2>2, <2>3
<1> QED
    BY InvariantHolds, <1>1, <1>2, PTL DEF Spec, KeepsPromise, Promise!PromiseSpec
=============================================================================
