--------------------------- MODULE AdmissionProofs ---------------------------
(***************************************************************************)
(* Theorems about Admission, for every set of requesters, operations and   *)
(* terms, every lifetime and window, and every bound.                      *)
(***************************************************************************)
EXTENDS Admission, FiniteSetTheorems, FunctionTheorems, TLAPS

(* The inductive invariant. Operations and uses are paired by the requests *)
(* they were accepted for; of a requester's requests only the latest can   *)
(* be live; what an attempt learned while it runs stays true, or becomes   *)
(* useless, until it decides.                                              *)

Deciding == {"ask", "probe", "evidence", "decide"}
Handing == {"initialize", "record"}
Over == {"declined", "expired"}

\* An attempt runs for an operation; a link that was not created is empty.
RunInv ==
    /\ pc = "idle" => run = NoRun
    /\ pc # "idle" => run.operation \in Operation /\ run.requester \in Requester
    /\ run.evidence.eligibility = "none" <=> run.evidence = NoEvidence
    /\ pc # "decide" => run.evidence = NoEvidence \/ pc \in Handing
    /\ pc \in {"ask", "evidence", "decide"} => run.blocked_at = Never

LinkInv ==
    /\ ~Created => link = NoLink
    /\ Created => link.terms \in Terms
    /\ link.terms.max_uses # Unlimited => link.uses <= link.terms.max_uses

TypeInv == TypeOK /\ RunInv /\ LinkInv

\* An operation is open, or handed off, or has a receipt.
OperationInv ==
    /\ \A o \in Operation :
          /\ handoff[o].result \in {"none", "accepted"}
          /\ handoff[o].result = "none" => handoff[o] = NoReceipt
          /\ Decided(o) => handoff[o].result = "none"
    /\ pc \in Deciding => handoff[run.operation].result = "none"
    /\ pc \in Handing => handoff[run.operation].result = "accepted"
    /\ pc # "idle" => ~Decided(run.operation)

\* Uses and accepted operations are paired.
Accepting(o) == Outcome(o).result = "accepted"

RequestOf == [o \in Operation |-> Outcome(o).request]

Paired(S, f, n) ==
    /\ \A o \in S : f[o] \in 1..n
    /\ \A o, p \in S : f[o] = f[p] => o = p
    /\ \A i \in 1..n : \E o \in S : f[o] = i

UseInv == Paired(AcceptedOps, RequestOf, link.uses)

\* An admitted request, its owner's or still to be handed over.
AdmittedInv ==
    \A i \in RequestId :
        /\ i <= link.uses =>
              /\ admission[i].requester \in Requester
              /\ admission[i].state \in {"pending", "approved"}
              /\ admission[i].state = "pending" => admission[i].deadline # NoDeadline
        /\ link.uses < i => admission[i].state = "absent" /\ requests[i].state = "absent"
        /\ requests[i].state = "pending" => requests[i].deadline # NoDeadline
        /\ requests[i].state # "absent" => requests[i].requester = admission[i].requester

PointerInv ==
    /\ \A r \in Requester :
          /\ pointer[r] <= link.uses
          /\ pointer[r] # NoId => admission[pointer[r]].requester = r
    /\ \A i \in RequestId : i <= link.uses =>
          \/ pointer[admission[i].requester] = i
          \/ requests[i].state \in Over

\* A request held at a time, whatever became of it since.
Held(i, at) ==
    /\ requests[i].state # "absent"
    /\ at <= now
    /\ requests[i].state = "pending" => at < requests[i].deadline
    /\ requests[i].state \in Over => at <= requests[i].ended_at

HeldBy(requester, at) ==
    \E i \in RequestId : admission[i].requester = requester /\ Held(i, at)

VerdictInv ==
    \A v \in verdicts :
        IF v.blocking THEN Held(v.request, v.evaluated_at)
        ELSE requests[v.request].state \in Over

\* What the running attempt knows of the requester's latest request.
BlockInv ==
    /\ pc = "ask" => pointer[run.requester] # NoId
    /\ pc = "probe" /\ run.blocked_at # Never => HeldBy(run.requester, run.blocked_at)
    /\ pc \in {"probe", "evidence", "decide"} /\ run.blocked_at = Never =>
          \/ pointer[run.requester] = NoId
          \/ requests[pointer[run.requester]].state \in Over

RequestInv == AdmittedInv /\ PointerInv /\ VerdictInv /\ BlockInv

\* What is known of access, and for how long it is worth something.
AccessInv ==
    /\ granted \cup denied \subseteq 0..now
    /\ IF access THEN now \in granted ELSE now \in denied
    /\ observed_at # Never => observed_at \in granted

EvidenceInv ==
    pc = "decide" =>
        /\ run.evidence = NoEvidence => Inactive
        /\ run.evidence.eligibility = "available" =>
              \E t \in granted : run.evidence.valid_until = t + Window
        /\ run.evidence.eligibility = "unavailable" =>
              \E t \in denied : run.evidence.valid_until = t + 1

\* What every outcome bears.
AllowedAt(at) ==
    /\ at <= now
    /\ link.terms.expires_at # NoExpiry => at < link.terms.expires_at
    /\ Revoked => at <= link.revoked_at
    /\ \E t \in granted : t \in (at - Window + 1)..at

OutcomeInv ==
    \A o \in Operation :
        /\ Accepting(o) => AllowedAt(Outcome(o).decided_at)
        /\ receipts[o].result = "unavailable" => receipts[o].decided_at \in denied
        /\ receipts[o].result = "existing_request" =>
              HeldBy(receipts[o].requester, receipts[o].decided_at)

\* Snapshots sent: the link itself, and older ones.
OutboxInv ==
    /\ ~Created => outbox = {}
    /\ Created => link \in outbox
    /\ \A s \in outbox : s.revision <= link.revision /\ s.uses <= link.uses
    /\ \A s, t \in outbox : s.revision = t.revision => s = t

IInv ==
    /\ TypeInv /\ OperationInv /\ UseInv /\ RequestInv
    /\ AccessInv /\ EvidenceInv /\ OutcomeInv /\ OutboxInv
-----------------------------------------------------------------------------
(* One step per action, used by every proof below.                          *)
LEMMA NextCases ==
    ASSUME [Next]_vars
    PROVE  \/ \E terms \in Terms : Create(terms)
           \/ Revoke \/ UpdateMetadata
           \/ \E o \in Operation, r \in Requester :
                 PrepareAttempt(o, r) \/ Admit(o, r) \/ AdmitMissing(o, r)
           \/ Ask \/ Suppress \/ Probe \/ GatherEvidence
           \/ DecideUncertain \/ DecideReject \/ DecideAccept
           \/ Initialize \/ RecordAccepted
           \/ \E i \in RequestId : OwnerDecides(i)
           \/ Tick \/ ChangeAccess \/ Observe
           \/ UNCHANGED vars
BY DEF Next, Proceed

-----------------------------------------------------------------------------
(* Types *)

LEMMA Values ==
    /\ Never \in Int /\ Never = -1 /\ NoId = 0 /\ NoExpiry = 0 /\ Unlimited = -1
    /\ NoDeadline = 0
    /\ Time \subseteq Nat /\ RequestId \subseteq Nat
    /\ Never \notin Nat /\ NoId \notin RequestId
    /\ 0 \in Time /\ MaxTime \in Nat /\ MaxRequests \in Nat
    /\ Lifetime \in Nat \ {0} /\ Window \in Nat \ {0}
    /\ None \notin Requester /\ None \notin Operation
BY AdmissionBounds DEF Never, NoId, NoExpiry, Unlimited, NoDeadline, Time, RequestId

LEMMA TermsOf ==
    ASSUME NEW terms \in Terms
    PROVE  /\ terms.max_uses \in 1..MaxRequests \cup {Unlimited}
           /\ terms.expires_at \in Nat
           /\ terms.approval_required \in BOOLEAN
           /\ terms.max_uses # 0
BY AdmissionBounds, Values

LEMMA NothingTyped ==
    /\ NoLink \in LinkSnapshot
    /\ NoReceipt \in Receipt
    /\ NoRequest \in RequestSnapshot
    /\ NoEvidence \in Evidence
    /\ NoRun \in [operation : SomeOperation, requester : Somebody,
                  blocked_at : Time \cup {Never}, evidence : Evidence]
<1>1. NoLink \in LinkSnapshot
    BY Values DEF NoLink, LinkSnapshot
<1>2. NoReceipt \in Receipt
    BY Values DEF NoReceipt, Receipt, Somebody
<1>3. NoRequest \in RequestSnapshot
    BY Values DEF NoRequest, RequestSnapshot, Somebody
<1>4. NoEvidence \in Evidence
    BY Values DEF NoEvidence, Evidence
<1>5. NoRun \in [operation : SomeOperation, requester : Somebody,
                 blocked_at : Time \cup {Never}, evidence : Evidence]
    BY <1>4, Values DEF NoRun, SomeOperation, Somebody
<1> QED
    BY <1>1, <1>2, <1>3, <1>4, <1>5

LEMMA InitTypes == Init => TypeInv
<1> SUFFICES ASSUME Init PROVE TypeInv
    OBVIOUS
<1>1. TypeOK
    BY NothingTyped, Values
    DEF Init, TypeOK, Somebody, SomeOperation, PC
<1>2. RunInv
    BY Values DEF Init, RunInv, NoRun, NoEvidence, Handing
<1>3. LinkInv
    BY Values DEF Init, LinkInv, Created, NoLink, NoTerms
<1> QED
    BY <1>1, <1>2, <1>3 DEF TypeInv

\* A running attempt: what it works with.
LEMMA RunTyped ==
    ASSUME TypeInv
    PROVE  /\ run.operation \in SomeOperation /\ run.requester \in Somebody
           /\ run.blocked_at \in Time \cup {Never}
           /\ run.evidence \in Evidence
           /\ pc # "idle" => run.operation \in Operation /\ run.requester \in Requester
BY DEF TypeInv, TypeOK, RunInv

LEMMA LinkTyped ==
    ASSUME TypeInv
    PROVE  /\ link = [terms |-> link.terms, uses |-> link.uses,
                      revision |-> link.revision, revoked_at |-> link.revoked_at]
           /\ link.terms \in Terms \cup {NoTerms}
           /\ link.terms.max_uses \in 0..MaxRequests \cup {Unlimited}
           /\ link.terms.expires_at \in Nat
           /\ link.terms.approval_required \in BOOLEAN
           /\ link.uses \in {NoId} \cup RequestId /\ link.uses \in 0..MaxRequests
           /\ link.revision \in Nat
           /\ link.revoked_at \in Time \cup {Never}
<1>1. link \in LinkSnapshot
    BY DEF TypeInv, TypeOK
<1>2. /\ link = [terms |-> link.terms, uses |-> link.uses,
                 revision |-> link.revision, revoked_at |-> link.revoked_at]
      /\ link.terms \in Terms \cup {NoTerms}
      /\ link.uses \in {NoId} \cup RequestId
      /\ link.revision \in Nat
      /\ link.revoked_at \in Time \cup {Never}
    BY <1>1 DEF LinkSnapshot
<1>3. link.uses \in 0..MaxRequests
    BY <1>2, Values DEF RequestId
<1>4. /\ link.terms.max_uses \in 0..MaxRequests \cup {Unlimited}
      /\ link.terms.expires_at \in Nat
      /\ link.terms.approval_required \in BOOLEAN
    <2>1. CASE link.terms \in Terms
        BY <2>1, TermsOf, Values
    <2>2. CASE link.terms = NoTerms
        BY <2>2, Values DEF NoTerms
    <2> QED
        BY <1>2, <2>1, <2>2
<1> QED
    BY <1>2, <1>3, <1>4

LEMMA RequestTyped ==
    ASSUME TypeInv, NEW i \in RequestId
    PROVE  /\ requests[i] \in RequestSnapshot /\ admission[i] \in RequestSnapshot
           /\ requests[i].requester \in Somebody
           /\ requests[i].state \in {"absent", "pending", "approved", "declined", "expired"}
           /\ requests[i].deadline \in Nat
           /\ requests[i].ended_at \in Nat \cup {Never}
           /\ admission[i].requester \in Somebody
           /\ admission[i].deadline \in Nat
<1>1. requests[i] \in RequestSnapshot /\ admission[i] \in RequestSnapshot
    BY DEF TypeInv, TypeOK
<1> QED
    BY <1>1 DEF RequestSnapshot, RequestState

\* Snapshots of the link.
LEMMA Snapshots ==
    ASSUME TypeInv
    PROVE  /\ Revise(link) \in LinkSnapshot
           /\ \A i \in RequestId : [Revise(link) EXCEPT !.uses = i] \in LinkSnapshot
           /\ [Revise(link) EXCEPT !.revoked_at = now] \in LinkSnapshot
           /\ \A terms \in Terms :
                 [terms |-> terms, uses |-> 0, revision |-> 1, revoked_at |-> Never]
                     \in LinkSnapshot
<1>1. link \in LinkSnapshot /\ now \in Time
    BY DEF TypeInv, TypeOK
<1>2. Revise(link) \in LinkSnapshot
    BY <1>1 DEF LinkSnapshot, Revise
<1>3. ASSUME NEW s \in LinkSnapshot
      PROVE  /\ \A i \in RequestId : [s EXCEPT !.uses = i] \in LinkSnapshot
             /\ [s EXCEPT !.revoked_at = now] \in LinkSnapshot
    BY <1>1 DEF LinkSnapshot
<1>4. ASSUME NEW terms \in Terms
      PROVE  [terms |-> terms, uses |-> 0, revision |-> 1, revoked_at |-> Never]
                 \in LinkSnapshot
    BY Values DEF LinkSnapshot
<1> QED
    BY <1>2, <1>3, <1>4

LEMMA PublishTyped ==
    ASSUME TypeInv, NEW s \in LinkSnapshot, Publish(s)
    PROVE  link' \in LinkSnapshot /\ outbox' \subseteq LinkSnapshot
BY DEF Publish, TypeInv, TypeOK

LEMMA LinkStepTypes ==
    ASSUME TypeInv,
           (\E terms \in Terms : Create(terms)) \/ Revoke \/ UpdateMetadata
    PROVE  TypeInv'
<1>1. ASSUME NEW terms \in Terms, Create(terms) PROVE TypeInv'
    <2>1. TypeOK'
        BY <1>1, Snapshots, PublishTyped DEF Create, TypeInv, TypeOK, attemptVars,
           requestVars, accessVars
    <2>2. RunInv'
        BY <1>1 DEF Create, TypeInv, RunInv
    <2>3. LinkInv'
        BY <1>1, TermsOf, Values DEF Create, Publish, LinkInv, Created
    <2> QED
        BY <2>1, <2>2, <2>3 DEF TypeInv
<1>2. ASSUME Revoke PROVE TypeInv'
    <2>1. TypeOK'
        BY <1>2, Snapshots, PublishTyped DEF Revoke, TypeInv, TypeOK, attemptVars,
           requestVars, accessVars
    <2>2. RunInv'
        BY <1>2 DEF Revoke, TypeInv, RunInv
    <2>3. LinkInv'
        BY <1>2, LinkTyped DEF Revoke, Publish, Revise, TypeInv, LinkInv, Created
    <2> QED
        BY <2>1, <2>2, <2>3 DEF TypeInv
<1>3. ASSUME UpdateMetadata PROVE TypeInv'
    <2>1. TypeOK'
        BY <1>3, Snapshots, PublishTyped DEF UpdateMetadata, TypeInv, TypeOK, attemptVars,
           requestVars, accessVars
    <2>2. RunInv'
        BY <1>3 DEF UpdateMetadata, TypeInv, RunInv
    <2>3. LinkInv'
        BY <1>3, LinkTyped DEF UpdateMetadata, Publish, Revise, TypeInv, LinkInv, Created
    <2> QED
        BY <2>1, <2>2, <2>3 DEF TypeInv
<1> QED
    BY <1>1, <1>2, <1>3

LEMMA AttemptStepTypes ==
    ASSUME TypeInv, NEW o \in Operation, NEW r \in Requester,
           PrepareAttempt(o, r) \/ Admit(o, r) \/ AdmitMissing(o, r)
    PROVE  TypeInv'
<1>1. BindAttempt(o, r) =>
          attempt' \in [Operation -> Somebody] /\ latest' \in [Requester -> SomeOperation]
    BY DEF BindAttempt, TypeInv, TypeOK, Somebody, SomeOperation
<1>2. ASSUME PrepareAttempt(o, r) \/ AdmitMissing(o, r) PROVE TypeInv'
    <2>1. TypeOK'
        BY <1>1, <1>2 DEF PrepareAttempt, AdmitMissing, BindAttempt, TypeInv, TypeOK,
           admittedVars, requestVars, accessVars
    <2>2. RunInv' /\ LinkInv'
        BY <1>2 DEF PrepareAttempt, AdmitMissing, TypeInv, RunInv, LinkInv, Created,
           admittedVars
    <2> QED
        BY <2>1, <2>2 DEF TypeInv
<1>3. ASSUME Admit(o, r) PROVE TypeInv'
    <2>1. /\ run' \in [operation : SomeOperation, requester : Somebody,
                       blocked_at : Time \cup {Never}, evidence : Evidence]
          /\ run'.operation = o /\ run'.requester = r
          /\ run'.blocked_at = Never /\ run'.evidence = NoEvidence
        <3>1. run' = [operation |-> o, requester |-> r, blocked_at |-> Never,
                      evidence |-> NoEvidence]
            BY <1>3 DEF Admit, NoRun
        <3> QED
            BY <3>1, NothingTyped, Values DEF SomeOperation, Somebody
    <2>2. pc' \in {"initialize", "ask", "probe"}
        BY <1>3 DEF Admit
    <2>3. attempt' \in [Operation -> Somebody] /\ latest' \in [Requester -> SomeOperation]
        BY <1>1, <1>3 DEF Admit, attemptVars, TypeInv, TypeOK
    <2>4. TypeOK'
        BY <1>3, <2>1, <2>2, <2>3 DEF Admit, BindAttempt, TypeInv, TypeOK, attemptVars,
           admittedVars, requestVars, accessVars, PC
    <2>5. RunInv'
        BY <2>1, <2>2 DEF RunInv, NoEvidence, Handing
    <2>6. LinkInv'
        BY <1>3 DEF Admit, TypeInv, LinkInv, Created, admittedVars
    <2> QED
        BY <2>4, <2>5, <2>6 DEF TypeInv
<1> QED
    BY <1>2, <1>3

\* The request owners' records after a step of theirs.
LEMMA InspectTyped ==
    ASSUME TypeInv, NEW i \in RequestId
    PROVE  /\ Inspect(i, requests[i]) \in RequestSnapshot
           /\ Inspect(i, requests[i]).requester = requests[i].requester
           /\ Inspect(i, requests[i]).deadline = requests[i].deadline
<1>1. requests[i] \in RequestSnapshot
    BY RequestTyped
<1>2. \A s \in RequestSnapshot :
          /\ [s EXCEPT !.state = "expired", !.ended_at = s.deadline] \in RequestSnapshot
          /\ [s EXCEPT !.state = "expired", !.ended_at = s.deadline].requester = s.requester
          /\ [s EXCEPT !.state = "expired", !.ended_at = s.deadline].deadline = s.deadline
    BY Values DEF RequestSnapshot, RequestState
<1> QED
    BY <1>1, <1>2 DEF Inspect

LEMMA VerdictTyped ==
    ASSUME TypeInv, NEW i \in RequestId, NEW o \in Operation
    PROVE  /\ NewVerdict(i, o) \in Verdict
           /\ GivenVerdict(i, o) \subseteq Verdict
BY DEF NewVerdict, GivenVerdict, Blocking, Verdict, TypeInv, TypeOK

LEMMA UncertainTypes ==
    ASSUME TypeInv, Uncertain
    PROVE  /\ pc' = "idle" /\ run' = NoRun /\ pc' \in PC
           /\ run' \in [operation : SomeOperation, requester : Somebody,
                        blocked_at : Time \cup {Never}, evidence : Evidence]
           /\ RunInv'
BY NothingTyped, Values DEF Uncertain, PC, RunInv, NoRun, NoEvidence, Handing

LEMMA AnsweredTypes ==
    ASSUME TypeInv, pc = "ask", NEW v \in Verdict, Answered(v)
    PROVE  /\ pc' = "probe" /\ pc' \in PC
           /\ run' = [run EXCEPT !.blocked_at = IF v.blocking THEN v.evaluated_at ELSE Never]
           /\ run' \in [operation : SomeOperation, requester : Somebody,
                        blocked_at : Time \cup {Never}, evidence : Evidence]
           /\ RunInv'
<1>1. v.evaluated_at \in Time
    BY DEF Verdict
<1>2. run \in [operation : SomeOperation, requester : Somebody,
               blocked_at : Time \cup {Never}, evidence : Evidence]
    BY DEF TypeInv, TypeOK
<1> DEFINE at == IF v.blocking THEN v.evaluated_at ELSE Never
<1>3. /\ run' = [run EXCEPT !.blocked_at = at]
      /\ run' \in [operation : SomeOperation, requester : Somebody,
                   blocked_at : Time \cup {Never}, evidence : Evidence]
      /\ run'.operation = run.operation /\ run'.requester = run.requester
      /\ run'.evidence = run.evidence
    BY <1>1, <1>2 DEF Answered
<1>4. pc' = "probe"
    BY DEF Answered
<1>5. RunInv'
    BY <1>3, <1>4 DEF TypeInv, RunInv, Handing
<1> QED
    BY <1>3, <1>4, <1>5 DEF PC

LEMMA AskTypes == TypeInv /\ BlockInv /\ Ask => TypeInv'
<1> SUFFICES ASSUME TypeInv, BlockInv, Ask PROVE TypeInv'
    OBVIOUS
<1> DEFINE i == pointer[run.requester]
<1>1. pc = "ask" /\ run.operation \in Operation /\ run.requester \in Requester
    BY RunTyped DEF Ask
<1>2. i \in RequestId
    BY <1>1 DEF TypeInv, TypeOK, BlockInv
<1>3. /\ pc' \in PC
      /\ run' \in [operation : SomeOperation, requester : Somebody,
                   blocked_at : Time \cup {Never}, evidence : Evidence]
      /\ RunInv'
    BY <1>1, <1>2, UncertainTypes, AnsweredTypes, VerdictTyped DEF Ask
<1>4. requests' \in [RequestId -> RequestSnapshot] /\ verdicts' \subseteq Verdict
    BY <1>1, <1>2, InspectTyped, VerdictTyped DEF Ask, TypeInv, TypeOK, requestVars
<1>5. faults' \in Nat
    BY DEF Ask, Disturbance, TypeInv, TypeOK
<1>6. TypeOK'
    BY <1>3, <1>4, <1>5 DEF Ask, TypeInv, TypeOK, attemptVars, admittedVars, accessVars
<1>7. LinkInv'
    BY DEF Ask, TypeInv, LinkInv, Created, admittedVars
<1> QED
    BY <1>3, <1>6, <1>7 DEF TypeInv

\* What a decision leaves of a request.
LEMMA DecidedTyped ==
    ASSUME TypeInv, NEW i \in RequestId, NEW state \in Decidable(requests[i], now),
           requests[i].state = "pending"
    PROVE  [requests[i] EXCEPT !.state = state,
               !.ended_at = IF Due(requests[i], now) THEN requests[i].deadline ELSE now]
               \in RequestSnapshot
<1>1. requests[i] \in RequestSnapshot /\ now \in Nat
    BY RequestTyped, Values DEF TypeInv, TypeOK
<1>2. state \in {"approved", "declined", "expired"}
    BY DEF Decidable, Inspected, Due
<1>3. ASSUME NEW s \in RequestSnapshot, NEW at \in Nat
      PROVE  [s EXCEPT !.state = state, !.ended_at = at] \in RequestSnapshot
    BY <1>2 DEF RequestSnapshot, RequestState
<1>4. requests[i].deadline \in Nat
    BY RequestTyped
<1> QED
    BY <1>1, <1>3, <1>4

LEMMA OwnerTypes ==
    ASSUME TypeInv, NEW i \in RequestId, OwnerDecides(i)
    PROVE  TypeInv'
<1>1. PICK state \in Decidable(requests[i], now) :
          requests' = [requests EXCEPT ![i] =
              [requests[i] EXCEPT !.state = state,
                  !.ended_at = IF Due(requests[i], now) THEN requests[i].deadline ELSE now]]
    BY DEF OwnerDecides, TypeInv, TypeOK
<1>2. requests' \in [RequestId -> RequestSnapshot]
    BY <1>1, DecidedTyped DEF OwnerDecides, TypeInv, TypeOK
<1>3. TypeOK'
    BY <1>2 DEF OwnerDecides, TypeInv, TypeOK, attemptVars, admittedVars, accessVars
<1>4. RunInv' /\ LinkInv'
    BY DEF OwnerDecides, TypeInv, RunInv, LinkInv, Created, admittedVars
<1> QED
    BY <1>3, <1>4 DEF TypeInv

LEMMA RejectTypes ==
    ASSUME TypeInv, pc # "idle", NEW reason \in Rejection, NEW at \in Time,
           Reject(reason, at)
    PROVE  /\ receipts' \in [Operation -> Receipt]
           /\ pc' \in PC /\ RunInv'
           /\ run' \in [operation : SomeOperation, requester : Somebody,
                        blocked_at : Time \cup {Never}, evidence : Evidence]
<1>1. Rejected(reason, at) \in Receipt
    BY RunTyped DEF Rejected, Receipt
<1>2. Uncertain
    BY DEF Reject, Uncertain
<1> QED
    BY <1>1, <1>2, UncertainTypes, RunTyped DEF Reject, TypeInv, TypeOK

LEMMA RejectionTypes == TypeInv /\ (Suppress \/ DecideReject) => TypeInv'
<1> SUFFICES ASSUME TypeInv, Suppress \/ DecideReject PROVE TypeInv'
    OBVIOUS
<1>1. \E reason \in Rejection, at \in Time : pc # "idle" /\ Reject(reason, at)
    <2>1. CASE Suppress
        BY <2>1, RunTyped DEF Suppress, SuppressedAt, Rejection
    <2>2. CASE DecideReject
        <3>1. InactiveReason \in Rejection /\ "unavailable" \in Rejection
            BY DEF InactiveReason, Rejection
        <3>2. now \in Time
            BY DEF TypeInv, TypeOK
        <3> QED
            BY <2>2, <3>1, <3>2 DEF DecideReject
    <2> QED
        BY <2>1, <2>2
<1>2. /\ receipts' \in [Operation -> Receipt]
      /\ pc' \in PC /\ RunInv'
      /\ run' \in [operation : SomeOperation, requester : Somebody,
                   blocked_at : Time \cup {Never}, evidence : Evidence]
      /\ UNCHANGED <<attempt, latest>>
    BY <1>1, RejectTypes DEF Reject
<1>3. TypeOK'
    BY <1>2 DEF Suppress, DecideReject, TypeInv, TypeOK, admittedVars, requestVars, accessVars
<1>4. LinkInv'
    BY DEF Suppress, DecideReject, TypeInv, LinkInv, Created, admittedVars
<1> QED
    BY <1>2, <1>3, <1>4 DEF TypeInv

LEMMA EvidentTypes ==
    ASSUME TypeInv, pc = "evidence", NEW e \in Eligibility, NEW at \in Time, Evident(e, at)
    PROVE  /\ pc' = "decide" /\ pc' \in PC
           /\ run'.operation = run.operation /\ run'.requester = run.requester
           /\ run'.blocked_at = run.blocked_at
           /\ run'.evidence = [eligibility |-> e, valid_until |-> at + Allowance(e)]
           /\ run' \in [operation : SomeOperation, requester : Somebody,
                        blocked_at : Time \cup {Never}, evidence : Evidence]
           /\ RunInv'
<1>1. at + Allowance(e) \in Nat
    BY Values DEF Allowance
<1>2. [eligibility |-> e, valid_until |-> at + Allowance(e)] \in Evidence
    BY <1>1 DEF Evidence
<1>3. run \in [operation : SomeOperation, requester : Somebody,
               blocked_at : Time \cup {Never}, evidence : Evidence]
    BY DEF TypeInv, TypeOK
<1>4. /\ run'.operation = run.operation /\ run'.requester = run.requester
      /\ run'.blocked_at = run.blocked_at
      /\ run'.evidence = [eligibility |-> e, valid_until |-> at + Allowance(e)]
      /\ run' \in [operation : SomeOperation, requester : Somebody,
                   blocked_at : Time \cup {Never}, evidence : Evidence]
    BY <1>2, <1>3 DEF Evident
<1>5. e # "none"
    BY DEF Eligibility
<1>6. pc' = "decide"
    BY DEF Evident
<1>7. RunInv'
    BY <1>4, <1>5, <1>6 DEF TypeInv, RunInv, NoEvidence
<1> QED
    BY <1>4, <1>6, <1>7 DEF PC

LEMMA GatherTypes == TypeInv /\ GatherEvidence => TypeInv'
<1> SUFFICES ASSUME TypeInv, GatherEvidence PROVE TypeInv'
    OBVIOUS
<1>1. \/ Uncertain
      \/ \E e \in Eligibility, at \in Time : Evident(e, at)
    <2>1. {"available", "unavailable", "unknown"} \subseteq Eligibility
        BY DEF Eligibility
    <2>2. now \in Time /\ (RetainedAvailable => observed_at \in Time)
        BY DEF TypeInv, TypeOK, RetainedAvailable
    <2> QED
        BY <2>1, <2>2 DEF GatherEvidence
<1>2. /\ pc' \in PC /\ RunInv'
      /\ run' \in [operation : SomeOperation, requester : Somebody,
                   blocked_at : Time \cup {Never}, evidence : Evidence]
    BY <1>1, UncertainTypes, EvidentTypes DEF GatherEvidence
<1>3. observed_at' \in Time \cup {Never} /\ faults' \in Nat
    BY DEF GatherEvidence, Disturbance, TypeInv, TypeOK
<1>4. TypeOK'
    BY <1>2, <1>3 DEF GatherEvidence, TypeInv, TypeOK, attemptVars, admittedVars,
       requestVars, accessVars
<1>5. LinkInv'
    BY DEF GatherEvidence, TypeInv, LinkInv, Created, admittedVars
<1> QED
    BY <1>2, <1>4, <1>5 DEF TypeInv

LEMMA WaitTypes == TypeInv /\ (Probe \/ DecideUncertain) => TypeInv'
<1>1. ASSUME TypeInv, Probe PROVE TypeInv'
    <2>1. TypeOK'
        BY <1>1 DEF Probe, TypeInv, TypeOK, PC, attemptVars, admittedVars, requestVars,
           accessVars
    <2>2. RunInv' /\ LinkInv'
        BY <1>1 DEF Probe, TypeInv, RunInv, LinkInv, Created, admittedVars, Handing
    <2> QED
        BY <2>1, <2>2 DEF TypeInv
<1>2. ASSUME TypeInv, DecideUncertain PROVE TypeInv'
    <2>1. Uncertain
        BY <1>2 DEF DecideUncertain
    <2>2. TypeOK'
        BY <1>2, <2>1, UncertainTypes DEF DecideUncertain, TypeInv, TypeOK, attemptVars,
           admittedVars, requestVars, accessVars
    <2>3. LinkInv'
        BY <1>2 DEF DecideUncertain, TypeInv, LinkInv, Created, admittedVars
    <2> QED
        BY <1>2, <2>1, <2>2, <2>3, UncertainTypes DEF TypeInv
<1> QED
    BY <1>1, <1>2

\* An acceptance, field by field.
LEMMA AcceptEffect ==
    ASSUME TypeInv, DecideAccept
    PROVE  /\ pc = "decide" /\ pc' = "initialize" /\ run' = run
           /\ run.operation \in Operation /\ run.requester \in Requester
           /\ link.uses + 1 \in RequestId
           /\ Created /\ link.terms \in Terms /\ ~Inactive
           /\ link' \in LinkSnapshot
           /\ link'.terms = link.terms /\ link'.uses = link.uses + 1
           /\ link'.revision = link.revision + 1 /\ link'.revoked_at = link.revoked_at
           /\ outbox' = outbox \cup {link'}
           /\ NewRequest \in RequestSnapshot
           /\ NewRequest.requester = run.requester
           /\ NewRequest.state \in {"pending", "approved"}
           /\ NewRequest.state = "pending" => NewRequest.deadline # NoDeadline
           /\ admission' = [admission EXCEPT ![link.uses + 1] = NewRequest]
           /\ pointer' = [pointer EXCEPT ![run.requester] = link.uses + 1]
           /\ handoff' = [handoff EXCEPT ![run.operation] = Accepted(link.uses + 1)]
           /\ Accepted(link.uses + 1) \in Receipt
           /\ Accepted(link.uses + 1).result = "accepted"
           /\ Accepted(link.uses + 1).request = link.uses + 1
           /\ Accepted(link.uses + 1).decided_at = now
<1>1. /\ pc = "decide" /\ pc' = "initialize" /\ run' = run
      /\ run.operation \in Operation /\ run.requester \in Requester
    BY RunTyped DEF DecideAccept
<1>2. ~Inactive
    BY DEF DecideAccept, Found
<1>3. Created /\ link.terms \in Terms
    <2>1. Created
        BY <1>2 DEF TypeInv, LinkInv, Inactive, Exhausted, NoLink, NoTerms, Unlimited
    <2> QED
        BY <2>1 DEF TypeInv, LinkInv
<1>4. link.uses + 1 \in RequestId
    <2>1. CASE link.terms.max_uses = Unlimited
        BY <2>1, LinkTyped, Values DEF DecideAccept, RequestId
    <2>2. CASE link.terms.max_uses # Unlimited
        <3>1. link.uses < link.terms.max_uses /\ link.terms.max_uses <= MaxRequests
            BY <1>2, <1>3, <2>2, LinkTyped, TermsOf, Values DEF Inactive, Exhausted
        <3> QED
            BY <3>1, <1>3, <2>2, LinkTyped, TermsOf, Values DEF RequestId
    <2> QED
        BY <2>1, <2>2
<1>5. link' = [Revise(link) EXCEPT !.uses = link.uses + 1]
    BY DEF DecideAccept, Publish
<1>6. /\ link' \in LinkSnapshot
      /\ link'.terms = link.terms /\ link'.uses = link.uses + 1
      /\ link'.revision = link.revision + 1 /\ link'.revoked_at = link.revoked_at
    BY <1>4, <1>5, Snapshots, LinkTyped DEF Revise
<1>7. /\ NewRequest \in RequestSnapshot
      /\ NewRequest.requester = run.requester
      /\ NewRequest.state \in {"pending", "approved"}
      /\ NewRequest.state = "pending" => NewRequest.deadline # NoDeadline
    <2>1. now \in Nat /\ now + Lifetime \in Nat /\ now + Lifetime # NoDeadline
        BY Values DEF TypeInv, TypeOK
    <2>2. run.requester \in Somebody
        BY <1>1 DEF Somebody
    <2>3. CASE link.terms.approval_required
        BY <2>1, <2>2, <2>3 DEF NewRequest, RequestSnapshot, RequestState
    <2>4. CASE ~link.terms.approval_required
        BY <2>1, <2>2, <2>4, Values DEF NewRequest, RequestSnapshot, RequestState
    <2> QED
        BY <2>3, <2>4
<1>8. /\ Accepted(link.uses + 1) \in Receipt
      /\ Accepted(link.uses + 1).result = "accepted"
      /\ Accepted(link.uses + 1).request = link.uses + 1
      /\ Accepted(link.uses + 1).decided_at = now
    BY <1>1, <1>4 DEF Accepted, Receipt, Somebody, TypeInv, TypeOK
<1>9. /\ outbox' = outbox \cup {link'}
      /\ admission' = [admission EXCEPT ![link.uses + 1] = NewRequest]
      /\ pointer' = [pointer EXCEPT ![run.requester] = link.uses + 1]
      /\ handoff' = [handoff EXCEPT ![run.operation] = Accepted(link.uses + 1)]
    BY DEF DecideAccept, Publish
<1> QED
    BY <1>1, <1>2, <1>3, <1>4, <1>6, <1>7, <1>8, <1>9

LEMMA AcceptTypes == TypeInv /\ DecideAccept => TypeInv'
<1> SUFFICES ASSUME TypeInv, DecideAccept PROVE TypeInv'
    OBVIOUS
<1>1. /\ link' \in LinkSnapshot /\ outbox' \subseteq LinkSnapshot
      /\ admission' \in [RequestId -> RequestSnapshot]
      /\ pointer' \in [Requester -> {NoId} \cup RequestId]
      /\ handoff' \in [Operation -> Receipt]
      /\ pc' \in PC
    BY AcceptEffect DEF TypeInv, TypeOK, PC
<1>2. TypeOK'
    BY <1>1 DEF DecideAccept, TypeInv, TypeOK, attemptVars, requestVars, accessVars
<1>3. RunInv'
    BY AcceptEffect DEF TypeInv, RunInv, Handing
<1>4. LinkInv'
    <2>1. Created'
        BY AcceptEffect, LinkTyped DEF Created
    <2>2. link.terms.max_uses # Unlimited =>
              link.uses + 1 <= link.terms.max_uses
        BY AcceptEffect, LinkTyped, TermsOf, Values DEF Inactive, Exhausted
    <2> QED
        BY <2>1, <2>2, AcceptEffect DEF LinkInv
<1> QED
    BY <1>2, <1>3, <1>4 DEF TypeInv

\* Handing over: the owner has the request, or has not yet.
LEMMA InitializeEffect ==
    ASSUME TypeInv, OperationInv, UseInv, Initialize
    PROVE  /\ pc = "initialize" /\ run.operation \in Operation
           /\ handoff[run.operation].result = "accepted"
           /\ handoff[run.operation].request \in RequestId
           /\ handoff[run.operation].request <= link.uses
           /\ \/ requests' = requests
              \/ requests' = Initialized(handoff[run.operation].request)
           /\ \/ pc' = "record" /\ UNCHANGED run
              \/ Uncertain
           /\ faults' \in Nat
<1>1. pc = "initialize" /\ run.operation \in Operation
    BY RunTyped DEF Initialize
<1>2. handoff[run.operation].result = "accepted"
    BY <1>1 DEF OperationInv, Handing
<1>3. handoff[run.operation].request \in 1..link.uses
    BY <1>1, <1>2 DEF UseInv, Paired, AcceptedOps, RequestOf, Outcome
<1>4. /\ handoff[run.operation].request \in RequestId
      /\ handoff[run.operation].request <= link.uses
    BY <1>3, LinkTyped, Values DEF RequestId
<1>5. faults' \in Nat
    BY DEF Initialize, InitializeFails, Disturbance, TypeInv, TypeOK
<1> QED
    BY <1>1, <1>2, <1>4, <1>5 DEF Initialize, InitializeFails

LEMMA InitializeTypes == TypeInv /\ OperationInv /\ UseInv /\ Initialize => TypeInv'
<1> SUFFICES ASSUME TypeInv, OperationInv, UseInv, Initialize PROVE TypeInv'
    OBVIOUS
<1>1. requests' \in [RequestId -> RequestSnapshot]
    BY InitializeEffect, RequestTyped DEF Initialized, TypeInv, TypeOK
<1>2. /\ pc' \in PC /\ RunInv'
      /\ run' \in [operation : SomeOperation, requester : Somebody,
                   blocked_at : Time \cup {Never}, evidence : Evidence]
    <2>1. CASE Uncertain
        BY <2>1, UncertainTypes
    <2>2. CASE pc' = "record" /\ UNCHANGED run
        BY <2>2, InitializeEffect DEF TypeInv, TypeOK, RunInv, PC, Handing
    <2> QED
        BY <2>1, <2>2, InitializeEffect
<1>3. TypeOK'
    BY <1>1, <1>2, InitializeEffect DEF Initialize, TypeInv, TypeOK, attemptVars,
       admittedVars, accessVars
<1>4. LinkInv'
    BY DEF Initialize, TypeInv, LinkInv, Created, admittedVars
<1> QED
    BY <1>2, <1>3, <1>4 DEF TypeInv

LEMMA RecordTypes == TypeInv /\ RecordAccepted => TypeInv'
<1> SUFFICES ASSUME TypeInv, RecordAccepted PROVE TypeInv'
    OBVIOUS
<1>1. Uncertain /\ run.operation \in Operation
    BY RunTyped DEF RecordAccepted, Uncertain
<1>2. receipts' \in [Operation -> Receipt] /\ handoff' \in [Operation -> Receipt]
    BY <1>1, NothingTyped DEF RecordAccepted, TypeInv, TypeOK
<1>3. TypeOK'
    BY <1>1, <1>2, UncertainTypes DEF RecordAccepted, TypeInv, TypeOK, requestVars,
       accessVars
<1>4. LinkInv'
    BY DEF RecordAccepted, TypeInv, LinkInv, Created
<1> QED
    BY <1>1, <1>3, <1>4, UncertainTypes DEF TypeInv

LEMMA SurroundingTypes ==
    TypeInv /\ (Tick \/ ChangeAccess \/ Observe \/ UNCHANGED vars) => TypeInv'
<1> SUFFICES ASSUME TypeInv, Tick \/ ChangeAccess \/ Observe \/ UNCHANGED vars
             PROVE  TypeInv'
    OBVIOUS
<1>1. now \in Time /\ (now < MaxTime => now + 1 \in Time)
    BY Values DEF TypeInv, TypeOK, Time
<1>2. TypeOK'
    <2>1. CASE Tick
        BY <1>1, <2>1 DEF Tick, Noted, TypeInv, TypeOK, attemptVars, admittedVars, requestVars
    <2>2. CASE ChangeAccess
        BY <1>1, <2>2 DEF ChangeAccess, Noted, Disturbance, TypeInv, TypeOK, attemptVars,
           admittedVars, requestVars
    <2>3. CASE Observe
        BY <1>1, <2>3 DEF Observe, Disturbance, TypeInv, TypeOK, attemptVars,
           admittedVars, requestVars, accessVars
    <2>4. CASE UNCHANGED vars
        BY <2>4 DEF vars, TypeInv, TypeOK, attemptVars, admittedVars, requestVars, accessVars
    <2> QED
        BY <2>1, <2>2, <2>3, <2>4
<1>3. UNCHANGED <<pc, run, link>>
    BY DEF Tick, ChangeAccess, Observe, vars, admittedVars
<1>4. RunInv' /\ LinkInv'
    BY <1>3 DEF TypeInv, RunInv, LinkInv, Created
<1> QED
    BY <1>2, <1>4 DEF TypeInv

LEMMA TypesStay == IInv /\ [Next]_vars => TypeInv'
<1> SUFFICES ASSUME IInv, [Next]_vars PROVE TypeInv'
    OBVIOUS
<1>1. TypeInv /\ OperationInv /\ UseInv /\ BlockInv
    BY DEF IInv, RequestInv
<1> QED
    BY <1>1, NextCases, LinkStepTypes, AttemptStepTypes, AskTypes, OwnerTypes,
       RejectionTypes, GatherTypes, WaitTypes, AcceptTypes, InitializeTypes, RecordTypes,
       SurroundingTypes

-----------------------------------------------------------------------------
(* Operations and uses *)

\* Most steps change no operation's outcome and spend no use.
Quiet == UNCHANGED <<receipts, handoff, admission, pointer>>

LEMMA Quietly ==
    ASSUME \/ \E terms \in Terms : Create(terms)
           \/ Revoke \/ UpdateMetadata
           \/ \E o \in Operation, r \in Requester :
                 PrepareAttempt(o, r) \/ Admit(o, r) \/ AdmitMissing(o, r)
           \/ Ask \/ Probe \/ GatherEvidence \/ DecideUncertain \/ Initialize
           \/ \E i \in RequestId : OwnerDecides(i)
           \/ Tick \/ ChangeAccess \/ Observe
           \/ UNCHANGED vars
    PROVE  Quiet
BY DEF Quiet, Create, Revoke, UpdateMetadata, PrepareAttempt, Admit, AdmitMissing, Ask,
   Probe, GatherEvidence, DecideUncertain, Initialize, OwnerDecides, Tick, ChangeAccess,
   Observe, BindAttempt, vars, attemptVars, admittedVars

\* The running attempt stays where it is, goes on, or ends.
Goes ==
    \/ UNCHANGED <<pc, run>>
    \/ pc' = "idle" /\ run' = NoRun
    \/ /\ run'.operation = run.operation /\ run'.requester = run.requester
       /\ <<pc, pc'>> \in (Deciding \X Deciding) \cup (Handing \X Handing)
    \/ /\ pc = "idle" /\ run'.operation \in Operation
       /\ ~Decided(run'.operation)
       /\ pc' \in IF Resumable(run'.operation) THEN {"initialize"} ELSE Deciding

LEMMA Going ==
    ASSUME TypeInv,
           \/ \E terms \in Terms : Create(terms)
           \/ Revoke \/ UpdateMetadata
           \/ \E o \in Operation, r \in Requester :
                 PrepareAttempt(o, r) \/ Admit(o, r) \/ AdmitMissing(o, r)
           \/ Ask \/ Probe \/ GatherEvidence \/ DecideUncertain \/ Initialize
           \/ \E i \in RequestId : OwnerDecides(i)
           \/ Tick \/ ChangeAccess \/ Observe
           \/ UNCHANGED vars
    PROVE  Goes
<1>1. ASSUME NEW o \in Operation, NEW r \in Requester, Admit(o, r) PROVE Goes
    <2>1. run' = [operation |-> o, requester |-> r, blocked_at |-> Never,
                  evidence |-> NoEvidence]
        BY <1>1 DEF Admit, NoRun
    <2> QED
        BY <1>1, <2>1 DEF Admit, Goes, Deciding
<1>2. ASSUME Ask PROVE Goes
    <2>1. run \in [operation : SomeOperation, requester : Somebody,
                   blocked_at : Time \cup {Never}, evidence : Evidence]
        BY DEF TypeInv, TypeOK
    <2>2. ASSUME NEW v, Answered(v) PROVE Goes
        BY <1>2, <2>1, <2>2 DEF Ask, Answered, Goes, Deciding
    <2> QED
        BY <1>2, <2>2 DEF Ask, Uncertain, Goes
<1>3. ASSUME GatherEvidence PROVE Goes
    <2>1. run \in [operation : SomeOperation, requester : Somebody,
                   blocked_at : Time \cup {Never}, evidence : Evidence]
        BY DEF TypeInv, TypeOK
    <2>2. ASSUME NEW e, NEW at, Evident(e, at) PROVE Goes
        BY <1>3, <2>1, <2>2 DEF GatherEvidence, Evident, Goes, Deciding
    <2> QED
        BY <1>3, <2>2 DEF GatherEvidence, Uncertain, Goes
<1>4. Probe \/ DecideUncertain \/ Initialize => Goes
    BY DEF Probe, DecideUncertain, Initialize, InitializeFails, Uncertain, Goes, Deciding, Handing
<1>5. \/ \E terms \in Terms : Create(terms)
      \/ Revoke \/ UpdateMetadata
      \/ \E o \in Operation, r \in Requester : PrepareAttempt(o, r) \/ AdmitMissing(o, r)
      \/ \E i \in RequestId : OwnerDecides(i)
      \/ Tick \/ ChangeAccess \/ Observe
      \/ UNCHANGED vars
      => Goes
    BY DEF Goes, Create, Revoke, UpdateMetadata, PrepareAttempt, AdmitMissing,
       OwnerDecides, Tick, ChangeAccess, Observe, vars
<1> QED
    BY <1>1, <1>2, <1>3, <1>4, <1>5

\* A rejection, of an operation that was open.
LEMMA RejectEffect ==
    ASSUME TypeInv, OperationInv, Suppress \/ DecideReject
    PROVE  /\ run.operation \in Operation /\ run.requester \in Requester
           /\ pc \in Deciding /\ pc' = "idle" /\ run' = NoRun
           /\ receipts[run.operation].result = "none"
           /\ handoff[run.operation].result = "none"
           /\ UNCHANGED <<handoff, admission, pointer, link>>
           /\ \E reason \in Rejection, at \in Time :
                 /\ receipts' = [receipts EXCEPT ![run.operation] = Rejected(reason, at)]
                 /\ Rejected(reason, at).result = reason
                 /\ Rejected(reason, at).requester = run.requester
                 /\ Rejected(reason, at).decided_at = at
                 /\ Suppress => reason = "existing_request" /\ at = run.blocked_at
                 /\ DecideReject => at = now /\ reason # "existing_request"
                 /\ DecideReject /\ reason = "unavailable" => Found("unavailable")
<1>1. pc \in Deciding /\ pc # "idle"
    BY DEF Suppress, DecideReject, Deciding
<1>2. run.operation \in Operation /\ run.requester \in Requester
    BY <1>1, RunTyped
<1>3. receipts[run.operation].result = "none" /\ handoff[run.operation].result = "none"
    BY <1>1 DEF OperationInv, Decided
<1>4. pc' = "idle" /\ run' = NoRun
    BY DEF Suppress, DecideReject, Reject
<1>5. UNCHANGED <<handoff, admission, pointer, link>>
    BY DEF Suppress, DecideReject, admittedVars
<1>6. \A reason \in Rejection, at \in Time :
          /\ Rejected(reason, at).result = reason
          /\ Rejected(reason, at).requester = run.requester
          /\ Rejected(reason, at).decided_at = at
    BY DEF Rejected
<1>7. \E reason \in Rejection, at \in Time :
          /\ receipts' = [receipts EXCEPT ![run.operation] = Rejected(reason, at)]
          /\ Suppress => reason = "existing_request" /\ at = run.blocked_at
          /\ DecideReject => at = now /\ reason # "existing_request"
          /\ DecideReject /\ reason = "unavailable" => Found("unavailable")
    <2>1. now \in Time
        BY DEF TypeInv, TypeOK
    <2>2. CASE Suppress
        <3>1. pc = "probe" /\ run.blocked_at \in Time
            BY <2>2, RunTyped DEF Suppress
        <3>2. "existing_request" \in Rejection
            BY DEF Rejection
        <3>3. receipts' = [receipts EXCEPT ![run.operation] =
                               Rejected("existing_request", run.blocked_at)]
            BY <2>2 DEF Suppress, SuppressedAt, Reject
        <3>4. ~DecideReject
            BY <3>1 DEF DecideReject
        <3> QED
            BY <3>1, <3>2, <3>3, <3>4
    <2>3. CASE DecideReject
        <3>1. ~Suppress
            BY <2>3 DEF Suppress, DecideReject
        <3>2. CASE Inactive /\ Reject(InactiveReason, now)
            <4>1. InactiveReason \in Rejection \ {"existing_request", "unavailable"}
                BY DEF InactiveReason, Rejection
            <4> QED
                BY <2>1, <3>1, <3>2, <4>1 DEF Reject
        <3>3. CASE Found("unavailable") /\ Reject("unavailable", now)
            <4>1. "unavailable" \in Rejection \ {"existing_request"}
                BY DEF Rejection
            <4> QED
                BY <2>1, <3>1, <3>3, <4>1 DEF Reject
        <3> QED
            BY <2>3, <3>2, <3>3 DEF DecideReject
    <2> QED
        BY <2>2, <2>3
<1> QED
    BY <1>1, <1>2, <1>3, <1>4, <1>5, <1>6, <1>7

LEMMA OperationsStay == TypeInv /\ OperationInv /\ [Next]_vars => OperationInv'
<1> SUFFICES ASSUME TypeInv, OperationInv, [Next]_vars PROVE OperationInv'
    OBVIOUS
<1>1. ASSUME Quiet, Goes PROVE OperationInv'
    BY <1>1, RunTyped DEF Quiet, Goes, OperationInv, Decided, Resumable, Deciding, Handing
<1>2. ASSUME Suppress \/ DecideReject PROVE OperationInv'
    <2>1. PICK x : /\ receipts' = [receipts EXCEPT ![run.operation] = x]
                   /\ x.result \in Rejection
        BY <1>2, RejectEffect
    <2> QED
        BY <1>2, <2>1, RejectEffect DEF OperationInv, Decided, Deciding, Handing, TypeInv, TypeOK
<1>3. ASSUME DecideAccept PROVE OperationInv'
    <2>1. receipts' = receipts
        BY <1>3 DEF DecideAccept, attemptVars
    <2>2. ~Decided(run.operation)
        BY <1>3, AcceptEffect DEF OperationInv
    <2> QED
        BY <1>3, <2>1, <2>2, AcceptEffect DEF OperationInv, Decided, Deciding, Handing, TypeInv, TypeOK
<1>4. ASSUME RecordAccepted PROVE OperationInv'
    <2>1. run.operation \in Operation /\ pc' = "idle"
        BY <1>4, RunTyped DEF RecordAccepted
    <2>2. NoReceipt.result = "none"
        BY DEF NoReceipt
    <2> QED
        BY <1>4, <2>1, <2>2 DEF RecordAccepted, OperationInv, Decided, Deciding, Handing, TypeInv, TypeOK
<1> QED
    BY <1>1, <1>2, <1>3, <1>4, NextCases, Quietly, Going

\* The outcome of each operation and the uses, over a step.
OutcomesStay == \A o \in Operation : Outcome(o)' = Outcome(o)

LEMMA QuietOutcomes == Quiet => OutcomesStay
BY DEF Quiet, OutcomesStay, Outcome

LEMMA OutcomesKeepPairs ==
    OutcomesStay => AcceptedOps' = AcceptedOps /\ RequestOf' = RequestOf
BY DEF OutcomesStay, AcceptedOps, RequestOf

LEMMA RejectOutcomes ==
    ASSUME TypeInv, OperationInv, Suppress \/ DecideReject
    PROVE  /\ \A o \in Operation \ {run.operation} : Outcome(o)' = Outcome(o)
           /\ run.operation \notin AcceptedOps
           /\ AcceptedOps' = AcceptedOps
           /\ \A o \in AcceptedOps : RequestOf'[o] = RequestOf[o]
           /\ UNCHANGED link
<1>1. PICK x : /\ receipts' = [receipts EXCEPT ![run.operation] = x]
               /\ x.result \in Rejection
    BY RejectEffect
<1>2. x.result # "accepted"
    BY <1>1 DEF Rejection
<1>3. /\ \A o \in Operation \ {run.operation} : receipts'[o] = receipts[o]
      /\ receipts'[run.operation] = x
      /\ handoff' = handoff /\ UNCHANGED link
      /\ handoff[run.operation].result = "none"
      /\ receipts[run.operation].result = "none"
    BY <1>1, RejectEffect DEF TypeInv, TypeOK
<1>4. \A o \in Operation \ {run.operation} : Outcome(o)' = Outcome(o)
    BY <1>3 DEF Outcome
<1>5. run.operation \notin AcceptedOps /\ run.operation \notin AcceptedOps'
    BY <1>2, <1>3 DEF Outcome, AcceptedOps
<1>6. AcceptedOps' = AcceptedOps
    BY <1>4, <1>5 DEF AcceptedOps
<1>7. \A o \in AcceptedOps : RequestOf'[o] = RequestOf[o]
    BY <1>4, <1>5 DEF AcceptedOps, RequestOf
<1> QED
    BY <1>3, <1>4, <1>5, <1>6, <1>7

LEMMA RecordOutcomes ==
    ASSUME TypeInv, OperationInv, RecordAccepted
    PROVE  OutcomesStay /\ UNCHANGED link
<1>1. run.operation \in Operation /\ handoff[run.operation].result = "accepted"
    BY RunTyped DEF RecordAccepted, OperationInv, Handing
<1>2. NoReceipt.result = "none"
    BY DEF NoReceipt
<1> QED
    BY <1>1, <1>2 DEF RecordAccepted, OutcomesStay, Outcome, TypeInv, TypeOK

LEMMA AcceptOutcomes ==
    ASSUME TypeInv, OperationInv, DecideAccept
    PROVE  /\ \A o \in Operation \ {run.operation} : Outcome(o)' = Outcome(o)
           /\ ~Accepting(run.operation)
           /\ Outcome(run.operation)' = Accepted(link.uses + 1)
<1>1. receipts' = receipts
    BY DEF DecideAccept, attemptVars
<1>2. handoff[run.operation].result = "none" /\ receipts[run.operation].result = "none"
    BY AcceptEffect DEF OperationInv, Decided, Deciding
<1> QED
    BY <1>1, <1>2, AcceptEffect DEF Outcome, Accepting, TypeInv, TypeOK

\* Uses are changed by acceptances only.
LEMMA UsesStay ==
    ASSUME TypeInv, [Next]_vars, ~DecideAccept
    PROVE  link'.uses = link.uses
<1>1. ASSUME NEW terms \in Terms, Create(terms) PROVE link'.uses = link.uses
    BY <1>1 DEF Create, Creatable, Publish, TypeInv, LinkInv, NoLink
<1>2. Revoke \/ UpdateMetadata => link'.uses = link.uses
    BY LinkTyped DEF Revoke, UpdateMetadata, Publish, Revise
<1> QED
    BY <1>1, <1>2, NextCases
    DEF PrepareAttempt, Admit, AdmitMissing, Ask, Suppress, Probe, GatherEvidence,
        DecideUncertain, DecideReject, Initialize, RecordAccepted, OwnerDecides, Tick,
        ChangeAccess, Observe, vars, admittedVars

\* One more pair.
LEMMA PairMore ==
    ASSUME NEW n \in Nat, NEW S, NEW f, NEW g, NEW x, Paired(S, f, n), x \notin S,
           \A o \in S : g[o] = f[o], NEW m, m = n + 1, g[x] = m
    PROVE  Paired(S \cup {x}, g, m)
<1>1. \A o \in S \cup {x} : g[o] \in 1..(n + 1)
    BY DEF Paired
<1>2. \A o, p \in S \cup {x} : g[o] = g[p] => o = p
    BY DEF Paired
<1>3. ASSUME NEW i \in 1..(n + 1) PROVE \E o \in S \cup {x} : g[o] = i
    <2>1. CASE i = n + 1
        BY <2>1
    <2>2. CASE i \in 1..n
        BY <2>2 DEF Paired
    <2> QED
        BY <2>1, <2>2
<1> QED
    BY <1>1, <1>2, <1>3 DEF Paired

LEMMA UsesPaired ==
    TypeInv /\ OperationInv /\ UseInv /\ [Next]_vars => UseInv'
<1> SUFFICES ASSUME TypeInv, OperationInv, UseInv, [Next]_vars PROVE UseInv'
    OBVIOUS
<1>1. ASSUME OutcomesStay, ~DecideAccept PROVE UseInv'
    BY <1>1, OutcomesKeepPairs, UsesStay DEF UseInv
<1>2. ASSUME Suppress \/ DecideReject PROVE UseInv'
    <2> QED
        BY <1>2, RejectOutcomes DEF UseInv, Paired
<1>3. ASSUME DecideAccept PROVE UseInv'
    <2>1. /\ AcceptedOps' = AcceptedOps \cup {run.operation}
          /\ run.operation \notin AcceptedOps
          /\ \A o \in AcceptedOps : RequestOf'[o] = RequestOf[o]
          /\ RequestOf'[run.operation] = link.uses + 1
        BY <1>3, AcceptEffect, AcceptOutcomes DEF AcceptedOps, RequestOf, Accepting
    <2>2. link.uses \in Nat /\ link'.uses = link.uses + 1
        BY <1>3, AcceptEffect, LinkTyped
    <2>3. Paired(AcceptedOps, RequestOf, link.uses)
        BY DEF UseInv
    <2>4. Paired(AcceptedOps \cup {run.operation}, RequestOf', link'.uses)
        BY <2>1, <2>2, <2>3, PairMore
    <2> QED
        BY <2>1, <2>4 DEF UseInv
<1> QED
    BY <1>1, <1>2, <1>3, NextCases, Quietly, QuietOutcomes, RecordOutcomes

-----------------------------------------------------------------------------
(* Requests *)

\* How a request may change: it ends, is approved, or reaches its owner.
Ends(s, t) ==
    /\ s.state = "pending" /\ s.deadline # NoDeadline
    /\ t.requester = s.requester
    /\ \/ /\ t.state = "expired" /\ t.ended_at = s.deadline
       \/ /\ t.state = "declined" /\ t.ended_at = now

Approves(s, t) ==
    s.state = "pending" /\ t.state = "approved" /\ t.requester = s.requester

Moves(i) ==
    \/ requests'[i] = requests[i]
    \/ Ends(requests[i], requests'[i])
    \/ Approves(requests[i], requests'[i])
    \/ requests[i].state = "absent" /\ i <= link.uses /\ requests'[i] = admission[i]

\* What an inspection leaves.
LEMMA InspectEffect ==
    ASSUME TypeInv, AdmittedInv, NEW i \in RequestId
    PROVE  \/ ~Due(requests[i], now) /\ Inspect(i, requests[i]) = requests[i]
           \/ Ends(requests[i], Inspect(i, requests[i])) /\ Inspect(i, requests[i]).state = "expired"
<1>1. requests[i] \in RequestSnapshot
    BY RequestTyped
<1>2. \A s \in RequestSnapshot :
          /\ [s EXCEPT !.state = "expired", !.ended_at = s.deadline].state = "expired"
          /\ [s EXCEPT !.state = "expired", !.ended_at = s.deadline].ended_at = s.deadline
          /\ [s EXCEPT !.state = "expired", !.ended_at = s.deadline].requester = s.requester
    BY DEF RequestSnapshot
<1> QED
    BY <1>1, <1>2 DEF Inspect, Due, Ends

LEMMA AskEffect ==
    ASSUME TypeInv, RequestInv, Ask
    PROVE  /\ run.operation \in Operation /\ run.requester \in Requester
           /\ pointer[run.requester] \in RequestId
           /\ admission[pointer[run.requester]].requester = run.requester
           /\ \/ requestVars' = requestVars
              \/ /\ requests' = [requests EXCEPT ![pointer[run.requester]] =
                                     Inspect(pointer[run.requester], @)]
                 /\ verdicts' = verdicts \cup
                        {NewVerdict(pointer[run.requester], run.operation)}
                 /\ requests[pointer[run.requester]].state # "absent"
<1>1. run.operation \in Operation /\ run.requester \in Requester
    BY RunTyped DEF Ask
<1>2. pointer[run.requester] \in RequestId
    BY <1>1 DEF Ask, RequestInv, BlockInv, TypeInv, TypeOK
<1>3. pointer[run.requester] # NoId
    BY DEF Ask, RequestInv, BlockInv
<1>4. admission[pointer[run.requester]].requester = run.requester
    BY <1>1, <1>3 DEF RequestInv, PointerInv
<1> QED
    BY <1>1, <1>2, <1>4 DEF Ask, requestVars

LEMMA OwnerEffect ==
    ASSUME TypeInv, AdmittedInv, NEW i \in RequestId, OwnerDecides(i)
    PROVE  /\ \A j \in RequestId \ {i} : requests'[j] = requests[j]
           /\ Ends(requests[i], requests'[i]) \/ Approves(requests[i], requests'[i])
<1>1. PICK state \in Decidable(requests[i], now) :
          requests' = [requests EXCEPT ![i] =
              [requests[i] EXCEPT !.state = state,
                  !.ended_at = IF Due(requests[i], now) THEN requests[i].deadline ELSE now]]
    BY DEF OwnerDecides, TypeInv, TypeOK
<1> DEFINE at == IF Due(requests[i], now) THEN requests[i].deadline ELSE now
<1>2. /\ requests[i].state = "pending" /\ requests[i].deadline # NoDeadline
      /\ requests[i] \in RequestSnapshot
    BY RequestTyped DEF OwnerDecides, AdmittedInv
<1>3. \/ Due(requests[i], now) /\ state = "expired" /\ at = requests[i].deadline
      \/ ~Due(requests[i], now) /\ state \in {"approved", "declined"} /\ at = now
    BY <1>2 DEF Decidable, Inspected, Due
<1>4. requests'[i] = [requests[i] EXCEPT !.state = state, !.ended_at = at]
    BY <1>1 DEF TypeInv, TypeOK
<1>5. /\ requests'[i].state = state /\ requests'[i].ended_at = at
      /\ requests'[i].requester = requests[i].requester
    BY <1>2, <1>4 DEF RequestSnapshot
<1>6. \A j \in RequestId \ {i} : requests'[j] = requests[j]
    BY <1>1 DEF TypeInv, TypeOK
<1> HIDE DEF at
<1>7. Ends(requests[i], requests'[i]) \/ Approves(requests[i], requests'[i])
    BY <1>2, <1>3, <1>5 DEF Ends, Approves
<1> QED
    BY <1>6, <1>7

LEMMA Moving ==
    ASSUME IInv, [Next]_vars
    PROVE  \A i \in RequestId : Moves(i)
<1>1. TypeInv /\ OperationInv /\ UseInv /\ RequestInv /\ AdmittedInv
    BY DEF IInv, RequestInv
<1>2. ASSUME Ask PROVE \A i \in RequestId : Moves(i)
    <2>1. PICK j \in RequestId :
              requests' = requests \/ requests' = [requests EXCEPT ![j] = Inspect(j, requests[j])]
        BY <1>1, <1>2, AskEffect DEF requestVars, TypeInv, TypeOK
    <2>2. Inspect(j, requests[j]) = requests[j] \/ Ends(requests[j], Inspect(j, requests[j]))
        BY <1>1, InspectEffect
    <2> QED
        BY <1>1, <2>1, <2>2 DEF Moves, TypeInv, TypeOK
<1>3. ASSUME NEW j \in RequestId, OwnerDecides(j) PROVE \A i \in RequestId : Moves(i)
    BY <1>1, <1>3, OwnerEffect DEF Moves
<1>4. ASSUME Initialize PROVE \A i \in RequestId : Moves(i)
    BY <1>1, <1>4, InitializeEffect DEF Initialized, Moves, TypeInv, TypeOK
<1>5. requests' = requests => \A i \in RequestId : Moves(i)
    BY DEF Moves
<1> QED
    BY <1>2, <1>3, <1>4, <1>5, NextCases
    DEF Create, Revoke, UpdateMetadata, PrepareAttempt, Admit, AdmitMissing, Suppress,
        Probe, GatherEvidence, DecideUncertain, DecideReject, DecideAccept,
        RecordAccepted, Tick, ChangeAccess, Observe, vars, requestVars

\* The clock, and what the link keeps of its requests.
LEMMA ClockRuns == TypeInv /\ [Next]_vars => now' >= now /\ now' \in Nat /\ now \in Nat
<1> SUFFICES ASSUME TypeInv, [Next]_vars PROVE now' >= now /\ now' \in Nat /\ now \in Nat
    OBVIOUS
<1>1. now \in Nat
    BY Values DEF TypeInv, TypeOK
<1>2. now' = now \/ now' = now + 1
    BY NextCases
    DEF Create, Revoke, UpdateMetadata, PrepareAttempt, Admit, AdmitMissing, Ask,
        Suppress, Probe, GatherEvidence, DecideUncertain, DecideReject, DecideAccept,
        Initialize, RecordAccepted, OwnerDecides, Tick, ChangeAccess, Observe, vars
<1> QED
    BY <1>1, <1>2

LEMMA AdmissionsStay ==
    [Next]_vars => DecideAccept \/ UNCHANGED <<admission, pointer>>
BY NextCases, Quietly
DEF Quiet, Suppress, DecideReject, RecordAccepted, admittedVars

\* Uses and admissions over any step.
LEMMA AdmissionsGrow ==
    ASSUME TypeInv, [Next]_vars
    PROVE  /\ link'.uses \in {link.uses, link.uses + 1}
           /\ \A i \in RequestId : i <= link.uses => admission'[i] = admission[i]
           /\ ~DecideAccept => link'.uses = link.uses /\ UNCHANGED <<admission, pointer>>
<1>1. ~DecideAccept => link'.uses = link.uses /\ UNCHANGED <<admission, pointer>>
    BY UsesStay, AdmissionsStay
<1>2. ASSUME DecideAccept
      PROVE  /\ link'.uses = link.uses + 1
             /\ \A i \in RequestId : i <= link.uses => admission'[i] = admission[i]
    BY <1>2, AcceptEffect, LinkTyped, Values DEF TypeInv, TypeOK
<1> QED
    BY <1>1, <1>2

LEMMA AdmittedStays == IInv /\ [Next]_vars => AdmittedInv'
<1> SUFFICES ASSUME IInv, [Next]_vars, NEW i \in RequestId
             PROVE /\ i <= link'.uses =>
                          /\ admission'[i].requester \in Requester
                          /\ admission'[i].state \in {"pending", "approved"}
                          /\ admission'[i].state = "pending" =>
                                 admission'[i].deadline # NoDeadline
                   /\ link'.uses < i => admission'[i].state = "absent"
                                        /\ requests'[i].state = "absent"
                   /\ requests'[i].state = "pending" => requests'[i].deadline # NoDeadline
                   /\ requests'[i].state # "absent" =>
                          requests'[i].requester = admission'[i].requester
    BY DEF AdmittedInv
<1>1. TypeInv /\ AdmittedInv /\ Moves(i)
    BY Moving DEF IInv, RequestInv
<1>2. i \in Nat /\ link.uses \in Nat
    BY <1>1, LinkTyped, Values
<1>3. CASE ~DecideAccept
    BY <1>1, <1>2, <1>3, AdmissionsGrow DEF AdmittedInv, Moves, Ends, Approves
<1>4. CASE DecideAccept
    <2>1. requests' = requests
        BY <1>4 DEF DecideAccept, requestVars
    <2>2. CASE i = link.uses + 1
        <3>1. admission'[i] = NewRequest
            BY <1>1, <1>4, <2>2, AcceptEffect DEF TypeInv, TypeOK
        <3>2. requests[i].state = "absent"
            BY <1>1, <1>2, <2>2 DEF AdmittedInv
        <3> QED
            BY <1>1, <1>2, <1>4, <2>1, <2>2, <3>1, <3>2, AcceptEffect
    <2>3. CASE i # link.uses + 1
        <3>1. admission'[i] = admission[i]
            BY <1>1, <1>4, <2>3, AcceptEffect DEF TypeInv, TypeOK
        <3> QED
            BY <1>1, <1>2, <1>4, <2>1, <2>3, <3>1, AcceptEffect DEF AdmittedInv
    <2> QED
        BY <2>2, <2>3
<1> QED
    BY <1>3, <1>4

\* What is over stays over.
LEMMA OverStays ==
    ASSUME IInv, [Next]_vars, NEW i \in RequestId, requests[i].state \in Over
    PROVE  requests'[i] = requests[i]
BY Moving DEF Moves, Ends, Approves, Over

LEMMA PointersStay == IInv /\ [Next]_vars => PointerInv'
<1> SUFFICES ASSUME IInv, [Next]_vars PROVE PointerInv'
    OBVIOUS
<1>1. TypeInv /\ AdmittedInv /\ PointerInv /\ BlockInv
    BY DEF IInv, RequestInv
<1>2. link.uses \in Nat /\ RequestId \subseteq Nat /\ NoId = 0 /\ NoId \notin RequestId
    BY <1>1, LinkTyped, Values
<1>3. \A i \in RequestId : requests[i].state \in Over => requests'[i].state \in Over
    BY OverStays
<1>4. CASE ~DecideAccept
    BY <1>1, <1>3, <1>4, AdmissionsGrow DEF PointerInv
<1>5. CASE DecideAccept
    <2> DEFINE n == link.uses + 1
               r == run.requester
    <2>1. /\ n \in RequestId /\ r \in Requester /\ link'.uses = n
          /\ admission'[n].requester = r
          /\ pointer'[r] = n
          /\ \A i \in RequestId : i # n => admission'[i] = admission[i]
          /\ \A q \in Requester : q # r => pointer'[q] = pointer[q]
        BY <1>1, <1>5, AcceptEffect DEF TypeInv, TypeOK
    <2>2. pointer[r] = NoId \/ requests[pointer[r]].state \in Over
        <3>1. run.blocked_at = Never /\ pc = "decide"
            BY <1>1, <1>5 DEF DecideAccept, TypeInv, RunInv
        <3> QED
            BY <1>1, <3>1 DEF BlockInv
    <2>3. ASSUME NEW q \in Requester
          PROVE  pointer'[q] <= n /\ (pointer'[q] # NoId => admission'[pointer'[q]].requester = q)
        <3>1. CASE q = r
            BY <1>2, <2>1, <3>1
        <3>2. CASE q # r
            <4>1. pointer[q] \in {NoId} \cup RequestId /\ pointer[q] <= link.uses
                BY <1>1 DEF TypeInv, TypeOK, PointerInv
            <4>2. pointer[q] # NoId => admission[pointer[q]].requester = q
                BY <1>1 DEF PointerInv
            <4>3. pointer'[q] = pointer[q]
                BY <2>1, <3>2
            <4>4. pointer[q] \in Nat /\ pointer[q] <= n /\ pointer[q] # n
                <5>1. pointer[q] \in Nat
                    BY <4>1, AdmissionBounds DEF RequestId, NoId
                <5> QED
                    BY <1>2, <4>1, <5>1
            <4>5. pointer[q] # NoId => admission'[pointer[q]] = admission[pointer[q]]
                BY <2>1, <4>1, <4>4
            <4> QED
                BY <4>2, <4>3, <4>4, <4>5
        <3> QED
            BY <3>1, <3>2
    <2>4. ASSUME NEW i \in RequestId, i <= n
          PROVE  pointer'[admission'[i].requester] = i \/ requests'[i].state \in Over
        <3>1. CASE i = n
            BY <2>1, <3>1
        <3>2. CASE i # n
            <4>1. i <= link.uses /\ admission'[i] = admission[i]
                BY <1>2, <2>1, <2>4, <3>2
            <4>2. admission[i].requester \in Requester
                BY <1>1, <4>1 DEF AdmittedInv
            <4>3. pointer[admission[i].requester] = i \/ requests[i].state \in Over
                BY <1>1, <4>1 DEF PointerInv
            <4>4. CASE requests[i].state \in Over
                BY <1>3, <4>4
            <4>5. CASE pointer[admission[i].requester] = i /\ admission[i].requester = r
                BY <1>2, <1>3, <2>2, <4>5
            <4>6. CASE pointer[admission[i].requester] = i /\ admission[i].requester # r
                BY <2>1, <4>1, <4>2, <4>6
            <4> QED
                BY <4>3, <4>4, <4>5, <4>6
        <3> QED
            BY <3>1, <3>2
    <2> QED
        BY <2>1, <2>3, <2>4 DEF PointerInv
<1> QED
    BY <1>4, <1>5

\* A request held at a time stays one that was held at that time.
LEMMA HeldStays ==
    ASSUME IInv, [Next]_vars, NEW i \in RequestId, NEW at \in Int, Held(i, at)
    PROVE  Held(i, at)'
<1>1. TypeInv
    BY DEF IInv
<1>2. at <= now'
    BY <1>1, ClockRuns DEF Held
<1>3. /\ requests[i].state \in {"pending", "approved", "declined", "expired"}
      /\ requests[i].deadline \in Nat /\ now \in Nat
    BY <1>1, RequestTyped, ClockRuns DEF Held
<1>4. Moves(i)
    BY Moving
<1>5. /\ requests'[i].state # "absent"
      /\ requests'[i].state = "pending" => at < requests'[i].deadline
      /\ requests'[i].state \in Over => at <= requests'[i].ended_at
    <2>1. CASE requests'[i] = requests[i]
        BY <2>1 DEF Held
    <2>2. CASE Ends(requests[i], requests'[i])
        BY <1>3, <2>2 DEF Held, Ends, Over
    <2>3. CASE Approves(requests[i], requests'[i])
        BY <2>3 DEF Approves, Over
    <2> QED
        BY <1>3, <1>4, <2>1, <2>2, <2>3 DEF Moves
<1> QED
    BY <1>2, <1>5 DEF Held

LEMMA HeldByStays ==
    ASSUME IInv, [Next]_vars, NEW r \in Requester, NEW at \in Int, HeldBy(r, at)
    PROVE  HeldBy(r, at)'
<1>1. TypeInv /\ AdmittedInv
    BY DEF IInv, RequestInv
<1>2. PICK i \in RequestId : admission[i].requester = r /\ Held(i, at)
    BY DEF HeldBy
<1>3. Held(i, at)'
    BY <1>2, HeldStays
<1>4. i <= link.uses
    BY <1>1, <1>2, LinkTyped, Values DEF AdmittedInv, Held
<1>5. admission'[i] = admission[i]
    BY <1>1, <1>4, AdmissionsGrow
<1> QED
    BY <1>2, <1>3, <1>5 DEF HeldBy

\* A verdict given now is true now, of the request as its owner leaves it.
LEMMA VerdictIsTrue ==
    ASSUME IInv, NEW i \in RequestId, NEW o \in Operation,
           requests[i].state # "absent", requests'[i] = Inspect(i, requests[i]), now' = now
    PROVE  /\ NewVerdict(i, o).request = i /\ NewVerdict(i, o).evaluated_at = now
           /\ NewVerdict(i, o).blocking \in BOOLEAN
           /\ NewVerdict(i, o).blocking => Held(i, now)'
           /\ ~NewVerdict(i, o).blocking => requests'[i].state \in Over
<1>1. TypeInv /\ AdmittedInv
    BY DEF IInv, RequestInv
<1>2. /\ NewVerdict(i, o).request = i /\ NewVerdict(i, o).evaluated_at = now
      /\ NewVerdict(i, o).blocking \in BOOLEAN
      /\ NewVerdict(i, o).blocking = Blocking(requests'[i])
    <2>1. NewVerdict(i, o).blocking \in BOOLEAN
        BY <1>1, VerdictTyped DEF Verdict
    <2> QED
        BY <2>1 DEF NewVerdict
<1>3. /\ requests[i].state \in {"pending", "approved", "declined", "expired"}
      /\ requests[i].deadline \in Nat /\ now \in Nat
      /\ requests[i].state = "pending" => requests[i].deadline # NoDeadline
    BY <1>1, RequestTyped, Values DEF AdmittedInv, TypeInv, TypeOK
<1>4. CASE ~Due(requests[i], now) /\ requests'[i] = requests[i]
    <2>1. requests[i].state = "pending" => now < requests[i].deadline
        BY <1>3, <1>4 DEF Due
    <2>2. Blocking(requests'[i]) => Held(i, now)'
        BY <1>3, <1>4, <2>1 DEF Blocking, Held, Over
    <2>3. ~Blocking(requests'[i]) => requests'[i].state \in Over
        BY <1>3, <1>4 DEF Blocking, Over
    <2> QED
        BY <1>2, <2>2, <2>3
<1>5. CASE requests'[i].state = "expired"
    BY <1>2, <1>5 DEF Blocking, Over
<1> QED
    BY <1>1, <1>4, <1>5, InspectEffect

LEMMA VerdictsStay == IInv /\ [Next]_vars => VerdictInv'
<1> SUFFICES ASSUME IInv, [Next]_vars, NEW v \in verdicts'
             PROVE  IF v.blocking THEN Held(v.request, v.evaluated_at)'
                    ELSE requests'[v.request].state \in Over
    BY DEF VerdictInv
<1>1. TypeInv /\ VerdictInv /\ RequestInv
    BY DEF IInv, RequestInv
<1>2. CASE v \in verdicts
    <2>1. v.request \in RequestId /\ v.evaluated_at \in Nat
        BY <1>1, <1>2, Values DEF TypeInv, TypeOK, Verdict
    <2>2. IF v.blocking THEN Held(v.request, v.evaluated_at)
          ELSE requests[v.request].state \in Over
        BY <1>1, <1>2 DEF VerdictInv
    <2> QED
        BY <2>1, <2>2, HeldStays, OverStays
<1>3. CASE v \notin verdicts
    <2>1. Ask
        BY <1>3, NextCases
        DEF Create, Revoke, UpdateMetadata, PrepareAttempt, Admit, AdmitMissing, Suppress,
            Probe, GatherEvidence, DecideUncertain, DecideReject, DecideAccept, Initialize,
            RecordAccepted, OwnerDecides, Tick, ChangeAccess, Observe, vars, requestVars
    <2>2. PICK i \in RequestId :
              /\ requests[i].state # "absent"
              /\ requests' = [requests EXCEPT ![i] = Inspect(i, requests[i])]
              /\ v = NewVerdict(i, run.operation)
        BY <1>1, <1>3, <2>1, AskEffect DEF requestVars, TypeInv, TypeOK
    <2>3. requests'[i] = Inspect(i, requests[i]) /\ now' = now /\ run.operation \in Operation
        BY <1>1, <2>1, <2>2, AskEffect DEF Ask, TypeInv, TypeOK
    <2>4. /\ v.request = i /\ v.evaluated_at = now
          /\ v.blocking => Held(i, now)'
          /\ ~v.blocking => requests'[i].state \in Over
          /\ v.blocking \in BOOLEAN
        BY <2>2, <2>3, VerdictIsTrue
    <2>5. CASE v.blocking
        BY <2>3, <2>4, <2>5 DEF Held
    <2>6. CASE ~v.blocking
        BY <2>4, <2>6
    <2> QED
        BY <2>5, <2>6
<1> QED
    BY <1>2, <1>3

\* What an answered owner tells the attempt.
LEMMA AnswerIsTrue ==
    ASSUME IInv, [Next]_vars, Ask, pc' # "idle"
    PROVE  /\ pc' = "probe" /\ run'.requester = run.requester
           /\ pointer' = pointer
           /\ run'.blocked_at # Never => HeldBy(run.requester, run.blocked_at)'
           /\ run'.blocked_at = Never => requests'[pointer[run.requester]].state \in Over
<1>1. TypeInv /\ RequestInv /\ VerdictInv
    BY DEF IInv, RequestInv
<1>2. PICK v \in verdicts' : v.request = pointer[run.requester] /\ Answered(v)
    <2>1. pointer[run.requester] \in RequestId /\ run.operation \in Operation
        BY <1>1, AskEffect
    <2>2. NewVerdict(pointer[run.requester], run.operation).request = pointer[run.requester]
        BY DEF NewVerdict
    <2> QED
        BY <2>2 DEF Ask, Uncertain, GivenVerdict, requestVars
<1>3. /\ v.evaluated_at \in Nat /\ v.evaluated_at # Never
      /\ IF v.blocking THEN Held(v.request, v.evaluated_at)'
         ELSE requests'[v.request].state \in Over
    <2>1. v \in Verdict
        BY <1>2, TypesStay DEF TypeInv, TypeOK
    <2>2. v.evaluated_at \in Nat /\ v.evaluated_at # Never
        BY <2>1, Values DEF Verdict
    <2> QED
        BY <1>2, <2>2, VerdictsStay DEF VerdictInv
<1>4. /\ pc' = "probe" /\ run'.requester = run.requester
      /\ run'.blocked_at = IF v.blocking THEN v.evaluated_at ELSE Never
    <2>1. run \in [operation : SomeOperation, requester : Somebody,
                   blocked_at : Time \cup {Never}, evidence : Evidence]
        BY <1>1 DEF TypeInv, TypeOK
    <2> QED
        BY <1>2, <2>1 DEF Answered
<1>5. UNCHANGED <<admission, pointer>>
    BY DEF Ask, admittedVars
<1>6. /\ pointer[run.requester] \in RequestId
      /\ admission'[pointer[run.requester]].requester = run.requester
    BY <1>1, <1>5, AskEffect
<1>7. CASE v.blocking
    <2>1. HeldBy(run.requester, run.blocked_at)'
        <3>1. run'.requester = run.requester /\ run'.blocked_at = v.evaluated_at
            BY <1>4, <1>7
        <3> QED
            BY <1>2, <1>3, <1>6, <1>7, <3>1 DEF HeldBy, Held
    <2> QED
        BY <1>3, <1>4, <1>5, <1>7, <2>1
<1>8. CASE ~v.blocking
    BY <1>2, <1>3, <1>4, <1>5, <1>8
<1> QED
    BY <1>7, <1>8

\* What the attempt knows stays so until it is used.
LEMMA BlocksStay == IInv /\ [Next]_vars => BlockInv'
<1> SUFFICES ASSUME IInv, [Next]_vars PROVE BlockInv'
    OBVIOUS
<1>1. TypeInv /\ BlockInv /\ RunInv
    BY DEF IInv, RequestInv, TypeInv
<1>2. ASSUME UNCHANGED <<pc, run, pointer>> PROVE BlockInv'
    <2>1. ASSUME pc = "probe", run.blocked_at # Never
          PROVE  HeldBy(run.requester, run.blocked_at)'
        <3>1. run.requester \in Requester /\ run.blocked_at \in Nat
            BY <1>1, <2>1, RunTyped, Values
        <3>2. HeldBy(run.requester, run.blocked_at)
            BY <1>1, <2>1 DEF BlockInv
        <3>3. PICK r \in Requester, at \in Nat : r = run.requester /\ at = run.blocked_at
            BY <3>1
        <3>4. HeldBy(r, at)'
            BY <3>2, <3>3, HeldByStays
        <3> QED
            BY <1>2, <3>3, <3>4 DEF HeldBy, Held
    <2>2. ASSUME pc \in {"probe", "evidence", "decide"}, pointer[run.requester] # NoId,
                 requests[pointer[run.requester]].state \in Over
          PROVE  requests'[pointer[run.requester]].state \in Over
        <3>1. pointer[run.requester] \in RequestId
            BY <1>1, <2>2, RunTyped DEF TypeInv, TypeOK
        <3> QED
            BY <2>2, <3>1, OverStays
    <2> QED
        BY <1>1, <1>2, <2>1, <2>2 DEF BlockInv
<1>3. ASSUME pc' \in {"idle", "initialize", "record"} PROVE BlockInv'
    BY <1>3 DEF BlockInv
<1>4. ASSUME NEW o \in Operation, NEW r \in Requester, Admit(o, r) PROVE BlockInv'
    <2>1. run'.requester = r /\ run'.blocked_at = Never
        BY <1>4 DEF Admit, NoRun
    <2>2. pointer' = pointer
        BY <1>4 DEF Admit, admittedVars
    <2> QED
        BY <1>4, <2>1, <2>2 DEF Admit, BlockInv
<1>5. ASSUME Ask, pc' # "idle" PROVE BlockInv'
    BY <1>5, AnswerIsTrue DEF BlockInv
<1>6. ASSUME Probe PROVE BlockInv'
    <2>1. /\ pc = "probe" /\ run.blocked_at = Never
          /\ run' = run /\ pc' \in {"decide", "evidence"} /\ UNCHANGED <<pointer, requests>>
        BY <1>6 DEF Probe, admittedVars, requestVars
    <2> QED
        BY <1>1, <2>1 DEF BlockInv
<1>7. ASSUME GatherEvidence, pc' # "idle" PROVE BlockInv'
    <2>1. /\ pc = "evidence" /\ run.blocked_at = Never
          /\ UNCHANGED <<pointer, requests>>
        BY <1>1, <1>7 DEF GatherEvidence, admittedVars, requestVars, RunInv
    <2>2. pc' = "decide" /\ run'.requester = run.requester
        <3>1. run \in [operation : SomeOperation, requester : Somebody,
                       blocked_at : Time \cup {Never}, evidence : Evidence]
            BY <1>1 DEF TypeInv, TypeOK
        <3> QED
            BY <1>7, <3>1 DEF GatherEvidence, Evident, Uncertain
    <2> QED
        BY <1>1, <2>1, <2>2 DEF BlockInv
<1>8. Suppress \/ DecideUncertain \/ DecideReject \/ DecideAccept \/ Initialize
      \/ RecordAccepted => pc' \in {"idle", "initialize", "record"}
    BY DEF Suppress, DecideUncertain, DecideReject, DecideAccept, Initialize,
       InitializeFails, RecordAccepted, Reject, Uncertain
<1>9. \/ \E terms \in Terms : Create(terms)
      \/ Revoke \/ UpdateMetadata
      \/ \E o \in Operation, r \in Requester : PrepareAttempt(o, r) \/ AdmitMissing(o, r)
      \/ \E i \in RequestId : OwnerDecides(i)
      \/ Tick \/ ChangeAccess \/ Observe \/ UNCHANGED vars
      => UNCHANGED <<pc, run, pointer>>
    BY DEF Create, Revoke, UpdateMetadata, PrepareAttempt, AdmitMissing, OwnerDecides,
       Tick, ChangeAccess, Observe, vars, admittedVars
<1> QED
    BY <1>2, <1>3, <1>4, <1>5, <1>6, <1>7, <1>8, <1>9, NextCases

-----------------------------------------------------------------------------
(* Access, evidence, outcomes *)

\* History only grows, and says what was so.
LEMMA HistoryGrows ==
    [Next]_vars => granted \subseteq granted' /\ denied \subseteq denied'
BY NextCases
DEF Create, Revoke, UpdateMetadata, PrepareAttempt, Admit, AdmitMissing, Ask, Suppress,
    Probe, GatherEvidence, DecideUncertain, DecideReject, DecideAccept, Initialize,
    RecordAccepted, OwnerDecides, Tick, ChangeAccess, Observe, Noted, vars, accessVars

LEMMA AccessStays == TypeInv /\ AccessInv /\ [Next]_vars => AccessInv'
<1> SUFFICES ASSUME TypeInv, AccessInv, [Next]_vars PROVE AccessInv'
    OBVIOUS
<1>1. now \in Nat /\ access \in BOOLEAN
    BY ClockRuns DEF TypeInv, TypeOK
<1>2. ASSUME Tick PROVE AccessInv'
    <2>1. granted' \cup denied' \subseteq 0..now'
        BY <1>1, <1>2 DEF Tick, Noted, AccessInv
    <2>2. IF access' THEN now' \in granted' ELSE now' \in denied'
        BY <1>1, <1>2 DEF Tick, Noted
    <2>3. observed_at' # Never => observed_at' \in granted'
        BY <1>2 DEF Tick, Noted, AccessInv
    <2> QED
        BY <2>1, <2>2, <2>3 DEF AccessInv
<1>3. ASSUME ChangeAccess PROVE AccessInv'
    <2>1. granted' \cup denied' \subseteq 0..now'
        BY <1>1, <1>3 DEF ChangeAccess, Noted, AccessInv
    <2>2. IF access' THEN now' \in granted' ELSE now' \in denied'
        BY <1>1, <1>3 DEF ChangeAccess, Noted
    <2>3. observed_at' # Never => observed_at' \in granted'
        BY <1>3 DEF ChangeAccess, Noted, AccessInv
    <2> QED
        BY <2>1, <2>2, <2>3 DEF AccessInv
<1>4. ASSUME Observe \/ GatherEvidence PROVE AccessInv'
    BY <1>4 DEF Observe, GatherEvidence, AccessInv, accessVars
<1>5. ASSUME UNCHANGED <<now, accessVars, observed_at>> PROVE AccessInv'
    BY <1>5 DEF AccessInv, accessVars
<1>6. \/ \E terms \in Terms : Create(terms)
      \/ Revoke \/ UpdateMetadata
      \/ \E o \in Operation, r \in Requester :
            PrepareAttempt(o, r) \/ Admit(o, r) \/ AdmitMissing(o, r)
      \/ Ask \/ Suppress \/ Probe \/ DecideUncertain \/ DecideReject \/ DecideAccept
      \/ Initialize \/ RecordAccepted
      \/ \E i \in RequestId : OwnerDecides(i)
      \/ UNCHANGED vars
      => UNCHANGED <<now, accessVars, observed_at>>
    BY DEF Create, Revoke, UpdateMetadata, PrepareAttempt, Admit, AdmitMissing, Ask,
       Suppress, Probe, DecideUncertain, DecideReject, DecideAccept, Initialize,
       RecordAccepted, OwnerDecides, vars, accessVars
<1> QED
    BY <1>2, <1>3, <1>4, <1>5, <1>6, NextCases

\* An inactive link becomes active only by its creation.
LEMMA InactiveStays ==
    ASSUME TypeInv, [Next]_vars, link' = link, Inactive
    PROVE  Inactive'
<1>1. link.terms.expires_at \in Nat /\ now' >= now /\ now \in Nat /\ now' \in Nat
    BY LinkTyped, ClockRuns
<1> QED
    BY <1>1 DEF Inactive, Revoked, Expired, Exhausted

LEMMA EvidenceStays ==
    TypeInv /\ AccessInv /\ EvidenceInv /\ [Next]_vars => EvidenceInv'
<1> SUFFICES ASSUME TypeInv, AccessInv, EvidenceInv, [Next]_vars, pc' = "decide"
             PROVE  EvidenceInv'
    BY DEF EvidenceInv
<1>1. ASSUME UNCHANGED <<pc, run, link>> PROVE EvidenceInv'
    BY <1>1, HistoryGrows, InactiveStays DEF EvidenceInv
<1>2. ASSUME Probe PROVE EvidenceInv'
    <2>1. run.evidence = NoEvidence /\ run' = run /\ NoEvidence.eligibility = "none"
        BY <1>2 DEF Probe, TypeInv, RunInv, Handing, NoEvidence
    <2>2. Inactive /\ link' = link
        BY <1>2 DEF Probe, admittedVars
    <2>3. Inactive'
        BY <2>2, InactiveStays
    <2> QED
        BY <2>1, <2>3 DEF EvidenceInv
<1>3. ASSUME GatherEvidence PROVE EvidenceInv'
    <2>1. pc = "evidence" /\ now \in Time
        BY <1>3 DEF GatherEvidence, TypeInv, TypeOK
    <2>2. \E e \in Eligibility, at \in Time :
              /\ Evident(e, at)
              /\ e = "available" => at \in granted
              /\ e = "unavailable" => at \in denied
        <3>1. {"available", "unavailable", "unknown"} \subseteq Eligibility
            BY DEF Eligibility
        <3>2. RetainedAvailable => observed_at \in Time /\ observed_at \in granted
            BY DEF RetainedAvailable, TypeInv, TypeOK, AccessInv
        <3>3. IF access THEN now \in granted ELSE now \in denied
            BY DEF AccessInv
        <3>4. ~Uncertain
            BY DEF Uncertain
        <3> QED
            BY <1>3, <2>1, <3>1, <3>2, <3>3, <3>4 DEF GatherEvidence
    <2>3. PICK e \in Eligibility, at \in Time :
              /\ Evident(e, at)
              /\ e = "available" => at \in granted
              /\ e = "unavailable" => at \in denied
        BY <2>2
    <2>4. run'.evidence = [eligibility |-> e, valid_until |-> at + Allowance(e)]
        BY <2>1, <2>3, EvidentTypes
    <2>5. run'.evidence.eligibility = e /\ run'.evidence.valid_until = at + Allowance(e)
        BY <2>4
    <2>6. run'.evidence # NoEvidence
        BY <2>5 DEF NoEvidence, Eligibility
    <2>7. granted' = granted /\ denied' = denied
        BY <1>3 DEF GatherEvidence, accessVars
    <2>8. /\ e = "available" => Allowance(e) = Window
          /\ e = "unavailable" => Allowance(e) = 1
        BY DEF Allowance
    <2> QED
        BY <2>3, <2>5, <2>6, <2>7, <2>8 DEF EvidenceInv
<1>4. ~(\E terms \in Terms : Create(terms)) /\ ~Revoke /\ ~UpdateMetadata
    BY DEF Create, Revoke, UpdateMetadata
<1>5. /\ ~(\E o \in Operation, r \in Requester : Admit(o, r))
      /\ ~Ask /\ ~Suppress /\ ~DecideUncertain /\ ~DecideReject /\ ~DecideAccept
      /\ ~Initialize /\ ~RecordAccepted
    BY DEF Admit, Ask, Answered, Suppress, DecideUncertain, DecideReject, DecideAccept,
       Initialize, InitializeFails, RecordAccepted, Reject, Uncertain
<1>6. \/ \E o \in Operation, r \in Requester : PrepareAttempt(o, r) \/ AdmitMissing(o, r)
      \/ \E i \in RequestId : OwnerDecides(i)
      \/ Tick \/ ChangeAccess \/ Observe \/ UNCHANGED vars
      => UNCHANGED <<pc, run, link>>
    BY DEF PrepareAttempt, AdmitMissing, OwnerDecides, Tick, ChangeAccess, Observe, vars,
       admittedVars
<1>7. UNCHANGED <<pc, run, link>> \/ Probe \/ GatherEvidence
    BY <1>4, <1>5, <1>6, NextCases
<1> QED
    BY <1>1, <1>2, <1>3, <1>7

\* The terms stay what they were, and a revocation bears the time it is made.
LEMMA TermsStay ==
    ASSUME TypeInv, [Next]_vars, Created
    PROVE  /\ link'.terms = link.terms
           /\ \/ link'.revoked_at = link.revoked_at
              \/ ~Revoked /\ link'.revoked_at = now
<1>1. ~(\E terms \in Terms : Create(terms))
    BY DEF Create, Creatable
<1>2. Revoke => link'.terms = link.terms /\ ~Revoked /\ link'.revoked_at = now
    BY LinkTyped DEF Revoke, Publish, Revise
<1>3. UpdateMetadata => link'.terms = link.terms /\ link'.revoked_at = link.revoked_at
    BY LinkTyped DEF UpdateMetadata, Publish, Revise
<1>4. DecideAccept => link'.terms = link.terms /\ link'.revoked_at = link.revoked_at
    BY AcceptEffect
<1> QED
    BY <1>1, <1>2, <1>3, <1>4, NextCases
    DEF PrepareAttempt, Admit, AdmitMissing, Ask, Suppress, Probe, GatherEvidence,
        DecideUncertain, DecideReject, Initialize, RecordAccepted, OwnerDecides, Tick,
        ChangeAccess, Observe, vars, admittedVars

LEMMA AllowedStays ==
    ASSUME TypeInv, [Next]_vars, Created, NEW at \in Int, AllowedAt(at)
    PROVE  AllowedAt(at)'
<1>1. /\ now \in Nat /\ now' \in Nat /\ now' >= now
      /\ link'.terms = link.terms
      /\ link'.revoked_at = link.revoked_at \/ (~Revoked /\ link'.revoked_at = now)
    BY ClockRuns, TermsStay
<1>2. at <= now'
    BY <1>1 DEF AllowedAt
<1>3. link'.terms.expires_at # NoExpiry => at < link'.terms.expires_at
    BY <1>1 DEF AllowedAt
<1>4. Revoked' => at <= link'.revoked_at
    BY <1>1 DEF AllowedAt, Revoked
<1>5. \E t \in granted' : t \in (at - Window + 1)..at
    BY HistoryGrows DEF AllowedAt
<1> QED
    BY <1>2, <1>3, <1>4, <1>5 DEF AllowedAt

\* Who was accepted was accepted by a link that exists.
LEMMA AcceptedMeansCreated ==
    ASSUME TypeInv, UseInv, AcceptedOps # {}
    PROVE  Created
<1>1. link.uses # 0
    BY LinkTyped DEF UseInv, Paired
<1> QED
    BY <1>1 DEF TypeInv, LinkInv, NoLink

\* An acceptance is allowed when it is decided.
LEMMA AcceptanceAllowed ==
    ASSUME IInv, [Next]_vars, DecideAccept
    PROVE  AllowedAt(now)'
<1>1. TypeInv /\ EvidenceInv /\ AccessInv /\ pc = "decide"
    BY DEF IInv, DecideAccept
<1>2. /\ ~Inactive /\ ~Stale
      /\ run.evidence # NoEvidence /\ run.evidence.eligibility = "available"
    BY <1>1 DEF DecideAccept, Found, EvidenceInv
<1>3. PICK t \in granted : run.evidence.valid_until = t + Window
    BY <1>1, <1>2 DEF EvidenceInv
<1>4. now \in Nat /\ t \in 0..now /\ Window \in Nat \ {0}
    BY <1>1, ClockRuns, Values DEF AccessInv
<1>5. t \in (now - Window + 1)..now
    BY <1>2, <1>3, <1>4 DEF Stale
<1>6. link.terms.expires_at # NoExpiry => now < link.terms.expires_at
    BY <1>1, <1>2, <1>4, LinkTyped DEF Inactive, Expired
<1>7. /\ link'.terms = link.terms /\ ~Revoked' /\ now' = now /\ granted' = granted
    BY <1>1, <1>2, AcceptEffect DEF DecideAccept, accessVars, Inactive, Revoked
<1> QED
    BY <1>4, <1>5, <1>6, <1>7 DEF AllowedAt

\* So is a rejection.
LEMMA RejectionTrue ==
    ASSUME IInv, [Next]_vars, Suppress \/ DecideReject
    PROVE  \E x \in Receipt :
              /\ receipts' = [receipts EXCEPT ![run.operation] = x]
              /\ x.result = "unavailable" => x.decided_at \in denied'
              /\ x.result = "existing_request" =>
                    /\ x.requester \in Requester /\ x.decided_at \in Nat
                    /\ HeldBy(x.requester, x.decided_at)
<1>1. TypeInv /\ OperationInv /\ EvidenceInv /\ AccessInv /\ BlockInv
    BY DEF IInv, RequestInv
<1>2. PICK reason \in Rejection, at \in Time :
          /\ receipts' = [receipts EXCEPT ![run.operation] = Rejected(reason, at)]
          /\ Rejected(reason, at).result = reason
          /\ Rejected(reason, at).requester = run.requester
          /\ Rejected(reason, at).decided_at = at
          /\ Suppress => reason = "existing_request" /\ at = run.blocked_at
          /\ DecideReject => at = now /\ reason # "existing_request"
          /\ DecideReject /\ reason = "unavailable" => Found("unavailable")
    BY <1>1, RejectEffect
<1>3. run.requester \in Requester /\ at \in Nat /\ now \in Nat
    BY <1>1, <1>2, RejectEffect, ClockRuns, Values
<1>4. Rejected(reason, at) \in Receipt
    BY <1>2, <1>3 DEF Rejected, Receipt, Somebody
<1>5. ASSUME reason = "unavailable" PROVE at \in denied'
    <2>1. DecideReject /\ Found("unavailable") /\ at = now
        BY <1>2, <1>5
    <2>2. pc = "decide" /\ denied' = denied
        BY <2>1 DEF DecideReject, accessVars
    <2>3. run.evidence # NoEvidence /\ run.evidence.eligibility = "unavailable" /\ ~Stale
        BY <2>1 DEF Found
    <2>4. PICK t \in denied : run.evidence.valid_until = t + 1
        BY <1>1, <2>2, <2>3 DEF EvidenceInv
    <2>5. t \in 0..now
        BY <1>1, <2>4 DEF AccessInv
    <2>6. t = now
        BY <1>3, <2>3, <2>4, <2>5 DEF Stale
    <2> QED
        BY <2>1, <2>2, <2>4, <2>6
<1>6. ASSUME reason = "existing_request" PROVE HeldBy(run.requester, at)
    <2>1. Suppress /\ at = run.blocked_at
        BY <1>2, <1>6
    <2> QED
        BY <1>1, <2>1 DEF Suppress, BlockInv
<1> QED
    BY <1>2, <1>3, <1>4, <1>5, <1>6

\* Who held a request is a requester.
LEMMA HeldByTyped ==
    ASSUME TypeInv, AdmittedInv, NEW r, NEW at, HeldBy(r, at)
    PROVE  r \in Requester
<1>1. PICK i \in RequestId : admission[i].requester = r /\ Held(i, at)
    BY DEF HeldBy
<1>2. i <= link.uses
    BY <1>1, LinkTyped, Values DEF AdmittedInv, Held
<1> QED
    BY <1>1, <1>2 DEF AdmittedInv

LEMMA OutcomesStayTrue == IInv /\ [Next]_vars => OutcomeInv'
<1> SUFFICES ASSUME IInv, [Next]_vars, NEW o \in Operation
             PROVE  /\ Accepting(o)' => AllowedAt(Outcome(o).decided_at)'
                    /\ receipts'[o].result = "unavailable" =>
                           receipts'[o].decided_at \in denied'
                    /\ receipts'[o].result = "existing_request" =>
                           HeldBy(receipts[o].requester, receipts[o].decided_at)'
    BY DEF OutcomeInv
<1>1. TypeInv /\ OperationInv /\ UseInv /\ OutcomeInv
    BY DEF IInv
<1>2. receipts[o] \in Receipt /\ handoff[o] \in Receipt
    BY <1>1 DEF TypeInv, TypeOK
<1>3. receipts[o].decided_at \in Int /\ Outcome(o).decided_at \in Int
    <2>1. receipts[o].decided_at \in Time \cup {Never}
        BY <1>2 DEF Receipt
    <2>2. handoff[o].decided_at \in Time \cup {Never}
        BY <1>2 DEF Receipt
    <2>3. Time \cup {Never} \subseteq Int
        BY DEF Time, Never
    <2> QED
        BY <2>1, <2>2, <2>3 DEF Outcome
<1>4. ASSUME receipts'[o] = receipts[o]
      PROVE  /\ receipts'[o].result = "unavailable" => receipts'[o].decided_at \in denied'
             /\ receipts'[o].result = "existing_request" =>
                    HeldBy(receipts[o].requester, receipts[o].decided_at)'
    <2>1. receipts[o].result = "unavailable" => receipts[o].decided_at \in denied
        BY <1>1 DEF OutcomeInv
    <2>2. ASSUME receipts[o].result = "existing_request"
          PROVE  HeldBy(receipts[o].requester, receipts[o].decided_at)'
        <3>1. HeldBy(receipts[o].requester, receipts[o].decided_at)
            BY <1>1, <2>2 DEF OutcomeInv
        <3>2. receipts[o].requester \in Requester
            BY <1>1, <3>1, HeldByTyped DEF IInv, RequestInv
        <3>3. PICK r \in Requester, at \in Int :
                  r = receipts[o].requester /\ at = receipts[o].decided_at
            BY <1>3, <3>2
        <3>4. HeldBy(r, at)'
            BY <3>1, <3>3, HeldByStays
        <3> QED
            BY <1>4, <3>3, <3>4 DEF HeldBy, Held
    <2> QED
        BY <1>4, <2>1, <2>2, HistoryGrows
<1>5. ASSUME Outcome(o)' = Outcome(o)
      PROVE  Accepting(o)' => AllowedAt(Outcome(o).decided_at)'
    <2> SUFFICES ASSUME Accepting(o)' PROVE AllowedAt(Outcome(o).decided_at)'
        OBVIOUS
    <2>1. Outcome(o).result = "accepted"
        BY <1>5 DEF Accepting
    <2>2. PICK at \in Int : at = Outcome(o).decided_at
        BY <1>3
    <2>3. AllowedAt(at) /\ Created
        BY <1>1, <2>1, <2>2, AcceptedMeansCreated DEF OutcomeInv, Accepting, AcceptedOps
    <2>4. AllowedAt(at)'
        BY <1>1, <2>3, AllowedStays
    <2>5. at = Outcome(o)'.decided_at
        BY <1>5, <2>2
    <2> QED
        BY <2>4, <2>5 DEF AllowedAt
<1>6. CASE Suppress \/ DecideReject
    <2>1. CASE o # run.operation
        <3>1. receipts'[o] = receipts[o]
            BY <1>1, <1>6, <2>1, RejectionTrue DEF TypeInv, TypeOK
        <3>2. Outcome(o)' = Outcome(o)
            BY <1>1, <1>6, <2>1, RejectOutcomes
        <3> QED
            BY <1>4, <1>5, <3>1, <3>2
    <2>2. CASE o = run.operation
        <3>1. PICK x \in Receipt :
                  /\ receipts' = [receipts EXCEPT ![run.operation] = x]
                  /\ x.result = "unavailable" => x.decided_at \in denied'
                  /\ x.result = "existing_request" =>
                        /\ x.requester \in Requester /\ x.decided_at \in Nat
                        /\ HeldBy(x.requester, x.decided_at)
            BY <1>6, RejectionTrue
        <3>2. receipts'[o] = x
            BY <1>1, <2>2, <3>1 DEF TypeInv, TypeOK
        <3>3. ~Accepting(o)'
            <4>1. o \notin AcceptedOps'
                BY <1>1, <1>6, <2>2, RejectOutcomes
            <4> QED
                BY <4>1 DEF AcceptedOps, Accepting
        <3>4. ASSUME x.result = "existing_request"
              PROVE  HeldBy(receipts[o].requester, receipts[o].decided_at)'
            <4>1. HeldBy(x.requester, x.decided_at)'
                BY <3>1, <3>4, HeldByStays
            <4> QED
                BY <3>2, <4>1 DEF HeldBy, Held
        <3> QED
            BY <3>1, <3>2, <3>3, <3>4
    <2> QED
        BY <2>1, <2>2
<1>7. CASE DecideAccept
    <2>1. receipts' = receipts
        BY <1>7 DEF DecideAccept, attemptVars
    <2>2. Accepting(o)' => AllowedAt(Outcome(o).decided_at)'
        <3>1. CASE o # run.operation
            BY <1>1, <1>5, <1>7, <3>1, AcceptOutcomes
        <3>2. CASE o = run.operation
            <4>1. Outcome(o)'.decided_at = now /\ now' = now
                <5>1. run' = run
                    BY <1>1, <1>7, AcceptEffect
                <5>2. Outcome(o)' = Accepted(link.uses + 1)
                    BY <1>1, <1>7, <3>2, <5>1, AcceptOutcomes DEF Outcome
                <5> QED
                    BY <1>1, <1>7, <5>2, AcceptEffect DEF DecideAccept
            <4>2. AllowedAt(now)'
                BY <1>7, AcceptanceAllowed
            <4> QED
                BY <4>1, <4>2 DEF AllowedAt
        <3> QED
            BY <3>1, <3>2
    <2> QED
        BY <1>4, <2>1, <2>2
<1>8. CASE RecordAccepted
    <2>1. Outcome(o)' = Outcome(o)
        BY <1>1, <1>8, RecordOutcomes DEF OutcomesStay
    <2>2. CASE o # run.operation
        <3>1. receipts'[o] = receipts[o]
            BY <1>1, <1>8, <2>2 DEF RecordAccepted, TypeInv, TypeOK
        <3> QED
            BY <1>4, <1>5, <2>1, <3>1
    <2>3. CASE o = run.operation
        <3>1. receipts'[o].result = "accepted"
            BY <1>1, <1>8, <2>3 DEF RecordAccepted, TypeInv, TypeOK, OperationInv, Handing
        <3> QED
            BY <1>5, <2>1, <3>1
    <2> QED
        BY <2>2, <2>3
<1>9. CASE Quiet
    BY <1>4, <1>5, <1>9, QuietOutcomes DEF OutcomesStay, Quiet
<1> QED
    BY <1>6, <1>7, <1>8, <1>9, NextCases, Quietly

-----------------------------------------------------------------------------
(* Snapshots *)

\* A link changes by a snapshot with a revision of its own.
LEMMA Publishing ==
    ASSUME TypeInv, [Next]_vars
    PROVE  \/ UNCHANGED <<link, outbox>>
           \/ ~Created /\ Created' /\ link'.revision = 1 /\ link'.uses = 0
             /\ outbox' = outbox \cup {link'}
           \/ /\ Created /\ link'.revision = link.revision + 1
              /\ link'.uses \in {link.uses, link.uses + 1}
              /\ outbox' = outbox \cup {link'}
<1>1. (\E terms \in Terms : Create(terms)) =>
          ~Created /\ Created' /\ link'.revision = 1 /\ link'.uses = 0
              /\ outbox' = outbox \cup {link'}
    BY DEF Create, Creatable, Publish, Created
<1>2. Revoke \/ UpdateMetadata =>
          /\ Created /\ link'.revision = link.revision + 1 /\ link'.uses = link.uses
          /\ outbox' = outbox \cup {link'}
    BY LinkTyped DEF Revoke, UpdateMetadata, Publish, Revise
<1>3. DecideAccept =>
          /\ Created /\ link'.revision = link.revision + 1 /\ link'.uses = link.uses + 1
          /\ outbox' = outbox \cup {link'}
    BY AcceptEffect
<1>4. \/ \E o \in Operation, r \in Requester :
            PrepareAttempt(o, r) \/ Admit(o, r) \/ AdmitMissing(o, r)
      \/ Ask \/ Suppress \/ Probe \/ GatherEvidence \/ DecideUncertain \/ DecideReject
      \/ Initialize \/ RecordAccepted
      \/ \E i \in RequestId : OwnerDecides(i)
      \/ Tick \/ ChangeAccess \/ Observe \/ UNCHANGED vars
      => UNCHANGED <<link, outbox>>
    BY DEF PrepareAttempt, Admit, AdmitMissing, Ask, Suppress, Probe, GatherEvidence,
       DecideUncertain, DecideReject, Initialize, RecordAccepted, OwnerDecides, Tick,
       ChangeAccess, Observe, vars, admittedVars
<1> QED
    BY <1>1, <1>2, <1>3, <1>4, NextCases

LEMMA OutboxStays == TypeInv /\ OutboxInv /\ [Next]_vars => OutboxInv'
<1> SUFFICES ASSUME TypeInv, OutboxInv, [Next]_vars PROVE OutboxInv'
    OBVIOUS
<1>1. /\ link.revision \in Nat /\ link.uses \in Nat
      /\ \A s \in outbox : s.revision \in Nat /\ s.uses \in Nat
    <2>1. \A s \in outbox : s.revision \in Nat /\ s.uses \in {NoId} \cup RequestId
        BY DEF TypeInv, TypeOK, LinkSnapshot
    <2> QED
        BY <2>1, LinkTyped, AdmissionBounds DEF NoId, RequestId
<1>2. CASE UNCHANGED <<link, outbox>>
    BY <1>2 DEF OutboxInv, Created
<1>3. CASE ~Created /\ Created' /\ link'.revision = 1 /\ link'.uses = 0
             /\ outbox' = outbox \cup {link'}
    BY <1>3 DEF OutboxInv
<1>4. CASE /\ Created /\ link'.revision = link.revision + 1
           /\ link'.uses \in {link.uses, link.uses + 1}
           /\ outbox' = outbox \cup {link'}
    <2>1. Created' /\ link' \in outbox'
        BY <1>1, <1>4 DEF Created
    <2>2. \A s \in outbox' : s.revision <= link'.revision /\ s.uses <= link'.uses
        BY <1>1, <1>4 DEF OutboxInv
    <2>3. \A s \in outbox : s.revision # link'.revision
        BY <1>1, <1>4 DEF OutboxInv
    <2>4. \A s, t \in outbox' : s.revision = t.revision => s = t
        BY <1>4, <2>3 DEF OutboxInv
    <2> QED
        BY <2>1, <2>2, <2>4 DEF OutboxInv
<1> QED
    BY <1>2, <1>3, <1>4, Publishing

-----------------------------------------------------------------------------
(* The invariant *)

LEMMA InitInvariant == Init => IInv
<1> SUFFICES ASSUME Init PROVE IInv
    OBVIOUS
<1>1. TypeInv
    BY InitTypes
<1>2. OperationInv
    BY DEF Init, OperationInv, Decided, NoReceipt, Deciding, Handing
<1>3. \A o \in Operation : Outcome(o) = NoReceipt /\ Outcome(o).result = "none"
    BY DEF Init, Outcome, NoReceipt
<1>4. UseInv
    <2>1. AcceptedOps = {} /\ link.uses = 0
        BY <1>3 DEF AcceptedOps, Init, NoLink
    <2> QED
        BY <2>1 DEF UseInv, Paired
<1>5. RequestInv
    <2>1. link.uses = 0 /\ \A i \in RequestId : ~(i <= link.uses)
        BY AdmissionBounds DEF Init, NoLink, RequestId
    <2>2. AdmittedInv
        BY <2>1 DEF Init, AdmittedInv, NoRequest
    <2>3. PointerInv
        BY <2>1, Values DEF Init, PointerInv
    <2>4. VerdictInv /\ BlockInv
        BY DEF Init, VerdictInv, BlockInv
    <2> QED
        BY <2>2, <2>3, <2>4 DEF RequestInv
<1>6. AccessInv
    BY DEF Init, AccessInv
<1>7. EvidenceInv
    BY DEF Init, EvidenceInv
<1>8. OutcomeInv
    <2>1. \A o \in Operation : receipts[o].result = "none"
        BY DEF Init, NoReceipt
    <2> QED
        BY <1>3, <2>1 DEF OutcomeInv, Accepting
<1>9. OutboxInv
    BY DEF Init, OutboxInv, Created, NoLink
<1> QED
    BY <1>1, <1>2, <1>4, <1>5, <1>6, <1>7, <1>8, <1>9 DEF IInv

LEMMA NextInvariant == IInv /\ [Next]_vars => IInv'
<1> SUFFICES ASSUME IInv, [Next]_vars PROVE IInv'
    OBVIOUS
<1>1. TypeInv' /\ OperationInv' /\ UseInv'
    BY TypesStay, OperationsStay, UsesPaired DEF IInv
<1>2. RequestInv'
    BY AdmittedStays, PointersStay, VerdictsStay, BlocksStay DEF RequestInv
<1>3. AccessInv' /\ EvidenceInv'
    BY AccessStays, EvidenceStays DEF IInv
<1>4. OutcomeInv' /\ OutboxInv'
    BY OutcomesStayTrue, OutboxStays DEF IInv
<1> QED
    BY <1>1, <1>2, <1>3, <1>4 DEF IInv

\* The inductive invariant holds in every reachable state.
THEOREM AdmissionInvariant == Spec => []IInv
BY InitInvariant, NextInvariant, PTL DEF Spec

\* Type correctness of the link, its attempts and the owners of its requests.
THEOREM AdmissionTypeOK == Spec => []TypeOK
<1>1. IInv => TypeOK
    BY DEF IInv, TypeInv
<1> QED
    BY <1>1, AdmissionInvariant, PTL

\* As many operations as there are uses, and as many requests.
LEMMA PairedCounts ==
    ASSUME NEW S, NEW f, NEW n \in Nat, Paired(S, f, n)
    PROVE  Cardinality(S) = n /\ Cardinality({f[o] : o \in S}) = n
<1>1. IsFiniteSet(1..n) /\ Cardinality(1..n) = n
    <2>1. IsFiniteSet(1..n) /\ Cardinality(1..n) = IF 1 > n THEN 0 ELSE n - 1 + 1
        BY FS_Interval
    <2> QED
        BY <2>1
<1>2. {f[o] : o \in S} = 1..n
    BY DEF Paired
<1> DEFINE g == [o \in S |-> f[o]]
<1>3. g \in Bijection(S, 1..n)
    <2>1. g \in [S -> 1..n]
        BY DEF Paired
    <2>2. \A o, p \in S : g[o] = g[p] => o = p
        BY DEF Paired
    <2>3. \A i \in 1..n : \E o \in S : g[o] = i
        BY DEF Paired
    <2> QED
        BY <2>1, <2>2, <2>3 DEF Bijection, Injection, Surjection, IsInjective
<1>4. ExistsBijection(S, 1..n)
    BY <1>3 DEF ExistsBijection
<1>5. IsFiniteSet(S) /\ Cardinality(S) = Cardinality(1..n)
    <2>1. ExistsBijection(1..n, S)
        BY <1>4, Fun_ExistsBijSymmetric
    <2> QED
        BY <1>1, <2>1, FS_Bijection
<1> QED
    BY <1>1, <1>2, <1>5

-----------------------------------------------------------------------------
(* The properties *)

\* Each use is spent by one operation, never more than the link allows:
\* operations and uses are paired.
THEOREM AdmissionUsesAreSpentOnce == Spec => []UsesAreSpentOnce
<1>1. ASSUME IInv PROVE UsesAreSpentOnce
    <2>1. link.uses \in Nat /\ Paired(AcceptedOps, RequestOf, link.uses)
        BY <1>1, LinkTyped DEF IInv, UseInv
    <2>2. /\ Cardinality(AcceptedOps) = link.uses
          /\ Cardinality({RequestOf[o] : o \in AcceptedOps}) = link.uses
        BY <2>1, PairedCounts
    <2>3. {RequestOf[o] : o \in AcceptedOps} = {Outcome(o).request : o \in AcceptedOps}
        BY DEF RequestOf, AcceptedOps
    <2>4. link.terms.max_uses # Unlimited => link.uses <= link.terms.max_uses
        BY <1>1 DEF IInv, TypeInv, LinkInv
    <2> QED
        BY <2>2, <2>3, <2>4 DEF UsesAreSpentOnce
<1> QED
    BY <1>1, AdmissionInvariant, PTL

\* Nobody is accepted too late, after revocation or on evidence that is too
\* old: what the attempt checked earlier still holds when it decides.
THEOREM AdmissionAcceptanceWasAllowed == Spec => []AcceptanceWasAllowed
<1>1. ASSUME IInv PROVE AcceptanceWasAllowed
    BY <1>1 DEF IInv, OutcomeInv, AcceptanceWasAllowed, AcceptedOps, Accepting, AllowedAt
<1> QED
    BY <1>1, AdmissionInvariant, PTL

\* A rejection was true at the time it bears, whatever became of it since.
THEOREM AdmissionRejectionWasTrue == Spec => []RejectionWasTrue
<1>1. ASSUME IInv PROVE RejectionWasTrue
    <2>1. TypeInv /\ AdmittedInv /\ OutcomeInv
        BY <1>1 DEF IInv, RequestInv
    <2>2. ASSUME NEW r, NEW at, HeldBy(r, at) PROVE HeldAt(r, at)
        <3>1. PICK i \in RequestId : admission[i].requester = r /\ Held(i, at)
            BY <2>2 DEF HeldBy
        <3>2. i <= link.uses
            BY <2>1, <3>1, LinkTyped, Values DEF AdmittedInv, Held
        <3>3. admission[i].state # "absent" /\ Standing(i) = requests[i]
            BY <2>1, <3>1, <3>2 DEF AdmittedInv, Held, Standing
        <3>4. Live(i) \/ (requests[i].state \in Over /\ at <= requests[i].ended_at)
            BY <2>1, <3>1, <3>3, RequestTyped DEF Live, Held, Over
        <3> QED
            BY <3>1, <3>3, <3>4 DEF HeldAt
    <2> QED
        BY <2>1, <2>2 DEF OutcomeInv, RejectionWasTrue
<1> QED
    BY <1>1, AdmissionInvariant, PTL

\* A revision of the link names one snapshot, and the newest is the link.
THEOREM AdmissionRevisionNamesLink == Spec => []RevisionNamesLink
<1>1. ASSUME IInv PROVE RevisionNamesLink
    BY <1>1 DEF IInv, OutboxInv, RevisionNamesLink
<1> QED
    BY <1>1, AdmissionInvariant, PTL

-----------------------------------------------------------------------------
(* The promise: every step spends, leaves, opens, closes, or is not seen.    *)

Holders == {r \in Requester : \E i \in RequestId : Live(i) /\ Standing(i).requester = r}

\* A live request is its requester's latest.
LEMMA LiveIsLatest ==
    ASSUME IInv, NEW i \in RequestId, Live(i)
    PROVE  /\ i <= link.uses
           /\ Standing(i).requester = admission[i].requester
           /\ admission[i].requester \in Requester
           /\ pointer[admission[i].requester] = i
           /\ requests[i].state \notin Over
<1>1. TypeInv /\ AdmittedInv /\ PointerInv /\ i \in Nat /\ link.uses \in Nat
    BY LinkTyped, Values DEF IInv, RequestInv
<1>2. i <= link.uses
    BY <1>1 DEF AdmittedInv, Live, Standing
<1>3. requests[i].state \notin Over
    BY DEF Live, Standing, Over
<1>4. pointer[admission[i].requester] = i
    BY <1>1, <1>2, <1>3 DEF PointerInv
<1> QED
    BY <1>1, <1>2, <1>3, <1>4 DEF AdmittedInv, Standing

\* Pending or approved requests are suppressed, even a request whose handover is
\* yet to come: no requester has two live requests for one link.
OneLiveRequest ==
    \A i, j \in RequestId :
        Live(i) /\ Live(j) /\ Standing(i).requester = Standing(j).requester => i = j

\* Whatever the attempts of a requester awaited, and in whatever order their
\* answers came, at most one of the requests they made is live.
THEOREM AdmissionOneLiveRequest == Spec => []OneLiveRequest
<1>1. ASSUME IInv PROVE OneLiveRequest
    BY <1>1, LiveIsLatest DEF OneLiveRequest
<1> QED
    BY <1>1, AdmissionInvariant, PTL

\* The holders change with the standing of the requests only.
LEMMA HoldersStay ==
    ASSUME \A i \in RequestId :
               /\ Live(i)' <=> Live(i)
               /\ Live(i) => Standing(i)'.requester = Standing(i).requester
    PROVE  Holders' = Holders
BY DEF Holders

LEMMA StandingMoves ==
    ASSUME IInv, [Next]_vars, ~DecideAccept, NEW i \in RequestId,
           ~Ends(requests[i], requests'[i])
    PROVE  /\ Live(i)' <=> Live(i)
           /\ Live(i) => Standing(i)'.requester = Standing(i).requester
<1>1. TypeInv /\ AdmittedInv /\ Moves(i) /\ admission' = admission
    BY AdmissionsGrow, Moving DEF IInv, RequestInv
<1>2. CASE requests'[i] = requests[i]
    BY <1>1, <1>2 DEF Live, Standing
<1>3. CASE Approves(requests[i], requests'[i])
    BY <1>3 DEF Approves, Live, Standing
<1>4. CASE requests[i].state = "absent" /\ i <= link.uses /\ requests'[i] = admission[i]
    BY <1>1, <1>4 DEF Live, Standing
<1> QED
    BY <1>1, <1>2, <1>3, <1>4 DEF Moves

\* At most one request ends in a step.
LEMMA OneEnds ==
    ASSUME IInv, [Next]_vars, NEW i \in RequestId, Ends(requests[i], requests'[i])
    PROVE  /\ \A j \in RequestId \ {i} : requests'[j] = requests[j]
           /\ UNCHANGED <<link, admission>>
<1>1. TypeInv /\ OperationInv /\ UseInv /\ RequestInv /\ AdmittedInv
    BY DEF IInv, RequestInv
<1>2. requests'[i] # requests[i] /\ requests[i].state # "absent"
    BY DEF Ends
<1>3. Ask \/ \E j \in RequestId : OwnerDecides(j)
    <2>1. ASSUME Initialize PROVE FALSE
        BY <1>1, <1>2, <2>1, InitializeEffect DEF Initialized, TypeInv, TypeOK
    <2> QED
        BY <1>2, <2>1, NextCases
        DEF Create, Revoke, UpdateMetadata, PrepareAttempt, Admit, AdmitMissing, Suppress,
            Probe, GatherEvidence, DecideUncertain, DecideReject, DecideAccept,
            RecordAccepted, Tick, ChangeAccess, Observe, vars, requestVars
<1>4. UNCHANGED <<link, admission>>
    BY <1>3 DEF Ask, OwnerDecides, admittedVars
<1>5. ASSUME Ask PROVE \A k \in RequestId \ {i} : requests'[k] = requests[k]
    BY <1>1, <1>2, <1>5, AskEffect DEF requestVars, TypeInv, TypeOK
<1>6. ASSUME NEW j \in RequestId, OwnerDecides(j)
      PROVE  \A k \in RequestId \ {i} : requests'[k] = requests[k]
    BY <1>1, <1>2, <1>6, OwnerEffect
<1> QED
    BY <1>3, <1>4, <1>5, <1>6

LEMMA LeaveStep ==
    ASSUME IInv, [Next]_vars, NEW i \in RequestId, Ends(requests[i], requests'[i])
    PROVE  \E r \in Requester : r \in Holders /\ Holders' = Holders \ {r}
<1>1. /\ \A j \in RequestId \ {i} : requests'[j] = requests[j]
      /\ UNCHANGED <<link, admission>>
    BY OneEnds
<1>2. Live(i) /\ ~Live(i)'
    BY DEF Ends, Live, Standing
<1> DEFINE r == admission[i].requester
<1>3. r \in Requester /\ pointer[r] = i /\ Standing(i).requester = r
    BY <1>2, LiveIsLatest
<1>4. \A j \in RequestId \ {i} :
          /\ Live(j)' <=> Live(j)
          /\ Standing(j)' = Standing(j)
    BY <1>1 DEF Live, Standing
<1>5. ASSUME NEW j \in RequestId, Live(j), Standing(j).requester = r PROVE j = i
    BY <1>3, <1>5, LiveIsLatest
<1>6. r \in Holders
    BY <1>2, <1>3 DEF Holders
<1>7. Holders' = Holders \ {r}
    <2>1. \A q \in Requester : q \in Holders' <=> q \in Holders /\ q # r
        <3>1. ASSUME NEW q \in Requester, q \in Holders' PROVE q \in Holders /\ q # r
            <4>1. PICK j \in RequestId : Live(j)' /\ Standing(j)'.requester = q
                BY <3>1 DEF Holders
            <4>2. j # i
                BY <1>2, <4>1
            <4>3. Live(j) /\ Standing(j).requester = q
                BY <1>4, <4>1, <4>2
            <4> QED
                BY <1>5, <4>2, <4>3 DEF Holders
        <3>2. ASSUME NEW q \in Requester, q \in Holders, q # r PROVE q \in Holders'
            <4>1. PICK j \in RequestId : Live(j) /\ Standing(j).requester = q
                BY <3>2 DEF Holders
            <4>2. j # i
                BY <1>3, <3>2, <4>1
            <4> QED
                BY <1>4, <4>1, <4>2 DEF Holders
        <3> QED
            BY <3>1, <3>2
    <2>2. Holders \subseteq Requester /\ Holders' \subseteq Requester
        BY DEF Holders
    <2> QED
        BY <2>1, <2>2
<1> QED
    BY <1>3, <1>6, <1>7

LEMMA SpendStep ==
    ASSUME IInv, [Next]_vars, DecideAccept
    PROVE  /\ run.requester \in Requester \ Holders
           /\ Holders' = Holders \cup {run.requester}
<1>1. TypeInv /\ AdmittedInv /\ BlockInv /\ RunInv /\ link.uses \in Nat /\ pc = "decide"
    BY LinkTyped, AcceptEffect DEF IInv, RequestInv, TypeInv
<1>a. link.uses + 1 \in RequestId /\ run.requester \in Requester
    BY <1>1, AcceptEffect
<1>b. PICK n \in RequestId, r \in Requester : n = link.uses + 1 /\ r = run.requester
    BY <1>a
<1>2. /\ n \in RequestId /\ r \in Requester
      /\ admission'[n] = NewRequest
      /\ \A i \in RequestId \ {n} : admission'[i] = admission[i]
      /\ requests' = requests
      /\ requests[n].state = "absent" /\ admission[n].state = "absent"
    BY <1>1, <1>b, AcceptEffect DEF DecideAccept, requestVars, AdmittedInv, TypeInv, TypeOK
<1>3. pointer[r] = NoId \/ requests[pointer[r]].state \in Over
    BY <1>1, <1>b DEF RunInv, BlockInv
<1>4. r \notin Holders
    <2> SUFFICES ASSUME r \in Holders PROVE FALSE
        OBVIOUS
    <2>1. PICK i \in RequestId : Live(i) /\ Standing(i).requester = r
        BY DEF Holders
    <2>2. pointer[r] = i /\ requests[i].state \notin Over
        BY <2>1, LiveIsLatest
    <2> QED
        BY <1>3, <2>2, Values
<1>5. Live(n)' /\ Standing(n)'.requester = r
    <2>1. NewRequest.state \in {"pending", "approved"} /\ NewRequest.requester = r
        BY <1>1, <1>b, AcceptEffect
    <2> QED
        BY <1>2, <2>1 DEF Live, Standing
<1>6. ~Live(n)
    BY <1>2 DEF Live, Standing
<1>7. \A i \in RequestId \ {n} : (Live(i)' <=> Live(i)) /\ Standing(i)' = Standing(i)
    BY <1>2 DEF Live, Standing
<1>8. \A q \in Requester : q \in Holders' <=> q \in Holders \/ q = r
    <2>1. ASSUME NEW q \in Requester, q \in Holders' PROVE q \in Holders \/ q = r
        <3>1. PICK i \in RequestId : Live(i)' /\ Standing(i)'.requester = q
            BY <2>1 DEF Holders
        <3>2. CASE i = n
            BY <1>5, <3>1, <3>2
        <3>3. CASE i # n
            BY <1>7, <3>1, <3>3 DEF Holders
        <3> QED
            BY <3>2, <3>3
    <2>2. ASSUME NEW q \in Requester, q \in Holders PROVE q \in Holders'
        <3>1. PICK i \in RequestId : Live(i) /\ Standing(i).requester = q
            BY <2>2 DEF Holders
        <3>2. i # n
            BY <1>6, <3>1
        <3> QED
            BY <1>7, <3>1, <3>2 DEF Holders
    <2>3. r \in Holders'
        BY <1>2, <1>5 DEF Holders
    <2> QED
        BY <2>1, <2>2, <2>3
<1>9. Holders \subseteq Requester /\ Holders' \subseteq Requester
    BY DEF Holders
<1> QED
    BY <1>2, <1>4, <1>8, <1>9, <1>b

LEMMA StepKeepsPromise ==
    ASSUME IInv, [Next]_vars
    PROVE  [Promise!PromiseNext]_<<link.terms.max_uses, link.uses, Holders, Revoked>>
<1>1. TypeInv /\ OperationInv
    BY DEF IInv
<1>2. CASE DecideAccept
    <2>1. /\ link'.terms = link.terms /\ link'.uses = link.uses + 1 /\ Revoked' = Revoked
          /\ ~Revoked
          /\ link.terms.max_uses = Unlimited \/ link.uses < link.terms.max_uses
        <3>1. /\ link'.terms = link.terms /\ link'.uses = link.uses + 1
              /\ link'.revoked_at = link.revoked_at /\ ~Inactive /\ link.terms \in Terms
            BY <1>1, <1>2, AcceptEffect
        <3>2. link.uses \in Nat /\ link.terms.max_uses \in 1..MaxRequests \cup {Unlimited}
            BY <1>1, <3>1, LinkTyped, TermsOf
        <3> QED
            BY <3>1, <3>2 DEF Inactive, Exhausted, Revoked
    <2>2. run.requester \in Requester \ Holders /\ Holders' = Holders \cup {run.requester}
        BY <1>2, SpendStep
    <2> QED
        <3>1. Promise!Spend(run.requester)
            BY <2>1, <2>2 DEF Promise!Spend, Holders
        <3> QED
            BY <2>2, <3>1 DEF Promise!PromiseNext
<1>3. CASE \E i \in RequestId : Ends(requests[i], requests'[i])
    <2>1. UNCHANGED link /\ \E r \in Requester : r \in Holders /\ Holders' = Holders \ {r}
        BY <1>3, OneEnds, LeaveStep
    <2>2. Revoked' = Revoked
        BY <2>1 DEF Revoked
    <2> QED
        BY <2>1, <2>2 DEF Promise!PromiseNext, Promise!Leave, Holders
<1>4. CASE ~DecideAccept /\ ~\E i \in RequestId : Ends(requests[i], requests'[i])
    <2>1. Holders' = Holders
        BY <1>4, StandingMoves, HoldersStay
    <2>2. link'.uses = link.uses
        BY <1>1, <1>4, UsesStay
    <2>3. ASSUME NEW terms \in Terms, Create(terms)
          PROVE  /\ link.terms.max_uses = 0 /\ link'.terms.max_uses # 0
                 /\ Revoked' = Revoked
        BY <1>1, <2>3, TermsOf DEF Create, Creatable, Publish, TypeInv, LinkInv, NoLink,
           NoTerms, Revoked
    <2>4. ASSUME Revoke
          PROVE  /\ link.terms.max_uses # 0 /\ link'.terms = link.terms
                 /\ Revoked'
        <3>1. link.terms.max_uses # 0
            BY <1>1, <2>4, TermsOf DEF Revoke, TypeInv, LinkInv
        <3>2. link'.terms = link.terms /\ link'.revoked_at = now
            BY <1>1, <2>4, LinkTyped DEF Revoke, Publish, Revise
        <3>3. now \in Nat
            BY <1>1, ClockRuns
        <3> QED
            BY <3>1, <3>2, <3>3, Values DEF Revoked
    <2>5. ASSUME ~(\E terms \in Terms : Create(terms)), ~Revoke
          PROVE  link'.terms = link.terms /\ Revoked' = Revoked
        <3>1. UpdateMetadata => link'.terms = link.terms /\ link'.revoked_at = link.revoked_at
            BY <1>1, LinkTyped DEF UpdateMetadata, Publish, Revise
        <3> QED
            BY <1>4, <2>5, <3>1, NextCases
            DEF Revoked, PrepareAttempt, Admit, AdmitMissing, Ask, Suppress, Probe,
                GatherEvidence, DecideUncertain, DecideReject, Initialize, RecordAccepted,
                OwnerDecides, Tick, ChangeAccess, Observe, vars, admittedVars
    <2>6. CASE \E terms \in Terms : Create(terms)
        <3>1. Promise!Open
            BY <2>1, <2>2, <2>3, <2>6 DEF Promise!Open, Holders
        <3> QED
            BY <3>1 DEF Promise!PromiseNext
    <2>7. CASE Revoke
        BY <2>1, <2>2, <2>4, <2>7 DEF Promise!PromiseNext, Promise!Close, Holders
    <2>8. CASE ~(\E terms \in Terms : Create(terms)) /\ ~Revoke
        <3>1. link'.terms.max_uses = link.terms.max_uses /\ Revoked' = Revoked
            BY <2>5, <2>8
        <3> QED
            BY <2>1, <2>2, <3>1
    <2> QED
        BY <2>6, <2>7, <2>8
<1> QED
    BY <1>2, <1>3, <1>4

\* The link and the owners of its requests implement the promise.
THEOREM AdmissionKeepsPromise == Spec => KeepsPromise
<1>1. Init => Promise!PromiseInit
    <2> SUFFICES ASSUME Init PROVE Promise!PromiseInit
        OBVIOUS
    <2>1. link.terms.max_uses = 0 /\ link.uses = 0 /\ ~Revoked
        BY DEF Init, NoLink, NoTerms, Revoked
    <2>2. \A i \in RequestId : ~Live(i)
        BY DEF Init, Live, Standing, NoRequest
    <2>3. Holders = {}
        BY <2>2 DEF Holders
    <2> QED
        BY <2>1, <2>3 DEF Promise!PromiseInit, Holders
<1>2. IInv /\ [Next]_vars => [Promise!PromiseNext]_Promise!promiseVars
    BY StepKeepsPromise DEF Promise!promiseVars, Holders
<1> QED
    BY <1>1, <1>2, AdmissionInvariant, PTL DEF Spec, KeepsPromise, Promise!PromiseSpec
=============================================================================
