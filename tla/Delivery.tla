------------------------------ MODULE Delivery ------------------------------
(***************************************************************************)
(* RepositoryDelivery/<request>:<repository>: the durable object that asks *)
(* GitHub, at most once, to add a collaborator                             *)
(* (crates/ghinvite-workflows/src/delivery.rs), with the SQL write fence   *)
(* it claims before each PUT (ghinvite-core/src/storage/                   *)
(* delivery_attempts.rs) and GitHub's answer to that PUT.                  *)
(*                                                                         *)
(* One object is one key, and its handlers exclude each other, so the      *)
(* module follows one delivery and one running invocation. What interleaves*)
(* with it: GitHub deciding a PUT nobody waits for any more, a release     *)
(* statement that reaches SQL after its caller gave up, crashes that make  *)
(* Restate run the effect closure again, recovery calls, and wakes that    *)
(* arrive late or twice. Restate journals every ctx step, so a crash costs *)
(* only the closure that was running; everything before it stays.          *)
(*                                                                         *)
(* A command other than the bound one is refused with 409 before anything  *)
(* changes, so the module follows the bound command. The account owner's   *)
(* answer is one of the prerequisites that may be missing.                 *)
(***************************************************************************)
EXTENDS Integers

CONSTANTS
    MaxGeneration,  \* bound on fence generations, above what MaxFaults allows
    MaxFaults,      \* bound on disturbances: crashes, SQL errors, refusals...
    MaxCalls        \* bound on create calls from dispatch and recovery

ASSUME DeliveryBounds ==
    /\ MaxGeneration \in Nat \ {0}
    /\ MaxFaults \in Nat
    /\ MaxCalls \in Nat

VARIABLES
    receipt,              \* "receipt": the create receipt, kept for ever
    snapshot,             \* "snapshot": receipt plus settlement, for readers
    rejected_generation,  \* refused PUT whose fence is not yet released, or 0
    recheck_scheduled,    \* generation of the timer that stands, or 0
    recheck_generation,   \* last generation ever given to a timer
    wakes,                \* recheck messages sent and not yet handled
    outbox,               \* snapshots sent to DeliveryProjection, in any order
    onboarded,            \* the account owner has an installation context
    fence,                \* the delivery_attempts row
    lateReleases,         \* release statements that may still reach SQL
    put,                  \* GitHub's view of the PUT of each generation
    pc,                   \* where the running invocation is
    released,             \* journaled: nothing is left to release
    attempted,            \* closure local: an earlier PUT may exist
    result,               \* closure result, before and after its journaling
    faults,               \* disturbances so far
    calls                 \* create calls so far

owner == <<receipt, snapshot, rejected_generation, recheck_scheduled,
           recheck_generation>>
local == <<released, attempted, result>>
vars == <<owner, wakes, outbox, onboarded, fence, lateReleases, put, pc,
          local, faults, calls>>

-----------------------------------------------------------------------------
Generation == 1..MaxGeneration
PutState == {"unsent", "inflight", "created", "member", "refused", "invalid",
             "lost"}

\* CreateOutcome; "none" is no receipt.
Confirmed == {"created", "member", "failed"}
Waiting == {"blocked", "throttled"}
CreateOutcome == {"none", "unknown"} \cup Confirmed \cup Waiting

SettledState == {"accepted", "declined", "cancelled", "expired"}

NoReceipt == [outcome |-> "none", revision |-> 0]
NoSnapshot == [outcome |-> "none", revision |-> 0, settlement |-> "none"]
NoResult == [outcome |-> "none", wait |-> FALSE, rejected |-> 0]
NoFence == [generation |-> 0, retryable |-> FALSE]

PC == {"idle", "release", "preflight", "check", "prepare", "put", "await",
       "read", "done", "reject", "retain"}

\* Inside the re-executable "guarded_github_create" step.
Closure == {"check", "prepare", "put", "await", "read", "done"}

CreateReceipt == [outcome : CreateOutcome, revision : Nat]
DeliverySnapshot == [outcome : CreateOutcome, revision : Nat,
                     settlement : SettledState \cup {"none"}]
AttemptResult == [outcome : CreateOutcome, wait : BOOLEAN,
                  rejected : Generation \cup {0}]
FenceRow == [generation : Generation \cup {0}, retryable : BOOLEAN]

TypeOK ==
    /\ receipt \in CreateReceipt
    /\ snapshot \in DeliverySnapshot
    /\ rejected_generation \in Generation \cup {0}
    /\ recheck_scheduled \in Nat
    /\ recheck_generation \in Nat
    /\ wakes \subseteq Nat
    /\ outbox \subseteq DeliverySnapshot
    /\ onboarded \in BOOLEAN
    /\ fence \in FenceRow
    /\ lateReleases \subseteq Generation
    /\ put \in [Generation -> PutState]
    /\ pc \in PC
    /\ released \in BOOLEAN
    /\ attempted \in BOOLEAN
    /\ result \in AttemptResult
    /\ faults \in Nat
    /\ calls \in Nat

Init ==
    /\ receipt = NoReceipt
    /\ snapshot = NoSnapshot
    /\ rejected_generation = 0
    /\ recheck_scheduled = 0
    /\ recheck_generation = 0
    /\ wakes = {}
    /\ outbox = {}
    /\ onboarded \in BOOLEAN
    /\ fence = NoFence
    /\ lateReleases = {}
    /\ put = [g \in Generation |-> "unsent"]
    /\ pc = "idle"
    /\ released = TRUE
    /\ attempted = FALSE
    /\ result = NoResult
    /\ faults = 0
    /\ calls = 0

-----------------------------------------------------------------------------
(* The SQL fence *)

\* FENCED: a row whose generation has not been released.
Fenced(row) == row.generation # 0 /\ ~row.retryable

\* CLAIM returns a generation only for a missing or a released row.
Claimable(row) == ~Fenced(row)

Claim(row) ==
    [generation |-> row.generation + 1, retryable |-> FALSE]

\* Defect: the release forgets AND generation = ?2.
ReleaseAny(row, g) == [row EXCEPT !.retryable = TRUE]

\* REJECT releases exactly the generation that was refused.
Release(row, g) ==
    IF row.generation = g THEN [row EXCEPT !.retryable = TRUE] ELSE row

-----------------------------------------------------------------------------
(* Timers *)

\* Defect: the timer is named after the receipt revision it waits behind.
WakeOfRevision == receipt.revision + 1

\* schedule_recheck: one timer stands at a time, under a fresh generation.
NextWake == recheck_generation + 1

ScheduleRecheck ==
    \/ /\ recheck_scheduled = 0
       /\ recheck_generation' = NextWake
       /\ recheck_scheduled' = NextWake
       /\ wakes' = wakes \cup {NextWake}
    \/ /\ recheck_scheduled # 0
       /\ UNCHANGED <<recheck_scheduled, recheck_generation, wakes>>

-----------------------------------------------------------------------------
(* create, step by step *)

Disturbance == faults < MaxFaults /\ faults' = faults + 1

\* A retained unknown receipt prohibits writes for good.
ReadOnly == receipt.outcome = "unknown"

\* CreateOutcome::confirmed: GitHub's answer is settled, create repeats it.
Replied == receipt.outcome \in Confirmed

\* create up to the account owner's answer: a confirmed receipt is replayed to
\* the projection; without a retained installation context the call fails 503.
Enter ==
    \/ /\ Replied
       /\ outbox' = outbox \cup {snapshot}
       /\ UNCHANGED pc
    \/ /\ ~Replied
       /\ ~onboarded
       /\ UNCHANGED <<outbox, pc>>
    \/ /\ ~Replied
       /\ onboarded
       /\ pc' = "release"
       /\ UNCHANGED outbox

\* InvitationRequest's dispatch or recover submits the approved command.
Create ==
    /\ pc = "idle"
    /\ calls < MaxCalls
    /\ calls' = calls + 1
    /\ Enter
    /\ UNCHANGED <<owner, wakes, onboarded, fence, lateReleases, put, local,
                   faults>>

\* Only the generation that stands consumes the timer and advances delivery.
WakeCurrent(g) == g = recheck_scheduled

Recheck(g) ==
    /\ pc = "idle"
    /\ g \in wakes
    /\ wakes' = wakes \ {g}
    /\ \/ /\ WakeCurrent(g)
          /\ recheck_scheduled' = 0
          /\ Enter
       \/ /\ ~WakeCurrent(g)
          /\ UNCHANGED <<recheck_scheduled, outbox, pc>>
    /\ UNCHANGED <<receipt, snapshot, rejected_generation, recheck_generation,
                   onboarded, fence, lateReleases, put, local, faults, calls>>

\* Releasing the refused generation succeeds, or nobody learns whether it did:
\* the statement may then still reach SQL at any later time.
ReleaseAcknowledged ==
    /\ fence' = Release(fence, rejected_generation)
    /\ rejected_generation' = 0
    /\ UNCHANGED <<lateReleases, faults>>

ReleaseUnacknowledged ==
    /\ Disturbance
    /\ lateReleases' = lateReleases \cup {rejected_generation}
    /\ UNCHANGED <<fence, rejected_generation>>

\* "release_rejected_generation": finish the release an earlier run could not.
ReleaseRejected ==
    /\ pc = "release"
    /\ pc' = "preflight"
    /\ \/ /\ rejected_generation = 0
          /\ released' = TRUE
          /\ UNCHANGED <<fence, rejected_generation, lateReleases, faults>>
       \/ /\ rejected_generation # 0
          /\ ReleaseAcknowledged
          /\ released' = TRUE
       \/ /\ rejected_generation # 0
          /\ ReleaseUnacknowledged
          /\ released' = FALSE
    /\ UNCHANGED <<receipt, snapshot, recheck_scheduled, recheck_generation,
                   wakes, outbox, onboarded, put, attempted, result, calls>>

\* "delivery_fence_preflight": an unavailable fence reschedules and fails 503.
Preflight ==
    /\ pc = "preflight"
    /\ \/ /\ pc' = "check"
          /\ UNCHANGED <<recheck_scheduled, recheck_generation, wakes, faults>>
       \/ /\ Disturbance
          /\ pc' = "idle"
          /\ ScheduleRecheck
    /\ UNCHANGED <<receipt, snapshot, rejected_generation, outbox, onboarded,
                   fence, lateReleases, put, local, calls>>

Finish(outcome, wait, rejected) ==
    /\ result' = [outcome |-> outcome, wait |-> wait, rejected |-> rejected]
    /\ pc' = "done"

\* While a refused generation cannot be released, create repeats the receipt
\* that told of the refusal.
Repeat == receipt.outcome

\* The closure starts (again): nothing may be sent while a release is pending;
\* otherwise it reads whether an earlier PUT may exist. A failed read proves
\* nothing, so it reports unknown and asks for a later, read-only look.
CheckFence ==
    /\ pc = "check"
    /\ \/ /\ ~released
          /\ Finish(Repeat, FALSE, 0)
          /\ UNCHANGED <<attempted, faults>>
       \/ /\ released
          /\ attempted' = (ReadOnly \/ Fenced(fence))
          /\ pc' = "prepare"
          /\ UNCHANGED <<result, faults>>
       \/ /\ released
          /\ ~ReadOnly
          /\ Disturbance
          /\ Finish("unknown", TRUE, 0)
          /\ UNCHANGED attempted
    /\ UNCHANGED <<owner, wakes, outbox, onboarded, fence, lateReleases, put,
                   released, calls>>

\* Defect: a missing prerequisite blocks even after a PUT.
HinderedAlways(throttled) == IF throttled THEN "throttled" ELSE "blocked"

\* What a create that cannot proceed reports: blocked only if no PUT preceded.
Hindered(throttled) ==
    IF attempted THEN "unknown"
    ELSE IF throttled THEN "throttled" ELSE "blocked"

\* Installation, repository, requester or token is missing, or GitHub throttles
\* the question.
PrerequisiteMissing ==
    /\ pc = "prepare"
    /\ Disturbance
    /\ \E throttled \in BOOLEAN : Finish(Hindered(throttled), throttled, 0)
    /\ UNCHANGED <<owner, wakes, outbox, onboarded, fence, lateReleases, put,
                   released, attempted, calls>>

\* Defect: the retained receipt is not consulted, only the fence.
MayWriteByFence == Claimable(fence)

\* A claim opens one PUT, unless the receipt is already unknown.
MayWrite == Claimable(fence) /\ ~ReadOnly

AfterClaim == IF Claimable(fence) THEN Claim(fence) ELSE fence

ClaimFence ==
    /\ pc = "prepare"
    /\ Claimable(fence) => fence.generation < MaxGeneration
    /\ fence' = AfterClaim
    /\ \/ MayWrite /\ pc' = "put"
       \/ ~MayWrite /\ pc' = "read"
    /\ UNCHANGED <<owner, wakes, outbox, onboarded, lateReleases, put, local,
                   faults, calls>>

\* The claim's acknowledgement is lost, before or after it committed.
ClaimLost ==
    /\ pc = "prepare"
    /\ Claimable(fence) => fence.generation < MaxGeneration
    /\ Disturbance
    /\ fence' \in {fence, AfterClaim}
    /\ Finish("unknown", TRUE, 0)
    /\ UNCHANGED <<owner, wakes, outbox, onboarded, lateReleases, put,
                   released, attempted, calls>>

\* add_collaborator leaves for GitHub under the generation just claimed.
SendPut ==
    /\ pc = "put"
    /\ put' = [put EXCEPT ![fence.generation] = "inflight"]
    /\ pc' = "await"
    /\ UNCHANGED <<owner, wakes, outbox, onboarded, fence, lateReleases,
                   local, faults, calls>>

\* GitHub's answer, if it arrives. A refusal names the generation to release.
PutAnswered ==
    /\ pc = "await"
    /\ \/ /\ put[fence.generation] = "created"
          /\ Finish("created", FALSE, 0)
       \/ /\ put[fence.generation] = "member"
          /\ Finish("member", FALSE, 0)
       \/ /\ put[fence.generation] = "invalid"
          /\ Finish("failed", FALSE, 0)
       \/ /\ put[fence.generation] = "refused"
          /\ \E throttled \in BOOLEAN :
                Finish(IF throttled THEN "throttled" ELSE "blocked",
                       throttled, fence.generation)
    /\ UNCHANGED <<owner, wakes, outbox, onboarded, fence, lateReleases, put,
                   released, attempted, faults, calls>>

\* A transport failure or timeout keeps the fence: the PUT may yet be applied.
PutUnanswered ==
    /\ pc = "await"
    /\ Finish("unknown", FALSE, 0)
    /\ UNCHANGED <<owner, wakes, outbox, onboarded, fence, lateReleases, put,
                   released, attempted, faults, calls>>

\* Read-only reconciliation: a matching pending invitation or membership
\* confirms; absence or an unreadable answer leaves the outcome unknown; a
\* throttled read earns another look.
ReadEvidence ==
    /\ pc = "read"
    /\ \/ /\ \E outcome \in {"created", "member", "unknown"} :
                Finish(outcome, FALSE, 0)
          /\ UNCHANGED faults
       \/ /\ Disturbance
          /\ Finish("unknown", TRUE, 0)
    /\ UNCHANGED <<owner, wakes, outbox, onboarded, fence, lateReleases, put,
                   released, attempted, calls>>

\* The process dies before the closure's result is journaled: Restate runs the
\* closure again from its start; what it sent stays sent.
CrashClosure ==
    /\ pc \in Closure \ {"check"}
    /\ Disturbance
    /\ pc' = "check"
    /\ attempted' = FALSE
    /\ result' = NoResult
    /\ UNCHANGED <<owner, wakes, outbox, onboarded, fence, lateReleases, put,
                   released, calls>>

\* The result is journaled; a refused generation is retained before release.
JournalResult ==
    /\ pc = "done"
    /\ \/ /\ result.rejected = 0
          /\ pc' = "retain"
          /\ UNCHANGED rejected_generation
       \/ /\ result.rejected # 0
          /\ pc' = "reject"
          /\ rejected_generation' = result.rejected
    /\ UNCHANGED <<receipt, snapshot, recheck_scheduled, recheck_generation,
                   wakes, outbox, onboarded, fence, lateReleases, put, local,
                   faults, calls>>

\* "release_refused_put"
ReleaseRefused ==
    /\ pc = "reject"
    /\ pc' = "retain"
    /\ ReleaseAcknowledged \/ ReleaseUnacknowledged
    /\ UNCHANGED <<receipt, snapshot, recheck_scheduled, recheck_generation,
                   wakes, outbox, onboarded, put, local, calls>>

\* next_receipt: a retained unknown is never downgraded to blocked.
NextOutcome ==
    IF ReadOnly /\ result.outcome \in Waiting THEN "unknown"
    ELSE result.outcome

NextReceipt == [outcome |-> NextOutcome, revision |-> receipt.revision + 1]

\* Defect: only a throttle is rechecked.
RecheckAfterThrottle == result.wait

\* A throttle rechecks on GitHub's wait, a block on the hourly one.
RecheckAfter == result.wait \/ NextOutcome \in Waiting

SnapshotOf(created) ==
    [outcome |-> created.outcome, revision |-> created.revision,
     settlement |-> "none"]

\* Retain the receipt, project it, and arrange the recheck.
RetainReceipt ==
    /\ pc = "retain"
    /\ pc' = "idle"
    /\ receipt' = NextReceipt
    /\ snapshot' = SnapshotOf(NextReceipt)
    /\ outbox' = outbox \cup {SnapshotOf(NextReceipt)}
    /\ \/ RecheckAfter /\ ScheduleRecheck
       \/ /\ ~RecheckAfter
          /\ UNCHANGED <<recheck_scheduled, recheck_generation, wakes>>
    /\ attempted' = FALSE
    /\ result' = NoResult
    /\ released' = TRUE
    /\ UNCHANGED <<rejected_generation, onboarded, fence, lateReleases, put,
                   faults, calls>>

-----------------------------------------------------------------------------
(* Settlement: the other handlers of the same object reduce to this step.  *)

Eligible(snap) == snap.outcome = "created" /\ snap.settlement = "none"

\* Defect: settlement keeps the revision of the create receipt.
SettledInPlace(snap, state) == [snap EXCEPT !.settlement = state]

Settled(snap, state) ==
    [outcome |-> snap.outcome, revision |-> snap.revision + 1,
     settlement |-> state]

Settle(state) ==
    /\ pc = "idle"
    /\ Eligible(snapshot)
    /\ snapshot' = Settled(snapshot, state)
    /\ outbox' = outbox \cup {snapshot'}
    /\ UNCHANGED <<receipt, rejected_generation, recheck_scheduled,
                   recheck_generation, wakes, onboarded, fence, lateReleases,
                   put, pc, local, faults, calls>>

-----------------------------------------------------------------------------
(* The surroundings *)

\* GitHub decides a PUT in flight, whether or not anybody still waits.
GithubDecides(g) ==
    /\ put[g] = "inflight"
    /\ \/ /\ put' \in {[put EXCEPT ![g] = "created"],
                       [put EXCEPT ![g] = "member"]}
          /\ UNCHANGED faults
       \/ /\ Disturbance
          /\ put' \in {[put EXCEPT ![g] = "refused"],
                       [put EXCEPT ![g] = "invalid"],
                       [put EXCEPT ![g] = "lost"]}
    /\ UNCHANGED <<owner, wakes, outbox, onboarded, fence, lateReleases, pc,
                   local, calls>>

\* A release statement whose caller gave up reaches SQL.
LateRelease(g) ==
    /\ g \in lateReleases
    /\ lateReleases' = lateReleases \ {g}
    /\ fence' = Release(fence, g)
    /\ UNCHANGED <<owner, wakes, outbox, onboarded, put, pc, local, faults,
                   calls>>

\* A wake that was handled arrives again.
DuplicateWake(g) ==
    /\ g \in 1..recheck_generation \ wakes
    /\ Disturbance
    /\ wakes' = wakes \cup {g}
    /\ UNCHANGED <<owner, outbox, onboarded, fence, lateReleases, put, pc,
                   local, calls>>

\* The account owner first retains an installation context; it never loses it.
Onboard ==
    /\ ~onboarded
    /\ onboarded' = TRUE
    /\ UNCHANGED <<owner, wakes, outbox, fence, lateReleases, put, pc, local,
                   faults, calls>>

-----------------------------------------------------------------------------
Proceed ==
    \/ ReleaseRejected \/ Preflight \/ CheckFence \/ PrerequisiteMissing
    \/ ClaimFence \/ ClaimLost \/ SendPut \/ PutAnswered \/ PutUnanswered
    \/ ReadEvidence \/ JournalResult \/ ReleaseRefused \/ RetainReceipt

Next ==
    \/ Create
    \/ \E g \in wakes : Recheck(g)
    \/ Proceed
    \/ CrashClosure
    \/ \E state \in SettledState : Settle(state)
    \/ \E g \in Generation : GithubDecides(g)
    \/ \E g \in lateReleases : LateRelease(g)
    \/ \E g \in 1..recheck_generation : DuplicateWake(g)
    \/ Onboard

Spec == Init /\ [][Next]_vars

\* Restate resumes a running invocation and delivers a durable timer. Nothing
\* is assumed of GitHub, of recovery callers or of settlement.
Fairness ==
    /\ WF_vars(Proceed)
    /\ WF_vars(Recheck(recheck_scheduled))

FairSpec == Spec /\ Fairness

-----------------------------------------------------------------------------
(* Properties *)

\* A PUT leaves only after GitHub positively refused the PUT of every earlier
\* generation: whatever is lost, late or run again, no second write is sent
\* beside one that was, or may still be, applied (attempt, delivery.rs:563).
NoWriteBesideUndecided ==
    \A g, h \in Generation :
        g < h /\ put[h] # "unsent" => put[g] \in {"refused"}

\* The fence is open for another claim only while nothing sent under the
\* current generation can still take effect, even if the statement that
\* opened it arrived late (REJECT, delivery_attempts.rs:11).
OpenFenceMeansRefused ==
    fence.retryable => put[fence.generation] = "refused"

\* A resting blocked or throttled receipt, and a failed one always, are right
\* to say that no invitation came of this delivery.
NothingWritten ==
    \A g \in Generation : put[g] \notin {"inflight", "created"}

NegativeReceiptIsTrue ==
    /\ receipt.outcome = "failed" => NothingWritten
    /\ receipt.outcome \in Waiting /\ pc = "idle" => NothingWritten

\* Once the owner has told "unknown" it sends no PUT any more, whatever became
\* of the fence row (read_only, delivery.rs:219).
UnknownNeverWrites ==
    [][ReadOnly => \A g \in Generation :
                      put[g] = "unsent" => put'[g] = "unsent"]_vars

\* A confirmed receipt is final, unknown only ever turns into a confirmed
\* success, and a settlement is never undone by replaying create.
ReceiptIsMonotone ==
    [][/\ receipt.outcome \in Confirmed => receipt' = receipt
       /\ ReadOnly => receipt'.outcome \in {"unknown", "created", "member"}
       /\ snapshot.settlement # "none" => snapshot' = snapshot]_vars

\* The projection of snapshots is decided by their revisions alone, so two
\* different snapshots of one delivery must never share a revision.
RevisionNamesSnapshot ==
    \A s, t \in outbox : s.revision = t.revision => s = t

\* A delivery that waits for a prerequisite has a timer, and a retained timer
\* has its wake under way; otherwise the slot would block every later timer
\* and the delivery would wait for ever (schedule_recheck, delivery.rs:358).
RecheckStands ==
    /\ receipt.outcome \in Waiting /\ pc = "idle" => recheck_scheduled # 0
    /\ recheck_scheduled # 0 => recheck_scheduled \in wakes

\* A standing timer ends only by its own wake, and a generation that stood never
\* stands again: neither explicit recovery nor a late or repeated wake can drop
\* the timer, consume a newer one or open a second stream of rechecks (recheck,
\* delivery.rs:143; schedule_recheck, line 358).
TimerMeetsItsWake ==
    [][/\ recheck_scheduled' \in {0, recheck_scheduled}
             \/ recheck_scheduled' > recheck_generation
       /\ recheck_scheduled \notin {0, recheck_scheduled'} =>
             wakes' = wakes \ {recheck_scheduled}]_vars

\* A refused PUT awaiting its release always comes with the receipt that told
\* so: the closure may repeat it ("rejected attempt retains receipt").
RejectedRetainsReceipt ==
    /\ rejected_generation # 0 /\ pc \notin {"reject", "retain"} =>
          receipt.outcome \in Waiting
    /\ pc = "check" /\ ~released => receipt.outcome \in Waiting

\* A delivery that was once attempted and got a receipt or a timer ends up
\* with an outcome that no timer has to improve, once disturbances stop.
Started == receipt.outcome # "none" \/ recheck_scheduled # 0

WaitingIsResolved ==
    Started ~> (receipt.outcome \in Confirmed \cup {"unknown"})

-----------------------------------------------------------------------------
(* The promise kept towards the request *)

ToldOutcome ==
    IF receipt.outcome = "throttled" THEN "blocked" ELSE receipt.outcome

WriteOutcome ==
    IF \E g \in Generation : put[g] = "created" THEN "applied"
    ELSE IF \E g \in Generation : put[g] = "inflight" THEN "out" ELSE "none"

Promise == INSTANCE DeliveryPromise WITH
    told <- ToldOutcome, write <- WriteOutcome

\* The fenced, journaled delivery implements the promise of at most one write
\* and of truthful, lasting reports.
KeepsPromise == Promise!PromiseSpec
=============================================================================
