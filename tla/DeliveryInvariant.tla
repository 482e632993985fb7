------------------------- MODULE DeliveryInvariant -------------------------
(***************************************************************************)
(* The inductive invariant of Delivery, in four layers: what the fence     *)
(* says of the PUTs, what the journal says of the receipts, what the timer *)
(* slot says of the wakes, and what the snapshots sent say of each other.  *)
(* Each layer rests on ones before it.                                     *)
(***************************************************************************)
EXTENDS Delivery

\* The refusal being released is a generation, and a PUT leaves for one.
ControlTyped ==
    /\ pc = "reject" => rejected_generation # 0
    /\ pc \in {"put", "await"} => fence.generation # 0
    /\ fence.retryable => fence.generation # 0

TypeInv == TypeOK /\ ControlTyped

-----------------------------------------------------------------------------
(* The fence *)

\* Below the fence every PUT was refused, above it none was ever sent.
FenceDividesPuts ==
    \A g \in Generation :
        /\ g > fence.generation => put[g] = "unsent"
        /\ g < fence.generation => put[g] = "refused"

\* Whoever holds a release, holds it for a refused PUT.
ReleasesAreRefusals ==
    /\ \A g \in lateReleases : put[g] = "refused"
    /\ rejected_generation # 0 => put[rejected_generation] = "refused"
    /\ result.rejected # 0 => put[result.rejected] = "refused"

\* The claim is fresh until its PUT leaves, and the receipt still permits it.
WriterHoldsFence ==
    /\ pc = "put" => put[fence.generation] = "unsent" /\ ~fence.retryable
    /\ pc \in {"put", "await"} => ~ReadOnly

FenceInv ==
    /\ FenceDividesPuts
    /\ OpenFenceMeansRefused
    /\ ReleasesAreRefusals
    /\ WriterHoldsFence

-----------------------------------------------------------------------------
(* The receipt *)

Returned == {"done", "reject", "retain"}

\* A settled receipt ends the delivery; a failed one says nothing was written.
SettledReceiptRests ==
    /\ receipt.outcome \in Confirmed => pc = "idle"
    /\ receipt.outcome = "failed" => NothingWritten

\* A waiting receipt is true until the closure starts again.
WaitingReceiptIsTrue ==
    receipt.outcome \in Waiting /\ pc \in {"idle", "release", "preflight"} =>
        NothingWritten

\* A pending release keeps the closure from doing anything at all.
PendingReleaseHolds ==
    ~released /\ pc \notin {"idle", "release"} =>
        /\ pc \in {"preflight", "check", "done", "retain"}
        /\ receipt.outcome \in Waiting
        /\ NothingWritten
        /\ result.rejected = 0
        /\ pc \in {"done", "retain"} => result.outcome \in Waiting

\* The closure that saw no earlier PUT looked at a fence open for a claim.
UnattemptedIsOpen ==
    pc = "prepare" /\ ~attempted => Claimable(fence) /\ ~ReadOnly

\* What the closure returned may be retained as it is.
ResultIsTrue ==
    /\ pc \in Returned => result.outcome # "none"
    /\ pc \in Returned /\ result.outcome \in Waiting \cup {"failed"} =>
          NothingWritten /\ ~ReadOnly
    /\ result.rejected # 0 => pc \in Returned /\ result.outcome \in Waiting

\* A refused generation comes with a receipt, or a result, that tells of it.
RefusalIsTold ==
    rejected_generation # 0 =>
        /\ pc \in {"reject", "retain"} => result.outcome \in Waiting
        /\ pc \notin {"reject", "retain"} => receipt.outcome \in Waiting
        /\ pc \in Closure \cup {"preflight"} => ~released

ReceiptInv ==
    /\ SettledReceiptRests
    /\ WaitingReceiptIsTrue
    /\ PendingReleaseHolds
    /\ UnattemptedIsOpen
    /\ ResultIsTrue
    /\ RefusalIsTold

-----------------------------------------------------------------------------
(* The timer *)

\* The timer that stands was sent and not handled; no wake is from the future.
StandingTimerIsSent ==
    /\ wakes \subseteq 1..recheck_generation
    /\ recheck_scheduled # 0 => recheck_scheduled \in wakes

\* Only an onboarded account has receipts and running deliveries.
ReceiptNeedsOnboarding ==
    receipt.outcome # "none" \/ pc # "idle" => onboarded

WaitingHasTimer ==
    receipt.outcome \in Waiting /\ pc = "idle" => recheck_scheduled # 0

TimerInv ==
    /\ StandingTimerIsSent
    /\ ReceiptNeedsOnboarding
    /\ WaitingHasTimer

-----------------------------------------------------------------------------
(* The snapshot *)

\* Until it is settled the snapshot is the receipt; a settled one is of an
\* invitation that GitHub created, one revision after its receipt.
SnapshotFollowsReceipt ==
    /\ snapshot.settlement = "none" =>
          snapshot.outcome = receipt.outcome /\ snapshot.revision = receipt.revision
    /\ snapshot.settlement # "none" => receipt.outcome = "created"

\* What was sent is older than the snapshot, or the snapshot itself.
SentIsOlder ==
    \A s \in outbox : s.revision < snapshot.revision \/ s = snapshot

SnapshotInv ==
    /\ SnapshotFollowsReceipt
    /\ SentIsOlder
    /\ RevisionNamesSnapshot

IInv == TypeInv /\ FenceInv /\ ReceiptInv /\ TimerInv /\ SnapshotInv
=============================================================================
