--------------------------- MODULE DeliveryProofs ---------------------------
(***************************************************************************)
(* Theorems about Delivery, for every number of generations, disturbances  *)
(* and calls.                                                              *)
(***************************************************************************)
EXTENDS DeliveryInvariant, TLAPS

(* One step per action of Next, used by every proof below.                 *)
LEMMA NextCases ==
    ASSUME [Next]_vars
    PROVE  \/ Create
           \/ \E g \in wakes : Recheck(g)
           \/ ReleaseRejected
           \/ Preflight
           \/ CheckFence
           \/ PrerequisiteMissing
           \/ ClaimFence
           \/ ClaimLost
           \/ SendPut
           \/ PutAnswered
           \/ PutUnanswered
           \/ ReadEvidence
           \/ CrashClosure
           \/ JournalResult
           \/ ReleaseRefused
           \/ RetainReceipt
           \/ \E state \in SettledState : Settle(state)
           \/ \E g \in Generation : GithubDecides(g)
           \/ \E g \in lateReleases : LateRelease(g)
           \/ \E g \in 1..recheck_generation : DuplicateWake(g)
           \/ Onboard
           \/ UNCHANGED vars
BY DEF Next, Proceed

-----------------------------------------------------------------------------
(* Types *)

\* The records the owner builds are well typed.
LEMMA SettledTyped ==
    ASSUME NEW snap \in DeliverySnapshot, NEW state \in SettledState
    PROVE  Settled(snap, state) \in DeliverySnapshot
BY DEF Settled, DeliverySnapshot

LEMMA NextReceiptTyped ==
    ASSUME receipt \in CreateReceipt, result \in AttemptResult
    PROVE  /\ NextReceipt \in CreateReceipt
           /\ SnapshotOf(NextReceipt) \in DeliverySnapshot
BY DEF NextReceipt, NextOutcome, SnapshotOf, CreateReceipt, AttemptResult,
       DeliverySnapshot, CreateOutcome

LEMMA FinishTyped ==
    ASSUME NEW outcome \in CreateOutcome, NEW wait \in BOOLEAN,
           NEW rejected \in Generation \cup {0},
           Finish(outcome, wait, rejected)
    PROVE  result' \in AttemptResult /\ pc' = "done"
BY DEF Finish, AttemptResult

LEMMA ReleaseTyped ==
    ASSUME NEW row \in FenceRow, NEW g \in Generation
    PROVE  /\ Release(row, g) \in FenceRow
           /\ Release(row, g).generation = row.generation
           /\ Release(row, g).retryable =>
                 row.retryable \/ row.generation = g
BY DEF Release, FenceRow

LEMMA ClaimTyped ==
    ASSUME NEW row \in FenceRow, row.generation < MaxGeneration
    PROVE  /\ Claim(row) \in FenceRow
           /\ Claim(row).generation = row.generation + 1
           /\ ~Claim(row).retryable
BY DeliveryBounds DEF Claim, FenceRow, Generation

LEMMA InitialRecordsTyped ==
    /\ NoReceipt \in CreateReceipt
    /\ NoSnapshot \in DeliverySnapshot
    /\ NoResult \in AttemptResult
    /\ NoFence \in FenceRow
BY DEF NoReceipt, NoSnapshot, NoResult, NoFence, CreateReceipt,
       DeliverySnapshot, AttemptResult, FenceRow, CreateOutcome

LEMMA TypeInit == Init => TypeInv
<1> SUFFICES ASSUME Init PROVE TypeInv
    OBVIOUS
<1>1. fence = NoFence /\ ~fence.retryable
    BY DEF Init, NoFence
<1>2. put \in [Generation -> PutState]
    BY DEF Init, PutState
<1> QED
    BY <1>1, <1>2, InitialRecordsTyped DEF Init, TypeInv, TypeOK, ControlTyped, PC

LEMMA ScheduleRecheckTyped ==
    ASSUME recheck_scheduled \in Nat, recheck_generation \in Nat,
           wakes \subseteq Nat, ScheduleRecheck
    PROVE  /\ recheck_scheduled' \in Nat
           /\ recheck_generation' \in Nat
           /\ wakes' \subseteq Nat
<1>1. CASE recheck_scheduled = 0
    <2>1. NextWake \in Nat
        BY DEF NextWake
    <2>2. /\ recheck_generation' = NextWake
          /\ recheck_scheduled' = NextWake
          /\ wakes' = wakes \cup {NextWake}
        BY <1>1 DEF ScheduleRecheck
    <2> QED
        BY <2>1, <2>2
<1>2. CASE recheck_scheduled # 0
    BY <1>2 DEF ScheduleRecheck
<1> QED
    BY <1>1, <1>2

LEMMA DisturbanceTyped == ASSUME faults \in Nat, Disturbance PROVE faults' \in Nat
BY DEF Disturbance

LEMMA AfterClaimTyped ==
    ASSUME fence \in FenceRow, fence.retryable => fence.generation # 0,
           Claimable(fence) => fence.generation < MaxGeneration
    PROVE  /\ AfterClaim \in FenceRow
           /\ AfterClaim.generation # 0
           /\ ~AfterClaim.retryable
<1>1. CASE Claimable(fence)
    <2>1. Claim(fence) \in FenceRow /\ Claim(fence).generation = fence.generation + 1 /\ ~Claim(fence).retryable
        BY <1>1, ClaimTyped
    <2>2. fence.generation \in Nat
        BY DeliveryBounds DEF FenceRow, Generation
    <2> QED
        BY <1>1, <2>1, <2>2 DEF AfterClaim
<1>2. CASE ~Claimable(fence)
    BY <1>2 DEF AfterClaim, Claimable, Fenced
<1> QED
    BY <1>1, <1>2

LEMMA ReleasedTyped ==
    ASSUME fence \in FenceRow, lateReleases \subseteq Generation, faults \in Nat,
           rejected_generation \in Generation,
           fence.retryable => fence.generation # 0,
           ReleaseAcknowledged \/ ReleaseUnacknowledged
    PROVE  /\ fence' \in FenceRow
           /\ fence'.generation = fence.generation
           /\ fence'.retryable => fence'.generation # 0
           /\ rejected_generation' \in Generation \cup {0}
           /\ lateReleases' \subseteq Generation
           /\ faults' \in Nat
<1>0. 0 \notin Generation
    BY DEF Generation
<1>1. CASE ReleaseAcknowledged
    BY <1>0, <1>1, ReleaseTyped DEF ReleaseAcknowledged
<1>2. CASE ReleaseUnacknowledged
    BY <1>2, DisturbanceTyped DEF ReleaseUnacknowledged
<1> QED
    BY <1>1, <1>2

LEMMA TypeNext == TypeInv /\ [Next]_vars => TypeInv'
<1> SUFFICES ASSUME TypeInv, [Next]_vars PROVE TypeInv'
    OBVIOUS
<1> USE DEF TypeInv, TypeOK, ControlTyped, owner, local
<1>1. CASE Create
    BY <1>1 DEF Create, Enter, Replied, PC
<1>2. ASSUME NEW g \in wakes, Recheck(g) PROVE TypeInv'
    BY <1>2 DEF Recheck, Enter, Replied, PC
<1>3. CASE ReleaseRejected
    <2>1. CASE rejected_generation = 0
        BY <1>3, <2>1 DEF ReleaseRejected, PC
    <2>2. CASE rejected_generation # 0
        <3>1. ReleaseAcknowledged \/ ReleaseUnacknowledged
            BY <1>3, <2>2 DEF ReleaseRejected
        <3>2. released' \in BOOLEAN
            BY <1>3 DEF ReleaseRejected
        <3> QED
            BY <1>3, <2>2, <3>1, <3>2, ReleasedTyped DEF ReleaseRejected, PC
    <2> QED
        BY <2>1, <2>2
<1>4. CASE Preflight
    <2>1. CASE pc' = "check" /\ UNCHANGED <<recheck_scheduled, recheck_generation, wakes, faults>>
        BY <1>4, <2>1 DEF Preflight, PC
    <2>2. CASE Disturbance /\ pc' = "idle" /\ ScheduleRecheck
        BY <1>4, <2>2, DisturbanceTyped, ScheduleRecheckTyped DEF Preflight, PC
    <2> QED
        BY <1>4, <2>1, <2>2 DEF Preflight
<1>5. CASE CheckFence
    <2>1. CASE Finish(Repeat, FALSE, 0) /\ UNCHANGED <<attempted, faults>>
        BY <1>5, <2>1, FinishTyped DEF CheckFence, Repeat, PC, CreateReceipt
    <2>2. CASE /\ attempted' = (ReadOnly \/ Fenced(fence))
               /\ pc' = "prepare"
               /\ UNCHANGED <<result, faults>>
        BY <1>5, <2>2 DEF CheckFence, PC
    <2>3. CASE Disturbance /\ Finish("unknown", TRUE, 0) /\ UNCHANGED attempted
        BY <1>5, <2>3, FinishTyped, DisturbanceTyped DEF CheckFence, PC, CreateOutcome
    <2> QED
        BY <1>5, <2>1, <2>2, <2>3 DEF CheckFence
<1>6. CASE PrerequisiteMissing
    BY <1>6, FinishTyped DEF PrerequisiteMissing, Hindered, Disturbance, PC, CreateOutcome, Waiting
<1>7. CASE ClaimFence
    BY <1>7, AfterClaimTyped DEF ClaimFence, PC
<1>8. CASE ClaimLost
    BY <1>8, AfterClaimTyped, FinishTyped, DisturbanceTyped DEF ClaimLost, PC, CreateOutcome
<1>9. CASE SendPut
    BY <1>9 DEF SendPut, PC, PutState
<1>10. CASE PutAnswered
    BY <1>10, FinishTyped DEF PutAnswered, PC, CreateOutcome, Confirmed, Waiting, FenceRow
<1>11. CASE PutUnanswered
    BY <1>11, FinishTyped DEF PutUnanswered, PC, CreateOutcome
<1>12. CASE ReadEvidence
    <2>1. PICK outcome \in {"created", "member", "unknown"}, wait \in BOOLEAN :
             Finish(outcome, wait, 0) /\ (Disturbance \/ faults' = faults)
        BY <1>12 DEF ReadEvidence
    <2>2. outcome \in CreateOutcome
        BY DEF CreateOutcome, Confirmed
    <2>3. result' \in AttemptResult /\ pc' = "done"
        BY <2>1, <2>2, FinishTyped
    <2> QED
        BY <1>12, <2>1, <2>3, DisturbanceTyped DEF ReadEvidence, PC
<1>13. CASE CrashClosure
    BY <1>13, InitialRecordsTyped, DisturbanceTyped DEF CrashClosure, PC
<1>14. CASE JournalResult
    BY <1>14 DEF JournalResult, PC, AttemptResult
<1>15. CASE ReleaseRefused
    <2>1. ReleaseAcknowledged \/ ReleaseUnacknowledged
        BY <1>15 DEF ReleaseRefused
    <2> QED
        BY <1>15, <2>1, ReleasedTyped DEF ReleaseRefused, PC
<1>16. CASE RetainReceipt
    <2>1. receipt' \in CreateReceipt /\ snapshot' \in DeliverySnapshot /\ outbox' \subseteq DeliverySnapshot
        BY <1>16, NextReceiptTyped DEF RetainReceipt
    <2>2. recheck_scheduled' \in Nat /\ recheck_generation' \in Nat /\ wakes' \subseteq Nat
        BY <1>16, ScheduleRecheckTyped DEF RetainReceipt
    <2>3. pc' = "idle" /\ result' \in AttemptResult /\ released' \in BOOLEAN /\ attempted' \in BOOLEAN
        BY <1>16, InitialRecordsTyped DEF RetainReceipt
    <2> QED
        BY <1>16, <2>1, <2>2, <2>3 DEF RetainReceipt, PC
<1>17. ASSUME NEW state \in SettledState, Settle(state) PROVE TypeInv'
    BY <1>17, SettledTyped DEF Settle
<1>18. ASSUME NEW g \in Generation, GithubDecides(g) PROVE TypeInv'
    BY <1>18 DEF GithubDecides, Disturbance, PutState
<1>19. ASSUME NEW g \in lateReleases, LateRelease(g) PROVE TypeInv'
    <2>1. g \in Generation /\ g # 0
        BY DEF Generation
    <2>2. fence' \in FenceRow /\ fence'.generation = fence.generation /\ (fence'.retryable => fence'.generation # 0)
        BY <1>19, <2>1, ReleaseTyped DEF LateRelease
    <2> QED
        BY <1>19, <2>2 DEF LateRelease
<1>20. ASSUME NEW g \in 1..recheck_generation, DuplicateWake(g) PROVE TypeInv'
    BY <1>20 DEF DuplicateWake, Disturbance
<1>21. CASE Onboard
    BY <1>21 DEF Onboard
<1>22. CASE UNCHANGED vars
    BY <1>22 DEF vars
<1> QED
    BY <1>1, <1>2, <1>3, <1>4, <1>5, <1>6, <1>7, <1>8, <1>9, <1>10, <1>11,
       <1>12, <1>13, <1>14, <1>15, <1>16, <1>17, <1>18, <1>19, <1>20, <1>21,
       <1>22, NextCases

-----------------------------------------------------------------------------
(* The fence *)

LEMMA FenceInit == Init => FenceInv
BY DEF Init, NoFence, NoResult, NoReceipt, FenceInv, FenceDividesPuts,
       OpenFenceMeansRefused, ReleasesAreRefusals, WriterHoldsFence, ReadOnly,
       Generation

(* A step that neither claims, releases nor writes keeps the fence in force *)
(* when it hands out releases of refused PUTs only.                         *)
LEMMA FenceFrame ==
    ASSUME FenceInv,
           UNCHANGED <<fence, put>>,
           \A g \in lateReleases' : put[g] = "refused",
           rejected_generation' # 0 => put[rejected_generation'] = "refused",
           result'.rejected # 0 => put[result'.rejected] = "refused",
           pc' \notin {"put", "await"}
    PROVE  FenceInv'
BY DEF FenceInv, FenceDividesPuts, OpenFenceMeansRefused, ReleasesAreRefusals,
       WriterHoldsFence

(* Releasing a refused generation leaves everything else in force.          *)
LEMMA ReleaseKeepsFence ==
    ASSUME TypeInv, FenceInv, NEW g \in Generation, put[g] = "refused",
           fence' = Release(fence, g),
           UNCHANGED <<put, receipt, result>>,
           lateReleases' \subseteq lateReleases,
           rejected_generation' \in {0, rejected_generation},
           pc' = pc \/ pc' \notin {"put", "await"}
    PROVE  FenceInv'
<1>1. fence \in FenceRow
    BY DEF TypeInv, TypeOK
<1>2. /\ fence'.generation = fence.generation
      /\ fence'.retryable => fence.retryable \/ fence.generation = g
    BY <1>1, ReleaseTyped
<1>3. FenceDividesPuts'
    BY <1>2 DEF FenceInv, FenceDividesPuts
<1>4. OpenFenceMeansRefused'
    BY <1>2 DEF FenceInv, OpenFenceMeansRefused
<1>5. ReleasesAreRefusals'
    BY DEF FenceInv, ReleasesAreRefusals
<1>6. WriterHoldsFence'
    BY <1>2 DEF FenceInv, WriterHoldsFence, ReadOnly
<1> QED
    BY <1>3, <1>4, <1>5, <1>6 DEF FenceInv

(* A claim moves past a refused PUT to one that was never sent.             *)
LEMMA ClaimKeepsFence ==
    ASSUME TypeInv, FenceInv, Claimable(fence),
           fence.generation < MaxGeneration,
           fence' = Claim(fence),
           UNCHANGED <<put, receipt, lateReleases, rejected_generation>>,
           result'.rejected # 0 => put[result'.rejected] = "refused",
           pc' \in {"put", "await"} => ~ReadOnly
    PROVE  FenceInv'
<1>1. /\ fence \in FenceRow
      /\ fence.generation \in Nat
      /\ fence'.generation = fence.generation + 1
      /\ fence'.generation \in Generation
      /\ ~fence'.retryable
    BY DeliveryBounds, ClaimTyped DEF TypeInv, TypeOK, FenceRow, Generation
<1>2. fence.generation # 0 => put[fence.generation] = "refused"
    BY DEF FenceInv, OpenFenceMeansRefused, Claimable, Fenced
<1>3. FenceDividesPuts'
    <2> SUFFICES ASSUME NEW g \in Generation
                 PROVE  /\ g > fence'.generation => put[g] = "unsent"
                        /\ g < fence'.generation => put[g] = "refused"
        BY DEF FenceDividesPuts
    <2>1. g \in Nat \ {0}
        BY DEF Generation
    <2>2. CASE g = fence.generation
        BY <1>1, <1>2, <2>1, <2>2
    <2>3. CASE g # fence.generation
        BY <1>1, <2>1, <2>3 DEF FenceInv, FenceDividesPuts
    <2> QED
        BY <2>2, <2>3
<1>4. OpenFenceMeansRefused'
    BY <1>1 DEF OpenFenceMeansRefused
<1>5. ReleasesAreRefusals'
    BY DEF FenceInv, ReleasesAreRefusals
<1>6. put[fence'.generation] = "unsent"
    BY <1>1 DEF FenceInv, FenceDividesPuts
<1>7. WriterHoldsFence'
    BY <1>1, <1>6 DEF WriterHoldsFence, ReadOnly
<1> QED
    BY <1>3, <1>4, <1>5, <1>7 DEF FenceInv

(* Only the fenced PUT changes, and only while it is not refused.           *)
LEMMA PutKeepsFence ==
    ASSUME TypeInv, FenceInv, NEW g \in Generation, NEW state \in PutState,
           g = fence.generation,
           put[g] # "refused",
           put' = [put EXCEPT ![g] = state],
           UNCHANGED <<fence, receipt, result, lateReleases, rejected_generation>>,
           pc' # "put",
           pc' = "await" => pc \in {"put", "await"}
    PROVE  FenceInv'
<1>1. put \in [Generation -> PutState]
    BY DEF TypeInv, TypeOK
<1>2. \A h \in Generation : h # g => put'[h] = put[h]
    BY <1>1
<1>3. FenceDividesPuts'
    BY <1>2 DEF FenceInv, FenceDividesPuts, Generation
<1>4. OpenFenceMeansRefused'
    BY DEF FenceInv, OpenFenceMeansRefused
<1>5. ReleasesAreRefusals'
    BY <1>2 DEF FenceInv, ReleasesAreRefusals, TypeInv, TypeOK, AttemptResult
<1>6. WriterHoldsFence'
    BY DEF FenceInv, WriterHoldsFence, ReadOnly
<1> QED
    BY <1>3, <1>4, <1>5, <1>6 DEF FenceInv

LEMMA FenceNext == TypeInv /\ FenceInv /\ [Next]_vars => FenceInv'
<1> SUFFICES ASSUME TypeInv, FenceInv, [Next]_vars PROVE FenceInv'
    OBVIOUS
<1> USE DEF owner, local
<1>r. ReleasesAreRefusals
    BY DEF FenceInv
<1>t. /\ put \in [Generation -> PutState]
      /\ fence \in FenceRow
      /\ fence.generation \in Nat
      /\ rejected_generation \in Generation \cup {0}
      /\ lateReleases \subseteq Generation
    BY DeliveryBounds DEF TypeInv, TypeOK, FenceRow, Generation
<1>1. CASE Create
    BY <1>1, <1>r, FenceFrame DEF Create, Enter, ReleasesAreRefusals
<1>2. ASSUME NEW g \in wakes, Recheck(g) PROVE FenceInv'
    BY <1>2, <1>r, FenceFrame DEF Recheck, Enter, ReleasesAreRefusals
<1>3. CASE ReleaseRejected
    <2>1. CASE rejected_generation # 0 /\ ReleaseAcknowledged
        BY <1>3, <2>1, <1>r, <1>t, ReleaseKeepsFence DEF ReleaseRejected, ReleaseAcknowledged, ReleasesAreRefusals
    <2>2. CASE rejected_generation # 0 /\ ReleaseUnacknowledged
        BY <1>3, <2>2, <1>r, FenceFrame DEF ReleaseRejected, ReleaseUnacknowledged, ReleasesAreRefusals
    <2>3. CASE rejected_generation = 0
        BY <1>3, <2>3, <1>r, FenceFrame DEF ReleaseRejected, ReleasesAreRefusals
    <2> QED
        BY <1>3, <2>1, <2>2, <2>3 DEF ReleaseRejected
<1>4. CASE Preflight
    BY <1>4, <1>r, FenceFrame DEF Preflight, ReleasesAreRefusals
<1>5. CASE CheckFence
    BY <1>5, <1>r, FenceFrame DEF CheckFence, Finish, ReleasesAreRefusals
<1>6. CASE PrerequisiteMissing
    BY <1>6, <1>r, FenceFrame DEF PrerequisiteMissing, Finish, ReleasesAreRefusals
<1>7. CASE ClaimFence
    <2>1. CASE Claimable(fence)
        BY <1>7, <2>1, <1>r, ClaimKeepsFence DEF ClaimFence, MayWrite, AfterClaim, ReleasesAreRefusals
    <2>2. CASE ~Claimable(fence)
        BY <1>7, <2>2, <1>r, FenceFrame DEF ClaimFence, MayWrite, AfterClaim, ReleasesAreRefusals
    <2> QED
        BY <2>1, <2>2
<1>8. CASE ClaimLost
    <2>1. pc' = "done" /\ result'.rejected = 0
        BY <1>8 DEF ClaimLost, Finish
    <2>2. CASE fence' = fence
        BY <1>8, <2>1, <2>2, <1>r, FenceFrame DEF ClaimLost, ReleasesAreRefusals
    <2>3. CASE fence' # fence
        BY <1>8, <2>1, <2>3, ClaimKeepsFence DEF ClaimLost, AfterClaim
    <2> QED
        BY <2>2, <2>3
<1>9. CASE SendPut
    <2>1. fence.generation \in Generation /\ put[fence.generation] # "refused"
        BY <1>9 DEF SendPut, TypeInv, TypeOK, ControlTyped, FenceRow, FenceInv, WriterHoldsFence
    <2> QED
        BY <1>9, <2>1, PutKeepsFence DEF SendPut, PutState
<1>10. CASE PutAnswered
    BY <1>10, <1>r, <1>t, FenceFrame DEF PutAnswered, Finish, ReleasesAreRefusals
<1>11. CASE PutUnanswered
    BY <1>11, <1>r, FenceFrame DEF PutUnanswered, Finish, ReleasesAreRefusals
<1>12. CASE ReadEvidence
    BY <1>12, <1>r, FenceFrame DEF ReadEvidence, Finish, ReleasesAreRefusals
<1>13. CASE CrashClosure
    BY <1>13, <1>r, FenceFrame DEF CrashClosure, NoResult, ReleasesAreRefusals
<1>14. CASE JournalResult
    BY <1>14, <1>r, FenceFrame DEF JournalResult, ReleasesAreRefusals
<1>15. CASE ReleaseRefused
    <2>1. CASE ReleaseAcknowledged
        BY <1>15, <2>1, <1>r, <1>t, ReleaseKeepsFence DEF ReleaseRefused, ReleaseAcknowledged, ReleasesAreRefusals, TypeInv, ControlTyped
    <2>2. CASE ReleaseUnacknowledged
        BY <1>15, <2>2, <1>r, FenceFrame DEF ReleaseRefused, ReleaseUnacknowledged, ReleasesAreRefusals, TypeInv, ControlTyped
    <2> QED
        BY <1>15, <2>1, <2>2 DEF ReleaseRefused
<1>16. CASE RetainReceipt
    BY <1>16, <1>r, FenceFrame DEF RetainReceipt, NoResult, ReleasesAreRefusals
<1>17. ASSUME NEW state \in SettledState, Settle(state) PROVE FenceInv'
    BY <1>17, <1>r, FenceFrame DEF Settle, ReleasesAreRefusals
<1>18. ASSUME NEW g \in Generation, GithubDecides(g) PROVE FenceInv'
    <2>1. g = fence.generation /\ put[g] # "refused"
        BY <1>18, <1>t DEF GithubDecides, FenceInv, FenceDividesPuts, Generation
    <2>2. PICK state \in PutState : put' = [put EXCEPT ![g] = state]
        BY <1>18 DEF GithubDecides, PutState
    <2>3. pc' # "put"
        BY <1>18, <2>1 DEF GithubDecides, FenceInv, WriterHoldsFence
    <2> QED
        BY <1>18, <2>1, <2>2, <2>3, PutKeepsFence DEF GithubDecides
<1>19. ASSUME NEW g \in lateReleases, LateRelease(g) PROVE FenceInv'
    BY <1>19, <1>r, <1>t, ReleaseKeepsFence DEF LateRelease, ReleasesAreRefusals
<1>20. ASSUME NEW g \in 1..recheck_generation, DuplicateWake(g) PROVE FenceInv'
    BY <1>20 DEF DuplicateWake, FenceInv, FenceDividesPuts, OpenFenceMeansRefused, ReleasesAreRefusals, WriterHoldsFence, ReadOnly
<1>21. CASE Onboard
    BY <1>21 DEF Onboard, FenceInv, FenceDividesPuts, OpenFenceMeansRefused, ReleasesAreRefusals, WriterHoldsFence, ReadOnly
<1>22. CASE UNCHANGED vars
    BY <1>22 DEF vars, FenceInv, FenceDividesPuts, OpenFenceMeansRefused, ReleasesAreRefusals, WriterHoldsFence, ReadOnly
<1> QED
    BY <1>1, <1>2, <1>3, <1>4, <1>5, <1>6, <1>7, <1>8, <1>9, <1>10, <1>11,
       <1>12, <1>13, <1>14, <1>15, <1>16, <1>17, <1>18, <1>19, <1>20, <1>21,
       <1>22, NextCases

-----------------------------------------------------------------------------
(* The receipt *)

LEMMA ReceiptInit == Init => ReceiptInv
BY DEF Init, NoReceipt, NoResult, ReceiptInv, SettledReceiptRests,
       WaitingReceiptIsTrue, PendingReleaseHolds, UnattemptedIsOpen,
       ResultIsTrue, RefusalIsTold, Confirmed, Waiting, Returned

(* With the fence in force, only the fenced PUT can have written.           *)
LEMMA OnlyFencedPutWrites ==
    ASSUME TypeInv, FenceInv,
           fence.generation \in Generation =>
              put[fence.generation] \notin {"inflight", "created"}
    PROVE  NothingWritten
<1> SUFFICES ASSUME NEW g \in Generation PROVE put[g] \notin {"inflight", "created"}
    BY DEF NothingWritten
<1>1. g \in Nat /\ fence.generation \in Nat
    BY DeliveryBounds DEF Generation, TypeInv, TypeOK, FenceRow
<1>2. CASE g = fence.generation
    BY <1>2
<1>3. CASE g # fence.generation
    BY <1>1, <1>3 DEF FenceInv, FenceDividesPuts
<1> QED
    BY <1>2, <1>3

LEMMA ClaimableMeansNothingWritten ==
    ASSUME TypeInv, FenceInv, Claimable(fence)
    PROVE  NothingWritten
BY OnlyFencedPutWrites
   DEF Claimable, Fenced, FenceInv, OpenFenceMeansRefused, Generation

LEMMA ReceiptNext == TypeInv /\ FenceInv /\ ReceiptInv /\ [Next]_vars => ReceiptInv'
<1> SUFFICES ASSUME TypeInv, FenceInv, ReceiptInv, [Next]_vars PROVE ReceiptInv'
    OBVIOUS
<1> USE DEF owner, local, ReceiptInv, SettledReceiptRests, WaitingReceiptIsTrue,
            PendingReleaseHolds, UnattemptedIsOpen, ResultIsTrue, RefusalIsTold,
            Confirmed, Waiting, Returned, Closure
<1>n. put' = put => (NothingWritten' <=> NothingWritten)
    BY DEF NothingWritten
<1>f. fence' = fence => (Claimable(fence)' <=> Claimable(fence))
    OBVIOUS
<1>o. receipt' = receipt => (ReadOnly' <=> ReadOnly)
    BY DEF ReadOnly
<1>1. CASE Create
    BY <1>1, <1>n, <1>f, <1>o DEF Create, Enter, Replied
<1>2. ASSUME NEW g \in wakes, Recheck(g) PROVE ReceiptInv'
    BY <1>2, <1>n, <1>f, <1>o DEF Recheck, Enter, Replied
<1>3. CASE ReleaseRejected
    BY <1>3, <1>n, <1>o DEF ReleaseRejected, ReleaseAcknowledged, ReleaseUnacknowledged
<1>4. CASE Preflight
    BY <1>4, <1>n, <1>f, <1>o DEF Preflight
<1>5. CASE CheckFence
    <2>1. pc = "check" /\ UNCHANGED <<receipt, rejected_generation, fence, put, released>>
        BY <1>5 DEF CheckFence
    <2>2. CASE ~released /\ Finish(Repeat, FALSE, 0)
        BY <2>1, <2>2, <1>n, <1>f, <1>o DEF Finish, Repeat, ReadOnly
    <2>3. CASE released /\ attempted' = (ReadOnly \/ Fenced(fence)) /\ pc' = "prepare" /\ result' = result
        <3>1. ~attempted' => Claimable(fence) /\ ~ReadOnly
            BY <2>3 DEF Claimable
        <3> QED
            BY <2>1, <2>3, <3>1, <1>n, <1>f, <1>o
    <2>4. CASE released /\ ~ReadOnly /\ Finish("unknown", TRUE, 0)
        BY <2>1, <2>4, <1>n, <1>f, <1>o DEF Finish
    <2> QED
        BY <1>5, <2>2, <2>3, <2>4 DEF CheckFence
<1>6. CASE PrerequisiteMissing
    BY <1>6, <1>n, <1>f, <1>o, ClaimableMeansNothingWritten DEF PrerequisiteMissing, Finish, Hindered
<1>7. CASE ClaimFence
    BY <1>7, <1>n, <1>o DEF ClaimFence
<1>8. CASE ClaimLost
    BY <1>8, <1>n, <1>o DEF ClaimLost, Finish
<1>9. CASE SendPut
    BY <1>9, <1>f, <1>o DEF SendPut
<1>10. CASE PutAnswered
    <2>1. pc' = "done" /\ UNCHANGED <<receipt, rejected_generation, fence, put, released, attempted>>
        BY <1>10 DEF PutAnswered, Finish
    <2>2. pc = "await" /\ released /\ ~ReadOnly /\ receipt.outcome \notin Confirmed
        BY <1>10 DEF PutAnswered, FenceInv, WriterHoldsFence
    <2>3. CASE result'.outcome \in {"created", "member"} /\ result'.rejected = 0
        BY <2>1, <2>2, <2>3, <1>n, <1>f, <1>o
    <2>4. CASE /\ put[fence.generation] \in {"invalid", "refused"}
               /\ result'.outcome \in {"failed", "throttled", "blocked"}
               /\ result'.rejected # 0 => result'.outcome # "failed"
        <3>1. NothingWritten
            BY <2>4, OnlyFencedPutWrites
        <3> QED
            BY <2>1, <2>2, <2>4, <3>1, <1>n, <1>f, <1>o
    <2> QED
        BY <1>10, <2>3, <2>4 DEF PutAnswered, Finish
<1>11. CASE PutUnanswered
    BY <1>11, <1>n, <1>f, <1>o DEF PutUnanswered, Finish
<1>12. CASE ReadEvidence
    BY <1>12, <1>n, <1>f, <1>o DEF ReadEvidence, Finish
<1>13. CASE CrashClosure
    BY <1>13, <1>n, <1>f, <1>o DEF CrashClosure, NoResult
<1>14. CASE JournalResult
    BY <1>14, <1>n, <1>f, <1>o DEF JournalResult
<1>15. CASE ReleaseRefused
    BY <1>15, <1>n, <1>o DEF ReleaseRefused, ReleaseAcknowledged, ReleaseUnacknowledged
<1>16. CASE RetainReceipt
    BY <1>16, <1>n, <1>f DEF RetainReceipt, NextReceipt, NextOutcome, NoResult
<1>17. ASSUME NEW state \in SettledState, Settle(state) PROVE ReceiptInv'
    BY <1>17, <1>n, <1>f, <1>o DEF Settle
<1>18. ASSUME NEW g \in Generation, GithubDecides(g) PROVE ReceiptInv'
    <2>1. ~NothingWritten
        BY <1>18 DEF GithubDecides, NothingWritten
    <2>2. UNCHANGED <<receipt, rejected_generation, fence, pc, released, attempted, result>>
        BY <1>18 DEF GithubDecides
    <2> QED
        BY <2>1, <2>2, <1>f, <1>o
<1>19. ASSUME NEW g \in lateReleases, LateRelease(g) PROVE ReceiptInv'
    BY <1>19, <1>n, <1>o DEF LateRelease, Release, Claimable, Fenced
<1>20. ASSUME NEW g \in 1..recheck_generation, DuplicateWake(g) PROVE ReceiptInv'
    BY <1>20, <1>n, <1>f, <1>o DEF DuplicateWake
<1>21. CASE Onboard
    BY <1>21, <1>n, <1>f, <1>o DEF Onboard
<1>22. CASE UNCHANGED vars
    BY <1>22, <1>n, <1>f, <1>o DEF vars
<1> QED
    BY <1>1, <1>2, <1>3, <1>4, <1>5, <1>6, <1>7, <1>8, <1>9, <1>10, <1>11,
       <1>12, <1>13, <1>14, <1>15, <1>16, <1>17, <1>18, <1>19, <1>20, <1>21,
       <1>22, NextCases

-----------------------------------------------------------------------------
(* The timer *)

LEMMA TimerInit == Init => TimerInv
BY DEF Init, NoReceipt, TimerInv, StandingTimerIsSent, ReceiptNeedsOnboarding,
       WaitingHasTimer, Waiting

(* schedule_recheck sends the wake of the timer it lets stand.              *)
LEMMA ScheduleRecheckStands ==
    ASSUME TypeInv, StandingTimerIsSent, ScheduleRecheck
    PROVE  /\ StandingTimerIsSent'
           /\ recheck_scheduled' # 0
<1>1. CASE recheck_scheduled = 0
    <2>1. /\ recheck_generation \in Nat
          /\ wakes \subseteq Nat
          /\ recheck_generation' = recheck_generation + 1
          /\ recheck_scheduled' = recheck_generation + 1
          /\ wakes' = wakes \cup {recheck_generation + 1}
        BY <1>1 DEF ScheduleRecheck, NextWake, TypeInv, TypeOK
    <2> QED
        BY <2>1 DEF StandingTimerIsSent
<1>2. CASE recheck_scheduled # 0
    BY <1>2 DEF ScheduleRecheck, StandingTimerIsSent
<1> QED
    BY <1>1, <1>2

LEMMA TimerNext == TypeInv /\ ReceiptInv /\ TimerInv /\ [Next]_vars => TimerInv'
<1> SUFFICES ASSUME TypeInv, ReceiptInv, TimerInv, [Next]_vars PROVE TimerInv'
    OBVIOUS
<1> USE DEF owner, local, TimerInv, ReceiptNeedsOnboarding, WaitingHasTimer, Waiting, Closure
<1>s. UNCHANGED <<recheck_scheduled, recheck_generation, wakes>> => StandingTimerIsSent'
    BY DEF StandingTimerIsSent
<1>1. CASE Create
    BY <1>1, <1>s DEF Create, Enter
<1>2. ASSUME NEW g \in wakes, Recheck(g) PROVE TimerInv'
    <2>1. g # 0
        BY DEF StandingTimerIsSent
    <2>2. StandingTimerIsSent'
        BY <1>2, <2>1 DEF Recheck, WakeCurrent, StandingTimerIsSent
    <2>3. WaitingHasTimer'
        BY <1>2 DEF Recheck, WakeCurrent, Enter, Replied, Confirmed
    <2> QED
        BY <1>2, <2>2, <2>3 DEF Recheck, Enter
<1>3. CASE ReleaseRejected
    BY <1>3, <1>s DEF ReleaseRejected
<1>4. CASE Preflight
    BY <1>4, <1>s, ScheduleRecheckStands DEF Preflight
<1>5. CASE CheckFence
    BY <1>5, <1>s DEF CheckFence, Finish
<1>6. CASE PrerequisiteMissing
    BY <1>6, <1>s DEF PrerequisiteMissing, Finish
<1>7. CASE ClaimFence
    BY <1>7, <1>s DEF ClaimFence
<1>8. CASE ClaimLost
    BY <1>8, <1>s DEF ClaimLost, Finish
<1>9. CASE SendPut
    BY <1>9, <1>s DEF SendPut
<1>10. CASE PutAnswered
    BY <1>10, <1>s DEF PutAnswered, Finish
<1>11. CASE PutUnanswered
    BY <1>11, <1>s DEF PutUnanswered, Finish
<1>12. CASE ReadEvidence
    BY <1>12, <1>s DEF ReadEvidence, Finish
<1>13. CASE CrashClosure
    BY <1>13, <1>s DEF CrashClosure
<1>14. CASE JournalResult
    BY <1>14, <1>s DEF JournalResult
<1>15. CASE ReleaseRefused
    BY <1>15, <1>s DEF ReleaseRefused
<1>16. CASE RetainReceipt
    <2>1. CASE RecheckAfter /\ ScheduleRecheck
        BY <1>16, <2>1, ScheduleRecheckStands DEF RetainReceipt
    <2>2. CASE ~RecheckAfter /\ UNCHANGED <<recheck_scheduled, recheck_generation, wakes>>
        BY <1>16, <2>2, <1>s DEF RetainReceipt, RecheckAfter, NextReceipt
    <2> QED
        BY <1>16, <2>1, <2>2 DEF RetainReceipt
<1>17. ASSUME NEW state \in SettledState, Settle(state) PROVE TimerInv'
    BY <1>17, <1>s DEF Settle
<1>18. ASSUME NEW g \in Generation, GithubDecides(g) PROVE TimerInv'
    BY <1>18, <1>s DEF GithubDecides
<1>19. ASSUME NEW g \in lateReleases, LateRelease(g) PROVE TimerInv'
    BY <1>19, <1>s DEF LateRelease
<1>20. ASSUME NEW g \in 1..recheck_generation, DuplicateWake(g) PROVE TimerInv'
    BY <1>20 DEF DuplicateWake, StandingTimerIsSent
<1>21. CASE Onboard
    BY <1>21, <1>s DEF Onboard
<1>22. CASE UNCHANGED vars
    BY <1>22, <1>s DEF vars
<1> QED
    BY <1>1, <1>2, <1>3, <1>4, <1>5, <1>6, <1>7, <1>8, <1>9, <1>10, <1>11,
       <1>12, <1>13, <1>14, <1>15, <1>16, <1>17, <1>18, <1>19, <1>20, <1>21,
       <1>22, NextCases

-----------------------------------------------------------------------------
(* The snapshot *)

LEMMA SnapshotInit == Init => SnapshotInv
BY DEF Init, NoReceipt, NoSnapshot, SnapshotInv, SnapshotFollowsReceipt,
       SentIsOlder, RevisionNamesSnapshot

(* A snapshot of a new revision may be stored and sent.                     *)
LEMMA NewSnapshotSent ==
    ASSUME TypeInv, SnapshotInv, NEW snap \in DeliverySnapshot,
           snap.revision > snapshot.revision,
           snapshot' = snap, outbox' = outbox \cup {snap}
    PROVE  SentIsOlder' /\ RevisionNamesSnapshot'
<1>1. /\ snap.revision \in Nat /\ snapshot.revision \in Nat
      /\ \A s \in outbox : s.revision \in Nat
    BY DEF TypeInv, TypeOK, DeliverySnapshot
<1>2. \A s \in outbox : s.revision < snap.revision
    BY <1>1 DEF SnapshotInv, SentIsOlder
<1>3. SentIsOlder'
    BY <1>2 DEF SentIsOlder
<1>4. RevisionNamesSnapshot'
    BY <1>1, <1>2 DEF SnapshotInv, RevisionNamesSnapshot
<1> QED
    BY <1>3, <1>4

(* The snapshot itself may be sent again.                                   *)
LEMMA SameSnapshotSent ==
    ASSUME TypeInv, SnapshotInv, snapshot' = snapshot,
           outbox' = outbox \/ outbox' = outbox \cup {snapshot}
    PROVE  SentIsOlder' /\ RevisionNamesSnapshot'
<1>1. snapshot.revision \in Nat /\ \A s \in outbox : s.revision \in Nat
    BY DEF TypeInv, TypeOK, DeliverySnapshot
<1> QED
    BY <1>1 DEF SnapshotInv, SentIsOlder, RevisionNamesSnapshot

(* Only RetainReceipt and Settle change the snapshot.                       *)
LEMMA SnapshotCases ==
    ASSUME [Next]_vars
    PROVE  \/ RetainReceipt
           \/ \E state \in SettledState : Settle(state)
           \/ /\ UNCHANGED <<receipt, snapshot>>
              /\ outbox' = outbox \/ outbox' = outbox \cup {snapshot}
BY NextCases
   DEF Create, Recheck, Enter, ReleaseRejected, Preflight, CheckFence,
       PrerequisiteMissing, ClaimFence, ClaimLost, SendPut, PutAnswered,
       PutUnanswered, ReadEvidence, CrashClosure, JournalResult,
       ReleaseRefused, GithubDecides, LateRelease, DuplicateWake, Onboard,
       owner, vars

LEMMA RetainedSnapshot ==
    ASSUME TypeInv, ReceiptInv, SnapshotInv, RetainReceipt
    PROVE  SnapshotInv'
<1>1. /\ receipt.revision \in Nat
      /\ receipt.outcome \notin Confirmed
      /\ NextOutcome \in CreateOutcome
    BY DEF RetainReceipt, ReceiptInv, SettledReceiptRests, TypeInv, TypeOK,
           CreateReceipt, AttemptResult, NextOutcome, CreateOutcome
<1>2. snapshot.settlement = "none" /\ snapshot.revision = receipt.revision
    BY <1>1 DEF SnapshotInv, SnapshotFollowsReceipt, Confirmed
<1> DEFINE snap == SnapshotOf(NextReceipt)
<1>3. /\ snap \in DeliverySnapshot
      /\ snap.revision = receipt.revision + 1
      /\ snap.settlement = "none"
      /\ snap.outcome = NextReceipt.outcome
      /\ snap.revision = NextReceipt.revision
    BY <1>1 DEF SnapshotOf, NextReceipt, DeliverySnapshot
<1>4. snapshot' = snap /\ outbox' = outbox \cup {snap} /\ receipt' = NextReceipt
    BY DEF RetainReceipt
<1>5. snap.revision > snapshot.revision
    BY <1>1, <1>2, <1>3
<1>6. SentIsOlder' /\ RevisionNamesSnapshot'
    BY <1>3, <1>4, <1>5, NewSnapshotSent
<1>7. SnapshotFollowsReceipt'
    BY <1>3, <1>4 DEF SnapshotFollowsReceipt
<1> QED
    BY <1>6, <1>7 DEF SnapshotInv

LEMMA SettledSnapshot ==
    ASSUME TypeInv, SnapshotInv, NEW state \in SettledState, Settle(state)
    PROVE  SnapshotInv'
<1> DEFINE snap == Settled(snapshot, state)
<1>1. snap \in DeliverySnapshot
    BY SettledTyped DEF TypeInv, TypeOK
<1>2. /\ snapshot.revision \in Nat
      /\ snap.revision = snapshot.revision + 1
      /\ snap.settlement # "none"
    BY DEF Settled, SettledState, TypeInv, TypeOK, DeliverySnapshot
<1>3. receipt.outcome = "created"
    BY DEF Settle, Eligible, SnapshotInv, SnapshotFollowsReceipt
<1>4. snapshot' = snap /\ outbox' = outbox \cup {snap} /\ receipt' = receipt
    BY DEF Settle
<1>5. snap.revision > snapshot.revision
    BY <1>2
<1>6. SentIsOlder' /\ RevisionNamesSnapshot'
    BY <1>1, <1>4, <1>5, NewSnapshotSent
<1>7. SnapshotFollowsReceipt'
    BY <1>2, <1>3, <1>4 DEF SnapshotFollowsReceipt
<1> QED
    BY <1>6, <1>7 DEF SnapshotInv

LEMMA SnapshotNext ==
    TypeInv /\ ReceiptInv /\ SnapshotInv /\ [Next]_vars => SnapshotInv'
<1> SUFFICES ASSUME TypeInv, ReceiptInv, SnapshotInv, [Next]_vars
             PROVE  SnapshotInv'
    OBVIOUS
<1>1. CASE RetainReceipt
    BY <1>1, RetainedSnapshot
<1>2. ASSUME NEW state \in SettledState, Settle(state) PROVE SnapshotInv'
    BY <1>2, SettledSnapshot
<1>3. ASSUME UNCHANGED <<receipt, snapshot>>,
             outbox' = outbox \/ outbox' = outbox \cup {snapshot}
      PROVE  SnapshotInv'
    <2>1. SentIsOlder' /\ RevisionNamesSnapshot'
        BY <1>3, SameSnapshotSent
    <2>2. SnapshotFollowsReceipt'
        BY <1>3 DEF SnapshotInv, SnapshotFollowsReceipt
    <2> QED
        BY <2>1, <2>2 DEF SnapshotInv
<1> QED
    BY <1>1, <1>2, <1>3, SnapshotCases

-----------------------------------------------------------------------------
(* The theorems *)

LEMMA InvariantHolds == Spec => []IInv
<1>1. Init => IInv
    BY TypeInit, FenceInit, ReceiptInit, TimerInit, SnapshotInit DEF IInv
<1>2. IInv /\ [Next]_vars => IInv'
    BY TypeNext, FenceNext, ReceiptNext, TimerNext, SnapshotNext DEF IInv
<1> QED
    BY <1>1, <1>2, PTL DEF Spec

(* Every variable keeps its type: in particular the fence and every release *)
(* statement always name a generation that was claimed.                     *)
THEOREM DeliveryTypeOK == Spec => []TypeOK
<1>1. IInv => TypeOK
    BY DEF IInv, TypeInv
<1> QED
    BY InvariantHolds, <1>1, PTL

(* No PUT is ever sent beside one that was, or may still be, applied:       *)
(* crashes of the closure, lost claims, lost answers and late releases      *)
(* included (attempt, delivery.rs:563).                                     *)
THEOREM DeliveryWritesOnce == Spec => []NoWriteBesideUndecided
<1>1. IInv => NoWriteBesideUndecided
    <2> SUFFICES ASSUME IInv, NEW g \in Generation, NEW h \in Generation,
                        g < h, put[h] # "unsent"
                 PROVE  put[g] \in {"refused"}
        BY DEF NoWriteBesideUndecided
    <2>1. g \in Nat /\ h \in Nat /\ fence.generation \in Nat
        BY DeliveryBounds DEF IInv, TypeInv, TypeOK, FenceRow, Generation
    <2>2. ~(h > fence.generation)
        BY DEF IInv, FenceInv, FenceDividesPuts
    <2> QED
        BY <2>1, <2>2 DEF IInv, FenceInv, FenceDividesPuts
<1> QED
    BY InvariantHolds, <1>1, PTL

(* A fence open for another claim proves that GitHub refused the last PUT   *)
(* (REJECT, delivery_attempts.rs:11).                                       *)
THEOREM DeliveryFenceOpensOnRefusal == Spec => []OpenFenceMeansRefused
<1>1. IInv => OpenFenceMeansRefused
    BY DEF IInv, FenceInv
<1> QED
    BY InvariantHolds, <1>1, PTL

(* Blocked, throttled and failed receipts are never wrong in saying that no *)
(* invitation came of the delivery.                                         *)
THEOREM DeliveryNegativesAreTrue == Spec => []NegativeReceiptIsTrue
<1>1. IInv => NegativeReceiptIsTrue
    BY DEF IInv, ReceiptInv, SettledReceiptRests, WaitingReceiptIsTrue,
           NegativeReceiptIsTrue
<1> QED
    BY InvariantHolds, <1>1, PTL

(* A refused PUT awaiting its release comes with the receipt that told so.  *)
THEOREM DeliveryRefusalIsTold == Spec => []RejectedRetainsReceipt
<1>1. IInv => RejectedRetainsReceipt
    BY DEF IInv, ReceiptInv, RefusalIsTold, PendingReleaseHolds,
           RejectedRetainsReceipt
<1> QED
    BY InvariantHolds, <1>1, PTL

(* A waiting delivery has its timer, and a retained timer its wake          *)
(* (schedule_recheck, delivery.rs:358).                                     *)
THEOREM DeliveryRecheckStands == Spec => []RecheckStands
<1>1. IInv => RecheckStands
    BY DEF IInv, TimerInv, StandingTimerIsSent, WaitingHasTimer, RecheckStands
<1> QED
    BY InvariantHolds, <1>1, PTL

(* Two snapshots of one revision are one snapshot, whether create or        *)
(* settlement sent them (record, settlement.rs:182).                        *)
THEOREM DeliveryRevisionNamesSnapshot == Spec => []RevisionNamesSnapshot
<1>1. IInv => RevisionNamesSnapshot
    BY DEF IInv, SnapshotInv
<1> QED
    BY InvariantHolds, <1>1, PTL

(* A confirmed receipt is final, unknown only turns into a success, and a   *)
(* settlement is not undone by replaying create (next_receipt,              *)
(* delivery.rs:540).                                                        *)
THEOREM DeliveryReceiptIsMonotone == Spec => ReceiptIsMonotone
<1>1. IInv /\ [Next]_vars =>
        /\ receipt.outcome \in Confirmed => receipt' = receipt
        /\ ReadOnly => receipt'.outcome \in {"unknown", "created", "member"}
        /\ snapshot.settlement # "none" => snapshot' = snapshot
    <2> SUFFICES ASSUME IInv, [Next]_vars
                 PROVE  /\ receipt.outcome \in Confirmed => receipt' = receipt
                        /\ ReadOnly => receipt'.outcome \in {"unknown", "created", "member"}
                        /\ snapshot.settlement # "none" => snapshot' = snapshot
        OBVIOUS
    <2>1. CASE RetainReceipt
        <3>1. receipt.outcome \notin Confirmed
            BY <2>1 DEF RetainReceipt, IInv, ReceiptInv, SettledReceiptRests
        <3>2. snapshot.settlement = "none"
            BY <3>1 DEF IInv, SnapshotInv, SnapshotFollowsReceipt, Confirmed
        <3>3. ReadOnly => NextOutcome \in {"unknown", "created", "member"}
            BY <2>1 DEF RetainReceipt, IInv, ReceiptInv, ResultIsTrue, Returned,
                NextOutcome, TypeInv, TypeOK, AttemptResult, CreateOutcome,
                Confirmed, Waiting
        <3> QED
            BY <2>1, <3>1, <3>2, <3>3 DEF RetainReceipt, NextReceipt
    <2>2. ASSUME NEW state \in SettledState, Settle(state)
          PROVE  receipt' = receipt /\ snapshot.settlement = "none"
        BY <2>2 DEF Settle, Eligible
    <2>3. ReadOnly => receipt.outcome \in {"unknown", "created", "member"}
        BY DEF ReadOnly
    <2> QED
        BY <2>1, <2>2, <2>3, SnapshotCases
<1> QED
    BY InvariantHolds, <1>1, PTL DEF Spec, ReceiptIsMonotone

(* A standing timer ends only by its own wake, and no generation stands a   *)
(* second time: what a wake may do, and what a new timer is called          *)
(* (recheck, delivery.rs:143; schedule_recheck, line 358).                  *)
THEOREM DeliveryTimerMeetsItsWake == Spec => TimerMeetsItsWake
<1> DEFINE Kept == UNCHANGED recheck_scheduled
           Named == recheck_scheduled = 0 /\ recheck_scheduled' > recheck_generation
           Met == recheck_scheduled' = 0 /\ wakes' = wakes \ {recheck_scheduled}
<1>1. IInv /\ [Next]_vars => Kept \/ Named \/ Met
    <2> SUFFICES ASSUME IInv, [Next]_vars PROVE Kept \/ Named \/ Met
        OBVIOUS
    <2>1. recheck_generation \in Nat
        BY DEF IInv, TypeInv, TypeOK
    <2>2. ScheduleRecheck => Kept \/ Named
        BY <2>1 DEF ScheduleRecheck, NextWake
    <2>3. CASE Preflight
        BY <2>2, <2>3 DEF Preflight
    <2>4. CASE RetainReceipt
        BY <2>2, <2>4 DEF RetainReceipt
    <2>5. ASSUME NEW g \in wakes, Recheck(g) PROVE Kept \/ Met
        BY <2>5 DEF Recheck, WakeCurrent
    <2>6. Preflight \/ RetainReceipt \/ (\E g \in wakes : Recheck(g)) \/ Kept
        BY NextCases
           DEF Create, ReleaseRejected, CheckFence, PrerequisiteMissing,
               ClaimFence, ClaimLost, SendPut, PutAnswered, PutUnanswered,
               ReadEvidence, CrashClosure, JournalResult, ReleaseRefused, Settle,
               GithubDecides, LateRelease, DuplicateWake, Onboard, owner, vars
    <2> QED
        BY <2>3, <2>4, <2>5, <2>6
<1>2. Kept \/ Named \/ Met =>
        /\ \/ recheck_scheduled' \in {0, recheck_scheduled}
           \/ recheck_scheduled' > recheck_generation
        /\ recheck_scheduled \notin {0, recheck_scheduled'} =>
              wakes' = wakes \ {recheck_scheduled}
    OBVIOUS
<1> QED
    BY InvariantHolds, <1>1, <1>2, PTL DEF Spec, TimerMeetsItsWake

(* Once "unknown" was told, no further PUT is sent (read_only,              *)
(* delivery.rs:219).                                                        *)
THEOREM DeliveryUnknownNeverWrites == Spec => UnknownNeverWrites
<1>1. IInv /\ [Next]_vars =>
        (ReadOnly => \A g \in Generation : put[g] = "unsent" => put'[g] = "unsent")
    <2> SUFFICES ASSUME IInv, [Next]_vars, ReadOnly, NEW g \in Generation,
                        put[g] = "unsent"
                 PROVE  put'[g] = "unsent"
        OBVIOUS
    <2>1. CASE SendPut
        BY <2>1 DEF SendPut, IInv, FenceInv, WriterHoldsFence
    <2>2. ASSUME NEW h \in Generation, GithubDecides(h) PROVE put'[g] = "unsent"
        BY <2>2 DEF GithubDecides, IInv, TypeInv, TypeOK
    <2>3. CASE put' = put
        BY <2>3
    <2>4. SendPut \/ (\E h \in Generation : GithubDecides(h)) \/ put' = put
        BY NextCases
           DEF Create, Recheck, ReleaseRejected, Preflight, CheckFence,
               PrerequisiteMissing, ClaimFence, ClaimLost, PutAnswered,
               PutUnanswered, ReadEvidence, CrashClosure, JournalResult,
               ReleaseRefused, RetainReceipt, Settle, LateRelease,
               DuplicateWake, Onboard, vars
    <2> QED
        BY <2>1, <2>2, <2>3, <2>4
<1> QED
    BY InvariantHolds, <1>1, PTL DEF Spec, UnknownNeverWrites

-----------------------------------------------------------------------------
(* Delivery implements its promise *)

LEMMA WriteOutcomeIsFenced ==
    ASSUME TypeInv, FenceInv, fence.generation \in Generation
    PROVE  /\ put[fence.generation] = "created" => WriteOutcome = "applied"
           /\ put[fence.generation] = "inflight" => WriteOutcome = "out"
<1>1. \A g \in Generation : g # fence.generation => put[g] \in {"unsent", "refused"}
    BY DeliveryBounds DEF Generation, TypeInv, TypeOK, FenceRow, FenceInv, FenceDividesPuts
<1> QED
    BY <1>1 DEF WriteOutcome

LEMMA NothingWrittenIsNone == NothingWritten => WriteOutcome = "none"
BY DEF NothingWritten, WriteOutcome

(* What changes neither a PUT nor the receipt is a stutter.                 *)
LEMMA PromiseStutters ==
    ASSUME UNCHANGED <<put, receipt>>
    PROVE  UNCHANGED Promise!promiseVars
BY DEF Promise!promiseVars, ToldOutcome, WriteOutcome

LEMMA SendIsAttempt ==
    ASSUME IInv, IInv', SendPut
    PROVE  Promise!Attempt
<1>1. fence.generation \in Generation /\ put[fence.generation] = "unsent" /\ ~ReadOnly
    BY DEF SendPut, IInv, TypeInv, TypeOK, ControlTyped, FenceRow, FenceInv, WriterHoldsFence
<1>2. NothingWritten
    BY <1>1, OnlyFencedPutWrites DEF IInv
<1>3. WriteOutcome = "none"
    BY <1>2, NothingWrittenIsNone
<1>4. receipt.outcome \in {"none", "blocked", "throttled"}
    BY <1>1 DEF SendPut, IInv, TypeInv, TypeOK, CreateReceipt, CreateOutcome,
        Waiting, ReceiptInv, SettledReceiptRests, ReadOnly
<1>5. fence' = fence /\ receipt' = receipt /\ put'[fence.generation] = "inflight"
    BY <1>1 DEF SendPut, owner, IInv, TypeInv, TypeOK
<1>6. WriteOutcome' = "out"
    <2>1. \A g \in Generation : g # fence.generation => put'[g] # "created"
        BY <1>2, <1>1 DEF SendPut, NothingWritten, IInv, TypeInv, TypeOK
    <2> QED
        BY <1>1, <1>5, <2>1 DEF WriteOutcome
<1> QED
    BY <1>3, <1>4, <1>5, <1>6 DEF Promise!Attempt, ToldOutcome

LEMMA DecisionIsLandOrMiss ==
    ASSUME IInv, NEW g \in Generation, GithubDecides(g)
    PROVE  Promise!Land \/ Promise!Miss
<1>1. g = fence.generation /\ put[g] = "inflight"
    BY DeliveryBounds DEF GithubDecides, IInv, TypeInv, TypeOK, FenceRow,
       FenceInv, FenceDividesPuts, Generation
<1>2. WriteOutcome = "out"
    BY <1>1, WriteOutcomeIsFenced DEF IInv
<1>3. \A h \in Generation : h # g => put'[h] = put[h] /\ put[h] \in {"unsent", "refused"}
    BY <1>1, DeliveryBounds DEF GithubDecides, IInv, TypeInv, TypeOK, FenceRow,
       FenceInv, FenceDividesPuts, Generation
<1>4. ToldOutcome' = ToldOutcome
    BY DEF GithubDecides, owner, ToldOutcome
<1>5. CASE put'[g] = "created"
    <2>1. WriteOutcome' = "applied"
        BY <1>5 DEF WriteOutcome
    <2> QED
        BY <1>2, <1>4, <2>1 DEF Promise!Land
<1>6. CASE put'[g] \in {"member", "refused", "invalid", "lost"}
    <2>1. WriteOutcome' = "none"
        BY <1>3, <1>6 DEF WriteOutcome
    <2> QED
        BY <1>2, <1>4, <2>1 DEF Promise!Miss
<1>7. put'[g] \in {"created", "member", "refused", "invalid", "lost"}
    BY DEF GithubDecides, IInv, TypeInv, TypeOK
<1> QED
    BY <1>5, <1>6, <1>7

LEMMA RetainIsReport ==
    ASSUME IInv, RetainReceipt
    PROVE  \E outcome \in Promise!Outcome : Promise!Report(outcome)
<1>1. /\ pc = "retain"
      /\ receipt.outcome \notin Confirmed
      /\ receipt.outcome \in CreateOutcome
      /\ result.outcome \in CreateOutcome \ {"none"}
    BY DEF RetainReceipt, IInv, ReceiptInv, SettledReceiptRests, ResultIsTrue,
       Returned, TypeInv, TypeOK, CreateReceipt, AttemptResult
<1>2. WriteOutcome' = WriteOutcome
    BY DEF RetainReceipt, WriteOutcome
<1>3. receipt'.outcome = NextOutcome
    BY DEF RetainReceipt, NextReceipt
<1>4. NextOutcome \in {"blocked", "throttled", "failed"} => WriteOutcome = "none" /\ ~ReadOnly
    BY <1>1, NothingWrittenIsNone
       DEF NextOutcome, IInv, ReceiptInv, ResultIsTrue, Returned, Waiting
<1>5. NextOutcome \in CreateOutcome \ {"none"}
    BY <1>1 DEF NextOutcome, CreateOutcome, Waiting
<1>6. ToldOutcome \notin Promise!Final
    BY <1>1 DEF ToldOutcome, Promise!Final, Confirmed
<1>7. ToldOutcome' \in Promise!Outcome \ {"none"}
    BY <1>3, <1>5 DEF ToldOutcome, Promise!Outcome, Promise!Final, CreateOutcome,
       Confirmed, Waiting
<1>8. ToldOutcome' \in {"blocked", "failed"} => ToldOutcome # "unknown" /\ WriteOutcome = "none"
    BY <1>3, <1>4 DEF ToldOutcome, ReadOnly
<1> QED
    BY <1>2, <1>6, <1>7, <1>8 DEF Promise!Report

(* The fenced and journaled delivery implements DeliveryPromise: one write, *)
(* lasting reports, and no report of nothing written unless that is so.     *)
THEOREM DeliveryKeepsPromise == Spec => KeepsPromise
<1>1. Init => Promise!PromiseInit
    BY DEF Init, Promise!PromiseInit, ToldOutcome, WriteOutcome, NoReceipt
<1>2. IInv /\ IInv' /\ [Next]_vars => [Promise!PromiseNext]_(Promise!promiseVars)
    <2> SUFFICES ASSUME IInv, IInv', [Next]_vars
                 PROVE  Promise!PromiseNext \/ UNCHANGED Promise!promiseVars
        OBVIOUS
    <2>1. CASE SendPut
        BY <2>1, SendIsAttempt DEF Promise!PromiseNext
    <2>2. ASSUME NEW g \in Generation, GithubDecides(g) PROVE Promise!PromiseNext
        BY <2>2, DecisionIsLandOrMiss DEF Promise!PromiseNext
    <2>3. CASE RetainReceipt
        BY <2>3, RetainIsReport DEF Promise!PromiseNext
    <2>4. CASE UNCHANGED <<put, receipt>>
        BY <2>4, PromiseStutters
    <2>5. \/ SendPut
          \/ \E g \in Generation : GithubDecides(g)
          \/ RetainReceipt
          \/ UNCHANGED <<put, receipt>>
        BY NextCases
           DEF Create, Recheck, ReleaseRejected, Preflight, CheckFence,
               PrerequisiteMissing, ClaimFence, ClaimLost, PutAnswered,
               PutUnanswered, ReadEvidence, CrashClosure, JournalResult,
               ReleaseRefused, Settle, LateRelease, DuplicateWake, Onboard,
               owner, vars
    <2> QED
        BY <2>1, <2>2, <2>3, <2>4, <2>5
<1> QED
    BY InvariantHolds, <1>1, <1>2, PTL DEF Spec, KeepsPromise, Promise!PromiseSpec

=============================================================================
