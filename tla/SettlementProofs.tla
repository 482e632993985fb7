-------------------------- MODULE SettlementProofs --------------------------
(***************************************************************************)
(* Theorems about Settlement, for every set of observers and every bound   *)
(* on installations, withdrawals and disturbances; about Sweep, which      *)
(* starts observations; and about Listing, from which they conclude that   *)
(* an invitation is over.                                                  *)
(***************************************************************************)
EXTENDS Settlement, Sweep, Listing, FiniteSetTheorems, TLAPS

(* The inductive invariant: GitHub's invitation ends once, so what a read   *)
(* found ended stays so, and each step of a chain carries what the reads    *)
(* before it have established.                                              *)

\* Access is noted when the invitation ends, and ever since.
EndIsNoted ==
    /\ upstream = "pending" => seen = {}
    /\ upstream # "pending" => access \in seen
    /\ upstream = "accepted" => TRUE \in seen

EventsAreTrue == \A event \in events : upstream = event

\* Past the pending listing, an observer knows that the invitation is over.
ObservedIsOver ==
    \A o \in Observer :
        /\ observation[o].step \in {"user", "permission", "relogin", "evidence"} =>
              upstream # "pending"
        /\ observation[o].step = "evidence" /\ observation[o].accepted => TRUE \in seen

\* After DELETE's 404 the invitation is over or its repository out of sight;
\* only an expiry lists instead.
WithdrawnIsOver ==
    /\ withdrawal.step = "list" => withdrawal.kind = "expire"
    /\ withdrawal.step = "reverify" => upstream # "pending" \/ ~selected
    /\ withdrawal.step = "record" /\ withdrawal.kind = "cancel" => upstream # "pending"

\* A withdrawal that runs names an installation.
TypeInv ==
    /\ TypeOK
    /\ withdrawal.step # "idle" => withdrawal.installation # 0

IInv ==
    /\ TypeInv
    /\ EndIsNoted
    /\ EventsAreTrue
    /\ ObservedIsOver
    /\ WithdrawnIsOver
    /\ SettlementIsTrue

-----------------------------------------------------------------------------
(* One step per action, used by every proof below.                          *)
LEMMA NextCases ==
    ASSUME [Next]_vars
    PROVE  \/ Confirm
           \/ \E event \in events : Webhook(event)
           \/ \E o \in Observer : \/ WebhookVerify(o) \/ DailyRun(o)
                                  \/ Read(o) \/ Reconcile(o) \/ ReadFails(o)
           \/ \E how \in {"cancel", "expire"} : Ask(how)
           \/ \E request \in withdrawals : Withdraw(request)
           \/ StepWithdrawal \/ Withdrawn \/ WithdrawalFails
           \/ Answer \/ ChangeAccess \/ Rename \/ ChangeScope
           \/ ChangeInstallation \/ Inform
           \/ UNCHANGED vars
BY DEF Next

-----------------------------------------------------------------------------
(* Types *)

LEMMA InstallationOne == 1 \in Installation /\ Installation \subseteq Nat
BY SettlementBounds DEF Installation

LEMMA InitTyped == Init => TypeInv
<1>1. 1 \in Installation
    BY InstallationOne
<1>2. NoObservation \in Observation
    BY DEF NoObservation, Observation, ObservationStep
<1>3. NoWithdrawal \in Withdrawal /\ NoWithdrawal.step = "idle"
    BY DEF NoWithdrawal, Withdrawal, WithdrawalStep
<1>4. Init => observation \in [Observer -> Observation]
    BY <1>2 DEF Init
<1>5. Init => withdrawal \in Withdrawal /\ withdrawals \subseteq Request
    BY <1>3 DEF Init
<1>6. Init => /\ authority \in Installation \cup {0} /\ installed \in Installation \cup {0}
              /\ latest \in Installation
    BY <1>1 DEF Init
<1>7. Init => settlement \in [state : SettledState, by : Source] \cup {Unsettled}
    BY DEF Init
<1>8. Init => /\ sent \in BOOLEAN /\ selected \in BOOLEAN /\ access \in BOOLEAN
              /\ owed \in BOOLEAN
    BY DEF Init
<1>9. Init => /\ upstream \in {"pending", "accepted", "declined", "deleted"}
              /\ events \subseteq {"accepted", "declined"} /\ seen \subseteq BOOLEAN
    BY Zenon DEF Init
<1>10. Init => login \in Nat /\ faults \in Nat /\ asked \in Nat
    BY DEF Init
<1>11. Init => TypeOK
    BY <1>4, <1>5, <1>6, <1>7, <1>8, <1>9, <1>10, Zenon DEF TypeOK
<1> QED
    BY <1>3, <1>11 DEF Init, TypeInv

LEMMA RecordTyped ==
    ASSUME TypeOK, NEW state \in SettledState, NEW by \in Source, Record(state, by)
    PROVE  settlement' \in [state : SettledState, by : Source] \cup {Unsettled}
BY DEF TypeOK, Record

(* An observation is only ever one observer's.                              *)
LEMMA ReadTyped ==
    ASSUME TypeOK, NEW o \in Observer,
           Read(o) \/ ReadFails(o) \/ WebhookVerify(o) \/ DailyRun(o) \/ Reconcile(o)
    PROVE  observation' \in [Observer -> Observation]
<1>o. observation[o] \in Observation
    BY DEF TypeOK
<1> USE DEF TypeOK, ObservationStep, Reading
<1>1. ASSUME NEW s \in ObservationStep, Advance(o, s)
      PROVE  observation' \in [Observer -> Observation]
    <2>1. [observation[o] EXCEPT !.step = s] \in Observation
        BY <1>o DEF Observation
    <2> QED
        BY <1>1, <2>1 DEF Advance
<1>2. ASSUME Forget(o) PROVE observation' \in [Observer -> Observation]
    <2>1. NoObservation \in Observation
        BY DEF NoObservation, Observation
    <2> QED
        BY <1>2, <2>1 DEF Forget
<1>3. ASSUME NEW accepted \in BOOLEAN, Conclude(o, accepted)
      PROVE  observation' \in [Observer -> Observation]
    <2>1. [observation[o] EXCEPT !.step = "evidence", !.accepted = accepted] \in Observation
        BY <1>o DEF Observation
    <2> QED
        BY <1>3, <2>1 DEF Conclude
<1>a. ASSUME ReadAuthority(o) PROVE observation' \in [Observer -> Observation]
    <2>1. [observation[o] EXCEPT !.step = "verify", !.account = authority] \in Observation
        BY <1>o DEF Observation
    <2> QED
        BY <1>a, <1>2, <2>1 DEF ReadAuthority
<1>u. ASSUME ReadUser(o) PROVE observation' \in [Observer -> Observation]
    <2>1. [observation[o] EXCEPT !.step = "permission", !.login = login] \in Observation
        BY <1>o DEF Observation
    <2> QED
        BY <1>u, <1>2, <2>1 DEF ReadUser
<1>4. CASE Read(o)
    BY <1>1, <1>2, <1>3, <1>4, <1>a, <1>u
       DEF Read, ReadStatus, ReadRepository, ReadPending, ReadPermission, ReadUserAgain
<1>5. CASE ReadFails(o)
    BY <1>1, <1>2, <1>5 DEF ReadFails
<1>6. CASE WebhookVerify(o) \/ DailyRun(o)
    <2>1. Advance(o, "status")
        BY <1>6 DEF WebhookVerify, DailyRun, Advance
    <2> QED
        BY <1>1, <2>1
<1>7. CASE Reconcile(o)
    BY <1>2, <1>7 DEF Reconcile
<1> QED
    BY <1>4, <1>5, <1>6, <1>7

LEMMA DisturbanceTyped == ASSUME TypeOK, Disturbance PROVE faults' \in Nat
BY DEF TypeOK, Disturbance

LEMMA WithdrawalTyped ==
    ASSUME TypeOK
    PROVE  /\ \A s \in WithdrawalStep : Proceeding(s) =>
                withdrawal' \in Withdrawal
           /\ Drop =>
                withdrawal' \in Withdrawal
BY DEF TypeOK, Withdrawal, Proceeding, Drop, NoWithdrawal, WithdrawalStep

LEMMA DeletedTyped ==
    ASSUME TypeOK, Deleted
    PROVE  upstream' = "deleted" /\ seen' \subseteq BOOLEAN /\ owed' \in BOOLEAN
BY DEF TypeOK, Deleted

LEMMA NamedNext == TypeInv /\ [Next]_vars =>
                     (withdrawal'.step # "idle" => withdrawal'.installation # 0)
<1> SUFFICES ASSUME TypeInv, [Next]_vars
             PROVE  withdrawal'.step # "idle" => withdrawal'.installation # 0
    OBVIOUS
<1>1. ASSUME NEW request \in withdrawals, Withdraw(request)
      PROVE  withdrawal'.step # "idle" => withdrawal'.installation # 0
    BY <1>1 DEF TypeInv, TypeOK, Withdraw, Request, NoWithdrawal, Installation
<1>2. ASSUME NEW s \in WithdrawalStep, Proceeding(s), withdrawal.step # "idle"
      PROVE  withdrawal'.installation # 0
    BY <1>2 DEF TypeInv, TypeOK, Withdrawal, Proceeding
<1>3. Drop => withdrawal'.step = "idle"
    BY DEF Drop, NoWithdrawal
<1>4. StepWithdrawal \/ WithdrawalFails \/ Withdrawn =>
          withdrawal.step # "idle"
             /\ (UNCHANGED withdrawal \/ Drop \/ \E s \in WithdrawalStep : Proceeding(s))
    BY DEF StepWithdrawal, CheckAuthority, Verify, ListPending, Delete, Reverify,
           WithdrawalFails, Withdrawn, Withdrawing, WithdrawalStep, AfterNotFound
<1>5. \/ UNCHANGED withdrawal
      \/ \E request \in withdrawals : Withdraw(request)
      \/ StepWithdrawal \/ WithdrawalFails \/ Withdrawn
    BY NextCases
       DEF vars, github, object, Confirm, Webhook, WebhookVerify, DailyRun, Read,
           Reconcile, ReadFails, Ask, Answer, ChangeAccess, Rename, ChangeScope,
           ChangeInstallation, Inform
<1> QED
    BY <1>1, <1>2, <1>3, <1>4, <1>5 DEF TypeInv

LEMMA TypeNext == TypeInv /\ [Next]_vars => TypeInv'
<1> SUFFICES ASSUME TypeInv, [Next]_vars PROVE TypeOK'
    BY NamedNext DEF TypeInv
<1>0. TypeOK
    BY DEF TypeInv
<1> USE DEF object, github
<1>1. CASE Confirm
    BY <1>0, <1>1 DEF Confirm, TypeOK
<1>2. ASSUME NEW event \in events, Webhook(event) PROVE TypeOK'
    <2>1. event \in SettledState /\ "webhook" \in Source
        BY <1>0 DEF TypeOK, SettledState, Source
    <2>2. settlement' \in [state : SettledState, by : Source] \cup {Unsettled}
        BY <1>0, <1>2, <2>1, RecordTyped DEF Webhook
    <2> QED
        BY <1>0, <1>2, <2>2 DEF Webhook, TypeOK
<1>3. ASSUME NEW o \in Observer,
             WebhookVerify(o) \/ DailyRun(o) \/ Read(o) \/ ReadFails(o)
      PROVE  TypeOK'
    <2>1. observation' \in [Observer -> Observation]
        BY <1>0, <1>3, ReadTyped
    <2>2. faults' \in Nat
        BY <1>0, <1>3, DisturbanceTyped DEF TypeOK, WebhookVerify, DailyRun, Read, ReadFails
    <2> QED
        BY <1>0, <1>3, <2>1, <2>2 DEF TypeOK, WebhookVerify, DailyRun, Read, ReadFails
<1>4. ASSUME NEW o \in Observer, Reconcile(o) PROVE TypeOK'
    <2>1. observation' \in [Observer -> Observation]
        BY <1>0, <1>4, ReadTyped
    <2>2. settlement' \in [state : SettledState, by : Source] \cup {Unsettled}
        BY <1>0, <1>4, RecordTyped DEF Reconcile, SettledState, Source
    <2> QED
        BY <1>0, <1>4, <2>1, <2>2 DEF TypeOK, Reconcile
<1>5. ASSUME NEW how \in {"cancel", "expire"}, Ask(how) PROVE TypeOK'
    BY <1>0, <1>5 DEF TypeOK, Ask, Request
<1>6. ASSUME NEW request \in withdrawals, Withdraw(request) PROVE TypeOK'
    BY <1>0, <1>6 DEF TypeOK, Withdraw, Withdrawal, Request, NoWithdrawal, WithdrawalStep
<1>7. CASE StepWithdrawal
    <2>1. withdrawal' \in Withdrawal
        BY <1>0, <1>7, WithdrawalTyped
           DEF StepWithdrawal, CheckAuthority, Verify, ListPending, Delete, Reverify,
               AfterNotFound, WithdrawalStep, Withdrawing
    <2>2. /\ upstream' \in {"pending", "accepted", "declined", "deleted"}
          /\ seen' \subseteq BOOLEAN /\ owed' \in BOOLEAN
        BY <1>0, <1>7, DeletedTyped
           DEF TypeOK, StepWithdrawal, CheckAuthority, Verify, ListPending, Delete,
               Reverify
    <2> QED
        BY <1>0, <1>7, <2>1, <2>2 DEF TypeOK, StepWithdrawal
<1>8. CASE Withdrawn
    <2>1. settlement' \in [state : SettledState, by : Source] \cup {Unsettled}
        BY <1>0, <1>8, RecordTyped DEF Withdrawn, SettledState, Source
    <2> QED
        BY <1>0, <1>8, <2>1, WithdrawalTyped DEF Withdrawn, TypeOK
<1>9. CASE WithdrawalFails
    <2>1. withdrawal' \in Withdrawal
        BY <1>0, <1>9, WithdrawalTyped DEF WithdrawalFails, WithdrawalStep, Withdrawing
    <2>2. /\ upstream' \in {"pending", "accepted", "declined", "deleted"}
          /\ seen' \subseteq BOOLEAN /\ owed' \in BOOLEAN
        BY <1>0, <1>9, DeletedTyped DEF TypeOK, WithdrawalFails
    <2>3. withdrawals' \subseteq Request
        <3>1. CASE UNCHANGED withdrawals
            BY <1>0, <3>1 DEF TypeOK
        <3>2. CASE withdrawal.step \in Withdrawing /\ withdrawals' = Continued
            <4>1. withdrawal.installation # 0
                BY <1>0, <1>9, <3>2 DEF TypeInv, Withdrawing
            <4> QED
                BY <1>0, <3>2, <4>1 DEF Continued, Running, TypeOK, Withdrawal, Request
        <3> QED
            BY <1>0, <1>9, <3>1, <3>2 DEF WithdrawalFails, Withdrawing
    <2> QED
        BY <1>0, <1>9, <2>1, <2>2, <2>3, DisturbanceTyped DEF TypeOK, WithdrawalFails
<1>10. CASE Answer
    BY <1>0, <1>10 DEF TypeOK, Answer, Ends
<1>11. CASE ChangeAccess \/ Rename \/ ChangeScope
    <2>1. faults' \in Nat
        BY <1>0, <1>11, DisturbanceTyped DEF ChangeAccess, Rename, ChangeScope
    <2>2. CASE ChangeAccess
        <3>1. access' = ~access /\ (seen' = seen \/ seen' = seen \cup {~access})
            BY <2>2 DEF ChangeAccess
        <3>2. access' \in BOOLEAN
            BY <3>1
        <3>3. seen \subseteq BOOLEAN
            BY <1>0 DEF TypeOK
        <3>4. seen' \subseteq BOOLEAN
            BY <3>1, <3>3
        <3> QED
            BY <1>0, <2>1, <2>2, <3>2, <3>4 DEF TypeOK, ChangeAccess
    <2>3. CASE Rename
        BY <1>0, <2>1, <2>3 DEF TypeOK, Rename
    <2>4. CASE ChangeScope
        <3>1. selected' \in BOOLEAN /\ owed' \in BOOLEAN
            BY <2>4 DEF ChangeScope
        <3> QED
            BY <1>0, <2>1, <2>4, <3>1 DEF TypeOK, ChangeScope
    <2> QED
        BY <1>11, <2>2, <2>3, <2>4
<1>12. CASE ChangeInstallation
    <2>1. faults' \in Nat
        BY <1>0, <1>12, DisturbanceTyped DEF ChangeInstallation
    <2>2. /\ installed' \in Installation \cup {0}
          /\ latest' \in Installation
        BY <1>0, <1>12, SettlementBounds DEF TypeOK, ChangeInstallation, Installation
    <2> QED
        BY <1>0, <1>12, <2>1, <2>2 DEF TypeOK, ChangeInstallation
<1>13. CASE Inform
    BY <1>0, <1>13 DEF TypeOK, Inform
<1>14. CASE UNCHANGED vars
    BY <1>0, <1>14 DEF TypeOK, vars
<1> QED
    BY <1>1, <1>2, <1>3, <1>4, <1>5, <1>6, <1>7, <1>8, <1>9, <1>10, <1>11,
       <1>12, <1>13, <1>14, NextCases

-----------------------------------------------------------------------------
(* GitHub's side: the invitation ends once, and access since is noted.       *)

LEMMA InitTrue == Init => IInv
BY InitTyped
   DEF Init, IInv, EndIsNoted, EventsAreTrue, ObservedIsOver, WithdrawnIsOver,
       SettlementIsTrue, NoObservation, NoWithdrawal, Unsettled

\* Which actions change GitHub's invitation, or access to the repository.
LEMMA UpstreamCases ==
    ASSUME [Next]_vars
    PROVE  \/ UNCHANGED <<upstream, seen, access, events>>
           \/ Deleted /\ UNCHANGED <<access, events>>
           \/ Answer
           \/ ChangeAccess
BY NextCases
   DEF vars, github, object, Confirm, Webhook, WebhookVerify, DailyRun, Read,
       Reconcile, ReadFails, Ask, Withdraw, StepWithdrawal, CheckAuthority, Verify,
       ListPending, Delete, Reverify, Withdrawn, WithdrawalFails, Rename,
       ChangeScope, ChangeInstallation, Inform

LEMMA StaysOver ==
    ASSUME [Next]_vars, upstream # "pending"
    PROVE  upstream' = upstream /\ seen \subseteq seen'
BY UpstreamCases DEF Deleted, Answer, Ends, ChangeAccess

LEMMA EndIsNotedNext == IInv /\ [Next]_vars => EndIsNoted'
<1> SUFFICES ASSUME IInv, [Next]_vars PROVE EndIsNoted'
    OBVIOUS
<1>1. CASE UNCHANGED <<upstream, seen, access, events>>
    BY <1>1 DEF IInv, EndIsNoted
<1>2. CASE Deleted /\ UNCHANGED <<access, events>>
    BY <1>2 DEF EndIsNoted, Deleted
<1>3. CASE Answer
    BY <1>3 DEF EndIsNoted, Answer, Ends
<1>4. CASE ChangeAccess
    <2>1. access' = ~access /\ upstream' = upstream
        BY <1>4 DEF ChangeAccess
    <2>2. upstream # "pending" => seen' = seen \cup {~access}
        BY <1>4 DEF ChangeAccess
    <2>3. CASE upstream = "pending"
        BY <1>4, <2>1, <2>3 DEF IInv, EndIsNoted, ChangeAccess
    <2>4. CASE upstream # "pending"
        <3>1. access' \in seen'
            BY <2>1, <2>2, <2>4, Zenon
        <3> QED
            BY <2>1, <2>2, <2>4, <3>1 DEF IInv, EndIsNoted
    <2> QED
        BY <2>3, <2>4
<1> QED
    BY <1>1, <1>2, <1>3, <1>4, UpstreamCases

LEMMA EventsAreTrueNext == IInv /\ [Next]_vars => EventsAreTrue'
<1> SUFFICES ASSUME IInv, [Next]_vars PROVE EventsAreTrue'
    OBVIOUS
<1>1. upstream = "pending" => events = {}
    BY DEF IInv, TypeInv, TypeOK, EventsAreTrue
<1>2. CASE UNCHANGED <<upstream, seen, access, events>>
    BY <1>2 DEF IInv, EventsAreTrue
<1>3. CASE Deleted /\ UNCHANGED <<access, events>>
    BY <1>1, <1>3 DEF EventsAreTrue, Deleted
<1>4. CASE Answer
    <2>1. upstream = "pending" /\ (events' = {upstream'} \/ events' = {})
        BY <1>1, <1>4 DEF Answer, Ends
    <2> QED
        BY <2>1 DEF EventsAreTrue
<1>5. CASE ChangeAccess
    BY <1>5 DEF IInv, EventsAreTrue, ChangeAccess
<1> QED
    BY <1>2, <1>3, <1>4, <1>5, UpstreamCases

-----------------------------------------------------------------------------
(* The chains: what each read adds to what the reads before it established.  *)

LEMMA ObservedIsOverNext == IInv /\ [Next]_vars => ObservedIsOver'
<1> SUFFICES ASSUME IInv, [Next]_vars PROVE ObservedIsOver'
    OBVIOUS
<1>t. TypeOK /\ observation \in [Observer -> Observation]
    BY DEF IInv, TypeInv, TypeOK
<1> DEFINE Over == {"user", "permission", "relogin", "evidence"}
<1>1. CASE UNCHANGED observation
    BY <1>1, StaysOver DEF IInv, ObservedIsOver
<1>2. ASSUME NEW o \in Observer,
             Read(o) \/ ReadFails(o) \/ WebhookVerify(o) \/ DailyRun(o) \/ Reconcile(o)
      PROVE  ObservedIsOver'
    <2>1. \A p \in Observer : p # o => observation'[p] = observation[p]
        BY <1>t, <1>2
           DEF Read, ReadStatus, ReadAuthority, ReadRepository, ReadPending, ReadUser,
               ReadPermission, ReadUserAgain, ReadFails, WebhookVerify, DailyRun,
               Reconcile, Advance, Forget, Conclude
    <2>2. CASE observation'[o].step \notin Over
        BY <2>1, <2>2, StaysOver DEF IInv, ObservedIsOver
    <2>3. CASE observation'[o].step \in Over
        <3>1. Read(o)
            BY <1>t, <1>2, <2>3
               DEF ReadFails, WebhookVerify, DailyRun, Reconcile, Advance, Forget,
                   NoObservation, Observation
        <3>2. upstream # "pending"
            <4>1. CASE ReadStatus(o) \/ ReadAuthority(o) \/ ReadRepository(o)
                BY <1>t, <2>3, <4>1
                   DEF ReadStatus, ReadAuthority, ReadRepository, Advance, Forget,
                       NoObservation, Observation
            <4>2. CASE ReadPending(o)
                BY <1>t, <2>3, <4>2
                   DEF ReadPending, Forget, NoObservation, Observation
            <4>3. CASE ReadUser(o) \/ ReadPermission(o) \/ ReadUserAgain(o)
                BY <4>3
                   DEF IInv, ObservedIsOver, ReadUser, ReadPermission, ReadUserAgain
            <4> QED
                BY <3>1, <4>1, <4>2, <4>3 DEF Read
        <3>3. observation'[o].step = "evidence" =>
                 \/ observation'[o].accepted = access
                 \/ observation'[o].accepted = FALSE
            BY <1>t, <3>1
               DEF Read, ReadStatus, ReadAuthority,
                   ReadRepository, ReadPending, ReadUser, ReadPermission,
                   ReadUserAgain, Advance, Forget, Conclude, NoObservation, Observation
        <3>4. access \in seen
            BY <3>2 DEF IInv, EndIsNoted
        <3>5. upstream' # "pending" /\ seen \subseteq seen'
            BY <3>2, StaysOver
        <3> QED
            BY <2>1, <3>3, <3>4, <3>5, StaysOver DEF IInv, ObservedIsOver
    <2> QED
        BY <2>2, <2>3
<1>3. \/ UNCHANGED observation
      \/ \E o \in Observer : Read(o) \/ ReadFails(o) \/ WebhookVerify(o) \/ DailyRun(o)
                             \/ Reconcile(o)
    BY NextCases
       DEF vars, github, object, Confirm, Webhook, Ask, Withdraw, StepWithdrawal,
           Withdrawn, WithdrawalFails, Answer, ChangeAccess, Rename, ChangeScope,
           ChangeInstallation, Inform
<1> QED
    BY <1>1, <1>2, <1>3

LEMMA WithdrawnIsOverNext == IInv /\ [Next]_vars => WithdrawnIsOver'
<1> SUFFICES ASSUME IInv, [Next]_vars PROVE WithdrawnIsOver'
    OBVIOUS
<1>t. withdrawal \in Withdrawal
    BY DEF IInv, TypeInv, TypeOK
<1>1. CASE UNCHANGED withdrawal
    <2>1. withdrawal.step = "reverify" /\ upstream = "pending" => ~selected'
        <3>1. withdrawal.step = "reverify" => ~Free
            BY DEF Free
        <3>2. withdrawal.step = "reverify" /\ ~selected => ~selected'
            BY <3>1, NextCases
               DEF vars, github, object, Confirm, Webhook, WebhookVerify, DailyRun,
                   Read, Reconcile, ReadFails, Ask, Withdraw, StepWithdrawal, Withdrawn,
                   WithdrawalFails, Answer, ChangeAccess, Rename, ChangeScope,
                   ChangeInstallation, Inform
        <3> QED
            BY <3>2 DEF IInv, WithdrawnIsOver
    <2> QED
        BY <1>1, <2>1, StaysOver DEF IInv, WithdrawnIsOver
<1>2. CASE \E request \in withdrawals : Withdraw(request)
    BY <1>2 DEF WithdrawnIsOver, Withdraw, NoWithdrawal
<1>3. CASE StepWithdrawal
    <2>1. CASE CheckAuthority
        BY <1>t, <2>1
           DEF WithdrawnIsOver, CheckAuthority, Proceeding, Drop, NoWithdrawal, Withdrawal
    <2>4. CASE Verify
        BY <1>t, <2>4
           DEF WithdrawnIsOver, Verify, Proceeding, Drop, NoWithdrawal, Withdrawal
    <2>5. CASE ListPending
        BY <1>t, <2>5
           DEF IInv, WithdrawnIsOver, ListPending, Proceeding, Drop, NoWithdrawal, Withdrawal
    <2>2. CASE Delete
        BY <1>t, <1>3, <2>2
           DEF WithdrawnIsOver, StepWithdrawal, Delete, Deleted, Proceeding, Drop,
               NoWithdrawal, Withdrawal, AfterNotFound
    <2>3. CASE Reverify
        BY <1>t, <1>3, <2>3
           DEF IInv, WithdrawnIsOver, StepWithdrawal, Reverify, Reaches, Proceeding,
               Drop, NoWithdrawal, Withdrawal
    <2> QED
        BY <1>3, <2>1, <2>2, <2>3, <2>4, <2>5 DEF StepWithdrawal
<1>4. CASE Withdrawn
    BY <1>4 DEF WithdrawnIsOver, Withdrawn, Drop, NoWithdrawal
<1>5. CASE WithdrawalFails
    BY <1>t, <1>5
       DEF WithdrawnIsOver, WithdrawalFails, Proceeding, Drop, NoWithdrawal, Withdrawal
<1>6. \/ UNCHANGED withdrawal
      \/ \E request \in withdrawals : Withdraw(request)
      \/ StepWithdrawal \/ Withdrawn \/ WithdrawalFails
    BY NextCases
       DEF vars, github, object, Confirm, Webhook, WebhookVerify, DailyRun, Read,
           Reconcile, ReadFails, Ask, Answer, ChangeAccess, Rename, ChangeScope,
           ChangeInstallation, Inform
<1> QED
    BY <1>1, <1>2, <1>3, <1>4, <1>5, <1>6

-----------------------------------------------------------------------------
(* The snapshot: what settles it is true by the chain that ends there.       *)

\* Only three handlers settle, and each records over an unsettled snapshot.
LEMMA SettlingCases ==
    ASSUME [Next]_vars
    PROVE  \/ UNCHANGED settlement
           \/ \E event \in events : Record(event, "webhook")
           \/ \E o \in Observer :
                 /\ observation[o].step = "evidence"
                 /\ Record(IF observation[o].accepted THEN "accepted" ELSE "cancelled",
                           "evidence")
           \/ /\ withdrawal.step = "record"
              /\ Record(IF withdrawal.kind = "cancel" THEN "cancelled" ELSE "expired",
                        "withdrawal")
BY NextCases
   DEF vars, github, object, Confirm, Webhook, WebhookVerify, DailyRun, Read,
       Reconcile, ReadFails, Ask, Withdraw, StepWithdrawal, Withdrawn, WithdrawalFails,
       Answer, ChangeAccess, Rename, ChangeScope, ChangeInstallation, Inform

LEMMA SettlementIsTrueNext == IInv /\ [Next]_vars => SettlementIsTrue'
<1> SUFFICES ASSUME IInv, [Next]_vars PROVE SettlementIsTrue'
    OBVIOUS
<1> DEFINE Kept == settlement' = settlement
<1>0. CASE Kept
    <2>1. events \subseteq {"accepted", "declined"} /\ SettlementIsTrue /\ EndIsNoted
        BY DEF IInv, TypeInv, TypeOK
    <2>2. settlement.state = "accepted" => TRUE \in seen'
        <3>1. upstream = "pending" \/ seen \subseteq seen'
            BY StaysOver
        <3>2. settlement.state = "accepted" => upstream # "pending"
            BY <2>1 DEF EndIsNoted, SettlementIsTrue
        <3> QED
            BY <2>1, <3>1, <3>2 DEF SettlementIsTrue
    <2> QED
        BY <1>0, <2>1, <2>2, StaysOver DEF SettlementIsTrue
<1>1. ASSUME NEW event \in events, Record(event, "webhook"), ~Kept
      PROVE  SettlementIsTrue'
    <2>1. settlement'.state = event
        BY <1>1 DEF Record
    <2>2. upstream = event /\ event \in {"accepted", "declined"}
        BY DEF IInv, TypeInv, TypeOK, EventsAreTrue
    <2>3. upstream' = upstream /\ seen \subseteq seen'
        BY <2>2, StaysOver
    <2> QED
        BY <2>1, <2>2, <2>3 DEF IInv, EndIsNoted, SettlementIsTrue
<1>2. ASSUME NEW o \in Observer, ~Kept, observation[o].step = "evidence",
             Record(IF observation[o].accepted THEN "accepted" ELSE "cancelled", "evidence")
      PROVE  SettlementIsTrue'
    <2>1. settlement'.state = IF observation[o].accepted THEN "accepted" ELSE "cancelled"
        BY <1>2 DEF Record
    <2>2. /\ upstream # "pending"
          /\ observation[o].accepted => TRUE \in seen
        BY <1>2 DEF IInv, ObservedIsOver
    <2> QED
        BY <2>1, <2>2, StaysOver DEF SettlementIsTrue
<1>3. ASSUME ~Kept, withdrawal.step = "record",
             Record(IF withdrawal.kind = "cancel" THEN "cancelled" ELSE "expired", "withdrawal")
      PROVE  SettlementIsTrue'
    <2>1. settlement'.state = IF withdrawal.kind = "cancel" THEN "cancelled" ELSE "expired"
        BY <1>3 DEF Record
    <2>2. withdrawal.kind = "cancel" => upstream # "pending"
        BY <1>3 DEF IInv, WithdrawnIsOver
    <2> QED
        BY <2>1, <2>2, StaysOver DEF SettlementIsTrue
<1> QED
    BY <1>0, <1>1, <1>2, <1>3, SettlingCases

-----------------------------------------------------------------------------
(* The theorems *)

\* The strengthening of SettlementIsTrue is an invariant: established by Init
\* and kept by every step.
LEMMA InvariantHolds == Spec => []IInv
<1>1. Init => IInv
    BY InitTrue
<1>2. IInv /\ [Next]_vars => IInv'
    BY TypeNext, EndIsNotedNext, EventsAreTrueNext, ObservedIsOverNext,
       WithdrawnIsOverNext, SettlementIsTrueNext DEF IInv
<1> QED
    BY <1>1, <1>2, PTL DEF Spec

\* Every variable keeps its type, and a withdrawal that GitHub did not answer is
\* always sent again under an installation that exists.
THEOREM SettlementTypeOK == Spec => []TypeOK
<1>1. IInv => TypeOK
    BY DEF IInv, TypeInv
<1> QED
    BY <1>1, InvariantHolds, PTL

\* However many observers and withdrawals read while GitHub changes under them:
\* accepted gave access, declined was declined, and cancelled is over on GitHub
\* (observe, settlement.rs:69; withdraw, line 356).
THEOREM SettlementTrue == Spec => []SettlementIsTrue
<1>1. IInv => SettlementIsTrue
    BY DEF IInv
<1> QED
    BY <1>1, InvariantHolds, PTL

\* Of the webhook, the evidence and the withdrawal that settle, the first one
\* stays: late evidence and continued withdrawals change nothing (record, 162).
THEOREM SettlementFinal == Spec => SettlementIsFinal
<1>1. [Next]_vars => [settlement # Unsettled => settlement' = settlement]_vars
    BY SettlingCases DEF Record, Eligible
<1> QED
    BY <1>1, PTL DEF Spec, SettlementIsFinal

-----------------------------------------------------------------------------
(***************************************************************************)
(* The daily sweep, whose visits make observations, for every set of       *)
(* accounts, rows and runs. At any time a sweep has waited for the         *)
(* accounts that it leaves out, and for those it deferred, or does so now. *)
(***************************************************************************)
Sweeping == {"step", "todo", "deferred", "exhausted", "waits"}

\* What a sweep deferred it has waited for, or is doing so; what it leaves out,
\* it had deferred.
SweepInv ==
    /\ DOMAIN run = Run
    /\ \A r \in Run :
          /\ DOMAIN run[r] = Sweeping
          /\ run[r].step \in {"idle", "failed"} => run[r].todo = {}
          /\ run[r].exhausted \subseteq run[r].waits
          /\ \A a \in run[r].deferred :
                \/ a \in run[r].waits
                \/ run[r].step = "sleep" /\ a = Quota(r)

\* What SweepIsThorough says of one sweep.
LeftOut(r) ==
    \A w \in run[r].todo \ run'[r].todo :
        \/ run'[r].step = "failed"
        \/ Visible(w) => w \in settled'
        \/ AccountOf[w] \in run'[r].waits

LEMMA SweepStarts == SweepInit => SweepInv
BY DEF SweepInit, Idle, SweepInv, Sweeping

LEMMA SweepVisits ==
    ASSUME SweepInv, NEW r \in Run, Start(r) \/ Visit(r) \/ FailSweep(r)
    PROVE  SweepInv' /\ LeftOut(r) /\ \A q \in Run \ {r} : run'[q] = run[q]
<1> USE DEF SweepInv, LeftOut, Sweeping, At, Goto, Done,
            Quota, Current, Visible
<1>1. CASE Start(r)
    BY <1>1 DEF Start
<1>2. CASE Skip(r)
    BY <1>2 DEF Skip
<1>3. CASE Status(r)
    BY <1>3 DEF Status
<1>4. CASE Observe(r)
    BY <1>4 DEF Observe
<1>5. CASE Throttled(r)
    BY <1>5 DEF Throttled, MayDefer
<1>6. CASE Wake(r)
    BY <1>6 DEF Wake
<1>7. CASE ReconcileRow(r)
    BY <1>7 DEF ReconcileRow
<1>8. CASE Finish(r)
    BY <1>8 DEF Finish, Idle
<1>9. CASE FailSweep(r)
    BY <1>9 DEF FailSweep, Idle
<1> QED
    BY <1>1, <1>2, <1>3, <1>4, <1>5, <1>6, <1>7, <1>8, <1>9 DEF Visit

LEMMA SweepSteps ==
    ASSUME SweepInv, [SweepNext]_sweepVars
    PROVE  SweepInv' /\ \A r \in Run : LeftOut(r)
<1>1. CASE run' = run
    BY <1>1 DEF SweepInv, LeftOut, Quota, Current
<1>2. ASSUME NEW r \in Run, Start(r) \/ Visit(r) \/ FailSweep(r)
      PROVE  SweepInv' /\ \A q \in Run : LeftOut(q)
    <2>1. SweepInv' /\ LeftOut(r) /\ \A q \in Run \ {r} : run'[q] = run[q]
        BY <1>2, SweepVisits
    <2> QED
        BY <2>1 DEF LeftOut
<1>3. \/ run' = run
      \/ \E r \in Run : Start(r) \/ Visit(r) \/ FailSweep(r)
    BY DEF SweepNext, sweepVars, Project, InvitationEnds,
           Settles, Obscure, Reveal, Uninstall, Onboard, Exhaust, Recover
<1> QED
    BY <1>1, <1>2, <1>3

\* A sweep leaves an end that GitHub shows unsettled only if an owner failed, or for
\* an account that was throttled again after a wait for that very account, in
\* whatever order the accounts' rows come (reconcile.rs:69).
THEOREM SweepThorough == SweepSpec => SweepIsThorough
<1>1. SweepInv /\ [SweepNext]_sweepVars =>
          SweepInv' /\ \A r \in Run : LeftOut(r)
    BY SweepSteps
<1>2. (\A r \in Run : LeftOut(r)) =>
          \A r \in Run :
              \A w \in run[r].todo \ run'[r].todo :
                  \/ run'[r].step = "failed"
                  \/ Visible(w) => w \in settled'
                  \/ AccountOf[w] \in run'[r].waits
    BY DEF LeftOut
<1> QED
    BY SweepStarts, <1>1, <1>2, PTL DEF SweepSpec, SweepIsThorough

\* A sweep reads the row it is at as the least of its list.
LEMMA LeastRow ==
    ASSUME NEW S \in SUBSET Row, S # {}
    PROVE  Min(S) \in S
<1> DEFINE T == {0..x : x \in S}
<1>1. T \subseteq FiniteSubsetsOf(Nat)
    <2>1. \A x \in Nat : IsFiniteSet(0..x)
        BY FS_Interval
    <2> QED
        BY <2>1, SweepAssumption DEF FiniteSubsetsOf, Row
<1>2. \E m \in T : \A t \in T : ~(<<t, m>> \in StrictSubsetOrdering(Nat))
    <2>1. T # {}
        OBVIOUS
    <2> HIDE DEF T
    <2> QED
        BY <1>1, <2>1, FS_StrictSubsetOrderingWellFounded, WFMin
<1>3. PICK x \in S : \A y \in S : ~(<<0..y, 0..x>> \in StrictSubsetOrdering(Nat))
    BY <1>2
<1>4. \A y \in S : x <= y
    <2> SUFFICES ASSUME NEW y \in S, y < x PROVE FALSE
        BY SweepAssumption DEF Row
    <2>1. /\ 0..y \in SUBSET Nat /\ 0..x \in SUBSET Nat /\ 0..y \subseteq 0..x
          /\ x \in 0..x /\ x \notin 0..y
        BY SweepAssumption DEF Row
    <2> QED
        BY <1>3, <2>1 DEF StrictSubsetOrdering
<1> QED
    BY <1>4 DEF Min

LEMMA SweepTypeSteps ==
    ASSUME SweepTypeOK, [SweepNext]_sweepVars
    PROVE  SweepTypeOK'
<1> DEFINE Sweeper == [step : {"idle", "status", "observe", "sleep", "reconcile",
                              "failed"},
                       todo : SUBSET Row, deferred : SUBSET Account,
                       exhausted : SUBSET Account, waits : SUBSET Account]
<1>1. Idle \in Sweeper
    BY DEF Idle
<1>2. ASSUME NEW r \in Run, Start(r) \/ Visit(r) \/ FailSweep(r)
      PROVE  run' \in [Run -> Sweeper] /\ settled' \subseteq Row
    <2>1. run \in [Run -> Sweeper] /\ settled \subseteq Row
        BY DEF SweepTypeOK
    <2>2. run[r].todo # {} => Current(r) \in Row /\ Quota(r) \in Account
        BY <2>1, LeastRow, SweepAssumption DEF Current, Quota
    <2>3. CASE Start(r)
        <3> DEFINE found == {w \in Row : sql[w] = "sent" /\ AccountOf[w] \in onboarded}
        <3>1. run' = [run EXCEPT ![r].step = "status", ![r].todo = found]
              /\ settled' = settled
            BY <2>3 DEF Start
        <3>2. found \in SUBSET Row
            OBVIOUS
        <3> HIDE DEF found
        <3> QED
            BY <2>1, <3>1, <3>2
    <2>4. CASE Skip(r) \/ Status(r) \/ Observe(r)
        BY <2>1, <2>2, <2>4 DEF Skip, Status, Observe, At, Goto, Done
    <2>5. CASE Throttled(r) \/ Wake(r)
        BY <2>1, <2>2, <2>5 DEF Throttled, Wake, At
    <2>6. CASE ReconcileRow(r)
        <3>1. settled' \subseteq Row
            BY <2>1, <2>2, <2>6 DEF ReconcileRow, At
        <3>2. run' \in [Run -> Sweeper]
            BY <2>1, <2>6 DEF ReconcileRow, Done
        <3> QED
            BY <3>1, <3>2
    <2>7. CASE Finish(r)
        BY <1>1, <2>1, <2>7 DEF Finish
    <2>8. CASE FailSweep(r)
        BY <1>1, <2>1, <2>2, <2>8 DEF FailSweep
    <2> QED
        BY <1>2, <2>3, <2>4, <2>5, <2>6, <2>7, <2>8 DEF Visit
<1> HIDE DEF Sweeper
<1>3. SweepTypeOK <=>
          /\ sql \in [Row -> {"sent", "settled"}] /\ settled \subseteq Row
          /\ obscured \subseteq Row
          /\ ended \subseteq Row /\ onboarded \subseteq Account /\ throttled \subseteq Account
          /\ run \in [Run -> Sweeper]
          /\ throttles \in 0..MaxThrottles /\ errors \in 0..MaxErrors
    BY DEF SweepTypeOK, Sweeper
<1>4. SweepTypeOK' <=>
          /\ sql' \in [Row -> {"sent", "settled"}] /\ settled' \subseteq Row
          /\ obscured' \subseteq Row
          /\ ended' \subseteq Row /\ onboarded' \subseteq Account
          /\ throttled' \subseteq Account
          /\ run' \in [Run -> Sweeper]
          /\ throttles' \in 0..MaxThrottles /\ errors' \in 0..MaxErrors
    BY DEF SweepTypeOK, Sweeper
<1>5. CASE UNCHANGED sweepVars
    BY <1>3, <1>4, <1>5 DEF sweepVars
<1>6. ASSUME NEW r \in Run, Start(r) \/ Visit(r) \/ FailSweep(r) PROVE SweepTypeOK'
    <2>1. UNCHANGED <<sql, ended, obscured, onboarded, throttled, throttles>>
        BY <1>6 DEF Visit, Start, Skip, Status, Observe, Throttled, Wake, ReconcileRow,
                    Finish, FailSweep
    <2>2. errors' \in 0..MaxErrors
        <3>1. \/ errors' = errors
              \/ errors < MaxErrors /\ errors' = errors + 1
            BY <1>6 DEF Visit, Start, Skip, Status, Observe, Throttled, Wake, ReconcileRow,
                        Finish, FailSweep
        <3> QED
            BY <1>3, <3>1, SweepAssumption
    <2> QED
        BY <1>2, <1>3, <1>4, <1>6, <2>1, <2>2
<1>7. ASSUME NEW w \in Row,
             Project(w) \/ InvitationEnds(w) \/ Settles(w) \/ Obscure(w) \/ Reveal(w)
      PROVE  SweepTypeOK'
    BY <1>3, <1>4, <1>7, SweepAssumption
       DEF Project, InvitationEnds, Settles, Obscure, Reveal
<1>8. ASSUME NEW a \in Account, Uninstall(a) \/ Onboard(a) \/ Exhaust(a) \/ Recover(a)
      PROVE  SweepTypeOK'
    BY <1>3, <1>4, <1>8, SweepAssumption DEF Uninstall, Onboard, Exhaust, Recover
<1> QED
    BY <1>5, <1>6, <1>7, <1>8 DEF SweepNext

\* The variables of Sweep stay in their types: a sweep is always at a row of its list.
THEOREM SweepTyped == SweepSpec => []SweepTypeOK
<1>1. SweepInit => SweepTypeOK
    BY SweepAssumption DEF SweepInit, SweepTypeOK, Idle
<1>2. SweepTypeOK /\ [SweepNext]_sweepVars => SweepTypeOK'
    BY SweepTypeSteps
<1> QED
    BY <1>1, <1>2, PTL DEF SweepSpec
-----------------------------------------------------------------------------
(***************************************************************************)
(* The listings whose absences settlement and the account owner conclude   *)
(* from, and those the console reads: the proofs about Listing, for every  *)
(* range of times and identities, every page size and every bound. The     *)
(* order of entries is a set of pairs, so that what holds of First also    *)
(* holds of Last.                                                          *)
(***************************************************************************)
Rising == {x \in Entry \X Entry : Precedes(x[1], x[2])}
Falling == {x \in Entry \X Entry : Precedes(x[2], x[1])}

IsOrder(R) ==
    /\ \A e \in Entry : <<e, e>> \notin R
    /\ \A e, f, g \in Entry : <<e, f>> \in R /\ <<f, g>> \in R => <<e, g>> \in R
    /\ \A e, f \in Entry : e = f \/ <<e, f>> \in R \/ <<f, e>> \in R

\* What comes before e in S, how much of it there is, and the first n entries.
Lower(R, S, e) == {f \in S : <<f, e>> \in R}
Rank(R, S, e) == Cardinality(Lower(R, S, e))
Leads(R, S, n) == {e \in S : Rank(R, S, e) < n}

LEMMA EntriesAreFinite == IsFiniteSet(Entry)
<1> DEFINE Keys == (1..LastTime) \X (1..LastId)
           Make == [k \in Keys |-> [at |-> k[1], id |-> k[2]]]
<1>1. IsFiniteSet(Keys)
    <2>1. \A n \in Nat : IsFiniteSet(1..n)
        BY FS_Interval
    <2>2. IsFiniteSet(1..LastTime) /\ IsFiniteSet(1..LastId)
        BY <2>1, ListingBounds
    <2> QED
        BY <2>2, FS_Product
<1>2. Make \in Surjection(Keys, Entry)
    <2>1. Make \in [Keys -> Entry]
        BY DEF Entry
    <2>2. ASSUME NEW e \in Entry PROVE \E k \in Keys : Make[k] = e
        <3>1. <<e.at, e.id>> \in Keys /\ Make[<<e.at, e.id>>] = e
            BY DEF Entry
        <3> QED
            BY <3>1
    <2> QED
        BY <2>1, <2>2 DEF Surjection
<1> QED
    BY <1>1, <1>2, FS_Surjection

LEMMA TimesAreOrders == IsOrder(Rising) /\ IsOrder(Falling)
<1>1. \A e, f \in Entry : e.at = f.at /\ e.id = f.id => e = f
    BY DEF Entry
<1>2. \A e \in Entry : e.at \in Int /\ e.id \in Int
    BY ListingBounds DEF Entry
<1>3. \A e, f \in Entry : (<<e, f>> \in Rising <=> Precedes(e, f))
                       /\ (<<e, f>> \in Falling <=> Precedes(f, e))
    BY DEF Rising, Falling
<1>4. \A e \in Entry : ~Precedes(e, e)
    BY <1>2 DEF Precedes
<1>5. \A e, f, g \in Entry : Precedes(e, f) /\ Precedes(f, g) => Precedes(e, g)
    BY <1>2 DEF Precedes
<1>6. \A e, f \in Entry : e = f \/ Precedes(e, f) \/ Precedes(f, e)
    BY <1>1, <1>2 DEF Precedes
<1> QED
    BY <1>3, <1>4, <1>5, <1>6 DEF IsOrder

LEMMA LeadsOfTimes ==
    ASSUME NEW S \in SUBSET Entry, NEW n
    PROVE  First(S, n) = Leads(Rising, S, n) /\ Last(S, n) = Leads(Falling, S, n)
<1>1. ASSUME NEW e \in S
      PROVE  /\ {f \in S : Precedes(f, e)} = Lower(Rising, S, e)
             /\ {f \in S : Precedes(e, f)} = Lower(Falling, S, e)
    BY DEF Lower, Rising, Falling
<1> QED
    BY <1>1 DEF First, Last, Leads, Rank

LEMMA RankIsNumber ==
    ASSUME NEW R, NEW S \in SUBSET Entry, NEW e
    PROVE  IsFiniteSet(S) /\ IsFiniteSet(Lower(R, S, e)) /\ Rank(R, S, e) \in Nat
           /\ Cardinality(S) \in Nat
<1>1. IsFiniteSet(S)
    BY EntriesAreFinite, FS_Subset
<1>2. Lower(R, S, e) \in SUBSET S
    BY DEF Lower
<1> QED
    BY <1>1, <1>2, FS_Subset, FS_CardinalityType DEF Rank

\* Ranks rise along the order.
LEMMA RanksRise ==
    ASSUME NEW R, IsOrder(R), NEW S \in SUBSET Entry, NEW e \in S, NEW f \in S,
           <<f, e>> \in R
    PROVE  Rank(R, S, f) < Rank(R, S, e)
<1>1. Lower(R, S, f) \subseteq Lower(R, S, e) \ {f}
    BY DEF Lower, IsOrder
<1>2. f \in Lower(R, S, e)
    BY DEF Lower
<1>3. IsFiniteSet(Lower(R, S, e) \ {f})
      /\ Cardinality(Lower(R, S, e) \ {f}) = Rank(R, S, e) - 1
    BY <1>2, RankIsNumber, FS_RemoveElement DEF Rank
<1>4. Rank(R, S, f) <= Rank(R, S, e) - 1
    BY <1>1, <1>3, FS_Subset DEF Rank
<1> QED
    BY <1>4, RankIsNumber

LEMMA RankIsBelowSize ==
    ASSUME NEW R, IsOrder(R), NEW S \in SUBSET Entry, NEW e \in S
    PROVE  Rank(R, S, e) < Cardinality(S)
<1>1. Lower(R, S, e) \in SUBSET (S \ {e})
    BY DEF Lower, IsOrder
<1>2. IsFiniteSet(S \ {e}) /\ Cardinality(S \ {e}) = Cardinality(S) - 1
    BY RankIsNumber, FS_RemoveElement
<1>3. Rank(R, S, e) <= Cardinality(S) - 1
    BY <1>1, <1>2, FS_Subset DEF Rank
<1> QED
    BY <1>3, RankIsNumber

\* In a larger set an entry's rank is no less.
LEMMA RanksGrow ==
    ASSUME NEW R, NEW T \in SUBSET Entry, NEW S \in SUBSET T, NEW e
    PROVE  Rank(R, S, e) <= Rank(R, T, e)
<1>1. Lower(R, S, e) \in SUBSET Lower(R, T, e)
    BY DEF Lower
<1> QED
    BY <1>1, RankIsNumber, FS_Subset DEF Rank

\* The ranks of the n entries of a set are 0 to n - 1.
LEMMA EveryRankIsTaken ==
    ASSUME NEW R, IsOrder(R), NEW S \in SUBSET Entry, NEW n \in Nat, n < Cardinality(S)
    PROVE  \E e \in S : Rank(R, S, e) = n
<1> DEFINE N == 0 .. (Cardinality(S) - 1)
           rank == [e \in S |-> Rank(R, S, e)]
<1>1. Cardinality(S) \in Nat /\ \A e \in S : Rank(R, S, e) \in N
    BY RankIsNumber, RankIsBelowSize
<1>2. rank \in Injection(S, N)
    <2>1. rank \in [S -> N]
        BY <1>1
    <2>2. ASSUME NEW e \in S, NEW f \in S, rank[e] = rank[f] PROVE e = f
        <3>1. e \in Entry /\ f \in Entry
            OBVIOUS
        <3>2. e = f \/ <<e, f>> \in R \/ <<f, e>> \in R
            BY <3>1 DEF IsOrder
        <3>3. <<e, f>> \notin R /\ <<f, e>> \notin R
            BY <1>1, <2>2, RanksRise
        <3> QED
            BY <3>2, <3>3
    <2> QED
        BY <2>1, <2>2 DEF Injection, IsInjective
<1>3. IsFiniteSet(N) /\ Cardinality(N) = Cardinality(S)
    <2>1. \A c \in Nat : IsFiniteSet(0 .. (c - 1)) /\ Cardinality(0 .. (c - 1)) = c
        <3>1. ASSUME NEW c \in Nat
              PROVE  /\ IsFiniteSet(0 .. (c - 1))
                     /\ Cardinality(0 .. (c - 1)) = IF 0 > c - 1 THEN 0 ELSE c - 1 - 0 + 1
            BY <3>1, FS_Interval
        <3> QED
            BY <3>1
    <2> QED
        BY <1>1, <2>1
<1>4. rank \in Surjection(S, N)
    BY <1>2, <1>3, FS_Injection
<1>5. n \in N
    BY <1>1
<1> QED
    BY <1>4, <1>5 DEF Surjection

\* The first entries are those before all others.
LEMMA LeadsComeFirst ==
    ASSUME NEW R, IsOrder(R), NEW S \in SUBSET Entry, NEW n \in Nat
    PROVE  \A e \in Leads(R, S, n) : \A f \in S : <<f, e>> \in R => f \in Leads(R, S, n)
<1> SUFFICES ASSUME NEW e \in Leads(R, S, n), NEW f \in S, <<f, e>> \in R
             PROVE  f \in Leads(R, S, n)
    OBVIOUS
<1>1. Rank(R, S, f) < Rank(R, S, e)
    BY RanksRise DEF Leads
<1> QED
    BY <1>1, RankIsNumber DEF Leads

\* A set that is not empty has one entry that comes first.
LEMMA OneComesFirst ==
    ASSUME NEW R, IsOrder(R), NEW S \in SUBSET Entry
    PROVE  /\ S # {} => Leads(R, S, 1) # {}
           /\ \A e \in Leads(R, S, 1) : \A f \in S : f = e \/ <<e, f>> \in R
<1>1. ASSUME S # {} PROVE Leads(R, S, 1) # {}
    <2>1. 0 < Cardinality(S)
        BY <1>1, RankIsNumber, FS_EmptySet
    <2> QED
        BY <2>1, EveryRankIsTaken DEF Leads
<1>2. ASSUME NEW e \in Leads(R, S, 1), NEW f \in S PROVE f = e \/ <<e, f>> \in R
    <2>1. e \in S /\ Rank(R, S, e) = 0
        BY RankIsNumber DEF Leads
    <2>2. ~(<<f, e>> \in R)
        BY <2>1, RanksRise, RankIsNumber
    <2> QED
        BY <2>1, <2>2 DEF IsOrder
<1> QED
    BY <1>1, <1>2

\* Fewer leads than asked for are all there are.
LEMMA FewLeadsAreAll ==
    ASSUME NEW R, IsOrder(R), NEW S \in SUBSET Entry, NEW n \in Nat,
           Cardinality(Leads(R, S, n + 1)) <= n
    PROVE  Leads(R, S, n) = S
<1>1. Cardinality(S) \in Nat
    BY RankIsNumber
<1>2. CASE Cardinality(S) <= n
    <2>1. \A e \in S : Rank(R, S, e) < n
        BY <1>1, <1>2, RankIsBelowSize, RankIsNumber
    <2> QED
        BY <2>1 DEF Leads
<1>3. CASE n < Cardinality(S)
    <2> DEFINE L == Leads(R, S, n + 1)
               rank == [e \in L |-> Rank(R, S, e)]
    <2>1. rank \in [L -> 0..n]
        BY RankIsNumber DEF Leads
    <2>2. ASSUME NEW m \in 0..n PROVE \E e \in L : rank[e] = m
        <3>1. PICK e \in S : Rank(R, S, e) = m
            BY <1>1, <1>3, EveryRankIsTaken
        <3> QED
            BY <3>1 DEF Leads
    <2>3. rank \in Surjection(L, 0..n)
        BY <2>1, <2>2 DEF Surjection
    <2>4. L \in SUBSET Entry /\ IsFiniteSet(L) /\ Cardinality(L) \in Nat
        BY RankIsNumber DEF Leads
    <2>5. Cardinality(0..n) = n + 1
        BY FS_Interval
    <2> QED
        BY <2>3, <2>4, <2>5, FS_Surjection
<1> QED
    BY <1>1, <1>2, <1>3

\* The first of the first are the first.
LEMMA LeadsOfLeads ==
    ASSUME NEW R, IsOrder(R), NEW S \in SUBSET Entry, NEW n \in Nat
    PROVE  Leads(R, Leads(R, S, n + 1), n) = Leads(R, S, n)
<1> DEFINE L == Leads(R, S, n + 1)
<1>1. ASSUME NEW e \in L PROVE Rank(R, L, e) = Rank(R, S, e)
    <2>1. Lower(R, L, e) = Lower(R, S, e)
        BY LeadsComeFirst DEF Lower, Leads
    <2> QED
        BY <2>1 DEF Rank
<1>2. ASSUME NEW e \in S, Rank(R, S, e) < n PROVE e \in L
    BY <1>2, RankIsNumber DEF Leads
<1>3. L \subseteq S
    BY DEF Leads
<1> SUFFICES Leads(R, L, n) = Leads(R, S, n)
    OBVIOUS
<1> HIDE DEF L
<1> QED
    BY <1>1, <1>2, <1>3 DEF Leads

-----------------------------------------------------------------------------
\* The order in which a reader is led on: newest first, but a queue oldest first.
ReadingOrder == IF kind = "queue" THEN Rising ELSE Falling

Position == [to : {"before", "after"}, entry : Entry]
ReadingOn == IF kind = "queue" THEN "after" ELSE "before"

ListingTyped ==
    /\ kind \in Kind
    /\ lasting \subseteq present /\ present \subseteq ever /\ ever \subseteq Entry
    /\ page \subseteq shown /\ shown \subseteq ever
    /\ position \in Position \cup {Latest}
    /\ newer \in BOOLEAN /\ older \in BOOLEAN /\ repeated \in BOOLEAN
    /\ appeared \in BOOLEAN /\ vanished \in BOOLEAN
    /\ number \in Nat \ {0}
    /\ walked \in SUBSET (Nat \ {0})
    /\ expected \in Nat \cup {-1}
    /\ kind \in Seeking => step \in {"read", "newer", "older", "shown"}
    /\ kind \notin Seeking => step \in {"read", "complete", "failed"}
    /\ step \in {"newer", "older"} => kind = "audit" /\ page # {}
    /\ kind = "audit" => ~vanished
    /\ kind # "audit" => ~newer

\* A reader goes on from an entry that it has shown.
Positioned ==
    kind \in Seeking =>
        /\ step = "read" /\ position = Latest => shown = {}
        /\ position # Latest =>
              /\ position.entry \in shown
              /\ position.to = ReadingOn \/ kind = "audit"

\* What lasts and comes before an entry that was shown was shown itself.
AheadIsShown ==
    kind \in Seeking =>
        \A f \in shown, e \in lasting : <<e, f>> \in ReadingOrder => e \in shown

EndIsShown == step = "shown" /\ ~older => lasting \subseteq shown

\* A cursor to newer events leads to some.
NewerIsThere ==
    /\ newer /\ step \in {"older", "shown"} =>
           \A e \in Last(page, 1) : \E f \in present : Precedes(e, f)
    /\ kind = "audit" /\ step = "read" /\ position.to = "after" =>
           \E f \in present : Precedes(position.entry, f)

\* All that was shown lies before where the reader goes on.
Forward ==
    kind \in {"history", "queue"} =>
        /\ ~repeated
        /\ step = "read" /\ position # Latest =>
              \A f \in shown : f = position.entry \/ <<f, position.entry>> \in ReadingOrder
        /\ step = "shown" =>
              \A e \in (IF kind = "queue" THEN Last(page, 1) ELSE First(page, 1)) :
                  \A f \in shown : f = e \/ <<f, e>> \in ReadingOrder

\* What lasts is shown, or comes on the pages that are still to be read.
Walking ==
    kind = "link" /\ step = "read" /\ ~vanished /\ number \notin walked =>
        \A e \in lasting \ shown :
            (number - 1) * PageSize <= Rank(Rising, present, e)

Counting ==
    kind = "numbered" =>
        /\ expected = -1 => shown = {}
        /\ ~vanished => shown \subseteq present
        /\ ~appeared /\ expected # -1 =>
              /\ Cardinality(present) <= expected
              /\ Cardinality(present) = expected => shown \subseteq present

Seeks == Positioned /\ AheadIsShown /\ EndIsShown /\ NewerIsThere /\ Forward

ListingInv == ListingTyped /\ Seeks /\ Walking /\ Counting /\ AbsenceIsEvidence

LEMMA ListingStarts == ListingInit => ListingInv
<1> SUFFICES ASSUME ListingInit PROVE ListingInv
    OBVIOUS
<1>1. ListingTyped
    <2>1. /\ number \in Nat \ {0}
          /\ walked \in SUBSET (Nat \ {0})
          /\ expected \in Nat \cup {-1}
        BY DEF ListingInit
    <2>2. kind \in Kind /\ present \subseteq Entry /\ step = "read"
        BY DEF ListingInit
    <2> QED
        BY <2>1, <2>2 DEF ListingInit, ListingTyped
<1>2. Seeks
    BY DEF ListingInit, Seeks, Positioned, AheadIsShown, EndIsShown, NewerIsThere, Forward,
           Latest
<1>3. Walking
    <2>1. \A e \in Entry : 0 <= Rank(Rising, present, e)
        BY RankIsNumber DEF ListingInit
    <2>2. number = 1 /\ (number - 1) * PageSize = 0
        BY ListingBounds DEF ListingInit
    <2> QED
        BY <2>1, <2>2 DEF ListingInit, Walking
<1>4. Counting /\ AbsenceIsEvidence
    BY DEF ListingInit, Counting, AbsenceIsEvidence
<1> QED
    BY <1>1, <1>2, <1>3, <1>4 DEF ListingInv

LEMMA ReadingIsOrder == IsOrder(ReadingOrder)
BY TimesAreOrders DEF ReadingOrder

\* A page is led by its first entry, unless there is none.
LEMMA PagesAreSome ==
    ASSUME NEW R, IsOrder(R), NEW S \in SUBSET Entry, Leads(R, S, PageSize) = {}
    PROVE  S = {}
<1>1. Leads(R, S, 1) \subseteq Leads(R, S, PageSize)
    BY RankIsNumber, ListingBounds DEF Leads
<1> QED
    BY <1>1, OneComesFirst

\* Reading on, what lasts was shown or is among what is sought.
LEMMA SoughtOrShown ==
    ASSUME ListingInv, kind \in Seeking, step = "read", position.to # ReadingOn => position = Latest
    PROVE  /\ Sought(position) \in SUBSET present
           /\ \A e \in Sought(position) :
                  position = Latest \/ <<position.entry, e>> \in ReadingOrder
           /\ \A e \in lasting : e \in Sought(position) \/ e \in shown
<1> USE DEF ListingInv, ListingTyped
<1>1. CASE position = Latest
    BY <1>1 DEF Latest, Sought
<1>2. CASE position # Latest
    <2>1. position \in Position /\ position.to = ReadingOn /\ position.entry \in shown
          /\ position.entry \in Entry
        BY <1>2 DEF Seeks, Positioned, Position
    <2>2. \A e \in present : e \in Sought(position) <=> <<position.entry, e>> \in ReadingOrder
        BY <2>1 DEF Position, ReadingOn, ReadingOrder, Rising, Falling, Sought
    <2>3. Sought(position) \in SUBSET present
        BY <2>1 DEF Position, Sought
    <2>4. ASSUME NEW e \in lasting, e \notin Sought(position) PROVE e \in shown
        <3>1. e \in Entry /\ <<position.entry, e>> \notin ReadingOrder
            BY <2>2, <2>4
        <3>2. e = position.entry \/ <<e, position.entry>> \in ReadingOrder
            BY <2>1, <3>1, ReadingIsOrder DEF IsOrder
        <3> QED
            BY <2>1, <3>2 DEF Seeks, AheadIsShown
    <2> QED
        BY <2>2, <2>3, <2>4
<1> QED
    BY <1>1, <1>2

\* Reading on leaves no gap.
LEMMA ReadingOnLeavesNoGap ==
    ASSUME ListingInv, kind \in Seeking, step = "read", position.to # ReadingOn => position = Latest,
           NEW n \in Nat
    PROVE  LET rows == Leads(ReadingOrder, Sought(position), n)
           IN  \A f \in shown \cup rows, e \in lasting :
                   <<e, f>> \in ReadingOrder => e \in shown \cup rows
<1> DEFINE rows == Leads(ReadingOrder, Sought(position), n)
<1> SUFFICES ASSUME NEW f \in shown \cup rows, NEW e \in lasting, <<e, f>> \in ReadingOrder
             PROVE  e \in shown \cup rows
    OBVIOUS
<1>1. Sought(position) \in SUBSET Entry
    BY SoughtOrShown DEF ListingInv, ListingTyped
<1>2. CASE f \in shown
    BY <1>2 DEF ListingInv, Seeks, AheadIsShown
<1>3. CASE f \in rows /\ e \in Sought(position)
    BY <1>1, <1>3, ReadingIsOrder, LeadsComeFirst
<1>4. CASE e \notin Sought(position)
    BY <1>4, SoughtOrShown
<1> QED
    BY <1>2, <1>3, <1>4

\* What a step leaves alone outside the seeking readers.
LEMMA SeekersOnly ==
    ASSUME ListingTyped, kind \in Seeking, kind' = kind
    PROVE  Walking' /\ Counting' /\ (step' # "complete" => AbsenceIsEvidence')
BY DEF Walking, Counting, AbsenceIsEvidence, Seeking

LEMMA ReadAuditKeeps ==
    ASSUME ListingInv, ReadAudit
    PROVE  ListingInv'
<1> DEFINE rows == IF position.to = "after" THEN First(Sought(position), PageSize)
                   ELSE Last(Sought(position), PageSize)
<1> USE DEF ListingInv
<1>1. /\ kind = "audit" /\ step = "read" /\ kind \in Seeking
      /\ page' = rows /\ shown' = shown \cup rows
      /\ repeated' = (repeated \/ rows \cap shown # {})
      /\ step' = (IF rows = {} THEN "shown" ELSE "newer")
      /\ newer' = FALSE /\ older' = FALSE
      /\ UNCHANGED <<kind, position, number, walked, expected, present, changes, lasting,
                     ever, appeared, vanished>>
    BY DEF ReadAudit, Show, listing, Seeking
<1>2. ReadingOrder = Falling /\ ReadingOn = "before"
    BY <1>1 DEF ReadingOrder, ReadingOn
<1>3. PageSize \in Nat /\ IsOrder(Rising) /\ IsOrder(Falling)
    BY ListingBounds, TimesAreOrders
<1> HIDE DEF rows
<1>4. /\ rows \subseteq present
      /\ \A f \in shown \cup rows, e \in lasting :
             <<e, f>> \in Falling => e \in shown \cup rows
      /\ rows = {} => lasting \subseteq shown
    <2>1. CASE position.to # "after"
        <3>1. position.to # ReadingOn => position = Latest
            BY <1>2, <2>1 DEF ListingTyped, Position, Latest
        <3>2. Sought(position) \in SUBSET Entry
            BY <1>1, <3>1, SoughtOrShown DEF ListingTyped
        <3>3. rows = Leads(ReadingOrder, Sought(position), PageSize)
            BY <1>2, <2>1, <3>2, LeadsOfTimes DEF rows
        <3>4. rows \subseteq present
            BY <1>1, <3>1, <3>3, SoughtOrShown DEF Leads
        <3>5. rows = {} => lasting \subseteq shown
            BY <1>1, <3>1, <3>2, <3>3, ReadingIsOrder, PagesAreSome, SoughtOrShown
        <3>6. \A f \in shown \cup rows, e \in lasting :
                  <<e, f>> \in Falling => e \in shown \cup rows
            BY <1>1, <1>2, <1>3, <3>1, <3>3, ReadingOnLeavesNoGap
        <3> QED
            BY <3>4, <3>5, <3>6
    <2>2. CASE position.to = "after"
        <3>1. position \in Position /\ position.entry \in shown /\ position.entry \in Entry
            BY <1>1, <2>2 DEF ListingTyped, Seeks, Positioned, Position, Latest
        <3>2. Sought(position) = {e \in present : Precedes(position.entry, e)}
            BY <2>2 DEF Sought
        <3>3. Sought(position) \in SUBSET Entry
            BY <3>2 DEF ListingTyped
        <3>4. rows = Leads(Rising, Sought(position), PageSize)
            BY <2>2, <3>3, LeadsOfTimes DEF rows
        <3>5. rows \subseteq present /\ \A f \in rows : <<f, position.entry>> \in Falling
            BY <3>1, <3>2, <3>4 DEF Leads, Falling, ListingTyped
        <3>6. rows # {}
            <4>1. Sought(position) # {}
                BY <1>1, <2>2, <3>2 DEF Seeks, NewerIsThere
            <4> QED
                BY <1>3, <3>3, <3>4, <4>1, PagesAreSome
        <3>7. ASSUME NEW f \in shown \cup rows, NEW e \in lasting, <<e, f>> \in Falling
              PROVE  e \in shown \cup rows
            <4>1. e \in Entry /\ f \in Entry
                BY <3>5 DEF ListingTyped
            <4>2. CASE f \in shown
                BY <1>1, <1>2, <3>7, <4>2 DEF Seeks, AheadIsShown
            <4>3. CASE f \in rows
                <5>1. <<e, position.entry>> \in Falling
                    BY <1>3, <3>1, <3>5, <3>7, <4>1, <4>3 DEF IsOrder
                <5> QED
                    BY <1>1, <1>2, <3>1, <5>1 DEF Seeks, AheadIsShown
            <4> QED
                BY <4>2, <4>3
        <3> QED
            BY <3>5, <3>6, <3>7
    <2> QED
        BY <2>1, <2>2
<1>5. ListingTyped'
    BY <1>1, <1>4 DEF ListingTyped
<1>6. Seeks'
    <2>1. Positioned' /\ NewerIsThere' /\ Forward'
        BY <1>1 DEF Seeks, Positioned, NewerIsThere, Forward, ReadingOn
    <2>2. AheadIsShown'
        BY <1>1, <1>2, <1>4 DEF AheadIsShown, ReadingOrder
    <2>3. EndIsShown'
        BY <1>1, <1>4 DEF EndIsShown
    <2> QED
        BY <2>1, <2>2, <2>3 DEF Seeks
<1> QED
    BY <1>1, <1>5, <1>6, SeekersOnly

\* A page has at most one end, which is its own and lies beyond the rest of it.
LEMMA PagesEnd ==
    ASSUME NEW S \in SUBSET Entry
    PROVE  /\ First(S, 1) \subseteq S /\ Last(S, 1) \subseteq S
           /\ S # {} => First(S, 1) # {} /\ Last(S, 1) # {}
           /\ \A e \in First(S, 1) : \A f \in S : f = e \/ <<f, e>> \in Falling
           /\ \A e \in Last(S, 1) : \A f \in S : f = e \/ <<f, e>> \in Rising
           /\ \A e, f \in First(S, 1) : e = f
           /\ \A e, f \in Last(S, 1) : e = f
<1>1. First(S, 1) = Leads(Rising, S, 1) /\ Last(S, 1) = Leads(Falling, S, 1)
    BY LeadsOfTimes
<1>2. First(S, 1) \subseteq S /\ Last(S, 1) \subseteq S
    BY DEF First, Last
<1>3. /\ S # {} => First(S, 1) # {} /\ Last(S, 1) # {}
      /\ \A e \in First(S, 1) : \A f \in S : f = e \/ <<e, f>> \in Rising
      /\ \A e \in Last(S, 1) : \A f \in S : f = e \/ <<e, f>> \in Falling
    BY <1>1, TimesAreOrders, OneComesFirst
<1>4. /\ \A e, f \in Entry : <<e, f>> \in Rising <=> <<f, e>> \in Falling
      /\ \A e, f \in Entry : ~(<<e, f>> \in Rising /\ <<f, e>> \in Rising)
      /\ \A e, f \in Entry : ~(<<e, f>> \in Falling /\ <<f, e>> \in Falling)
    <2>1. \A e, f \in Entry : <<e, f>> \in Rising <=> <<f, e>> \in Falling
        BY DEF Rising, Falling
    <2> QED
        BY <2>1, TimesAreOrders DEF IsOrder
<1> QED
    BY <1>2, <1>3, <1>4

LEMMA ProbeKeeps ==
    ASSUME ListingInv, Probe
    PROVE  ListingInv'
<1> USE DEF ListingInv
<1>1. /\ kind = "audit" /\ kind \in Seeking /\ page # {} /\ page \in SUBSET Entry
      /\ step \in {"newer", "older"} /\ step' \in {"older", "shown"}
      /\ UNCHANGED <<kind, position, page, number, walked, expected, shown, repeated,
                     present, changes, lasting, ever, appeared, vanished>>
    BY DEF Probe, ListingTyped, listing, Seeking
<1>2. ReadingOrder = Falling
    BY <1>1 DEF ReadingOrder
<1>3. CASE step = "newer"
    <2>1. /\ newer' = (\E p \in After(page) : Sought(p) # {})
          /\ step' = "older" /\ older' = older
        BY <1>3 DEF Probe
    <2>2. newer' \in BOOLEAN
        BY <2>1
    <2>3. ASSUME newer' PROVE \A e \in Last(page, 1) : \E f \in present : Precedes(e, f)
        <3>1. PICK e \in Last(page, 1) : Sought([to |-> "after", entry |-> e]) # {}
            BY <2>1, <2>3 DEF After
        <3>2. \E f \in present : Precedes(e, f)
            BY <3>1 DEF Sought
        <3> QED
            BY <1>1, <3>2, PagesEnd
    <2>4. ListingTyped'
        BY <1>1, <2>1, <2>2 DEF ListingTyped
    <2>5. Seeks'
        BY <1>1, <2>1, <2>3
           DEF Seeks, Positioned, AheadIsShown, EndIsShown, NewerIsThere, Forward, ReadingOrder,
               ReadingOn
    <2> QED
        BY <1>1, <2>1, <2>4, <2>5, SeekersOnly
<1>4. CASE step = "older"
    <2>1. /\ older' = (\E p \in Before(page) : Sought(p) # {})
          /\ step' = "shown" /\ newer' = newer
        BY <1>4 DEF Probe
    <2>2. older' \in BOOLEAN
        BY <2>1
    <2>3. ASSUME ~older' PROVE lasting \subseteq shown
        <3>1. PICK e \in First(page, 1) : TRUE
            BY <1>1, PagesEnd
        <3>2. e \in page /\ e \in Entry /\ e \in shown
            BY <1>1, PagesEnd DEF ListingTyped
        <3>3. Sought([to |-> "before", entry |-> e]) = {}
            BY <2>1, <2>3, <3>1 DEF Before
        <3>4. \A f \in present : ~Precedes(f, e)
            BY <3>3 DEF Sought
        <3>5. ASSUME NEW f \in lasting PROVE f \in shown
            <4>1. f \in Entry /\ <<e, f>> \notin Falling
                BY <3>4 DEF Falling, ListingTyped
            <4>2. f = e \/ <<f, e>> \in Falling
                BY <3>2, <4>1, TimesAreOrders DEF IsOrder
            <4> QED
                BY <1>1, <1>2, <3>2, <4>2 DEF Seeks, AheadIsShown
        <3> QED
            BY <3>5
    <2>4. ListingTyped'
        BY <1>1, <2>1, <2>2 DEF ListingTyped
    <2>5. Seeks'
        BY <1>1, <1>4, <2>1, <2>3
           DEF Seeks, Positioned, AheadIsShown, EndIsShown, NewerIsThere, Forward, ReadingOrder,
               ReadingOn
    <2> QED
        BY <1>1, <2>1, <2>4, <2>5, SeekersOnly
<1> QED
    BY <1>1, <1>3, <1>4

LEMMA ReadOnKeeps ==
    ASSUME ListingInv, ReadOn
    PROVE  ListingInv'
<1> DEFINE rows == Leads(ReadingOrder, Sought(position), PageSize)
           more == Leads(ReadingOrder, Sought(position), PageSize + 1)
<1> USE DEF ListingInv
<1>1. kind \in {"history", "queue"} /\ kind \in Seeking /\ step = "read" /\ PageSize \in Nat
    BY ListingBounds DEF ReadOn, Seeking
<1>2. position.to # ReadingOn => position = Latest
    BY <1>1 DEF Seeks, Positioned
<1>3. /\ Sought(position) \in SUBSET present /\ Sought(position) \in SUBSET Entry
      /\ \A e \in Sought(position) : position = Latest \/ <<position.entry, e>> \in ReadingOrder
      /\ \A e \in lasting : e \in Sought(position) \/ e \in shown
    BY <1>1, <1>2, SoughtOrShown DEF ListingTyped
<1>4. /\ page' = rows /\ shown' = shown \cup rows
      /\ repeated' = (repeated \/ rows \cap shown # {})
      /\ older' \in BOOLEAN /\ (older' <=> Cardinality(more) > PageSize)
    <2>1. ASSUME NEW n
          PROVE  \A S \in SUBSET Entry :
                     (IF kind = "queue" THEN First(S, n) ELSE Last(S, n))
                         = Leads(ReadingOrder, S, n)
        BY LeadsOfTimes DEF ReadingOrder
    <2>2. more \in SUBSET Entry /\ Leads(ReadingOrder, more, PageSize) = rows
        BY <1>1, <1>3, ReadingIsOrder, LeadsOfLeads DEF Leads
    <2> HIDE DEF rows, more
    <2>3. /\ (IF kind = "queue" THEN First(Sought(position), PageSize + 1)
              ELSE Last(Sought(position), PageSize + 1)) = more
          /\ (IF kind = "queue" THEN First(more, PageSize)
              ELSE Last(more, PageSize)) = rows
        BY <1>3, <2>1, <2>2 DEF more
    <2>4. Show(rows) /\ older' = (Cardinality(more) > PageSize)
        BY <2>3 DEF ReadOn
    <2>5. older' \in BOOLEAN /\ (older' <=> Cardinality(more) > PageSize)
        <3>1. Cardinality(more) \in Nat
            BY <2>2, RankIsNumber
        <3>2. (Cardinality(more) > PageSize) \in BOOLEAN
            BY <1>1, <3>1, SMT
        <3>3. older' \in BOOLEAN
            BY <2>4, <3>2, Zenon
        <3>4. older' => Cardinality(more) > PageSize
            BY <2>4, Zenon
        <3>5. Cardinality(more) > PageSize => older'
            BY <2>4, Zenon
        <3> QED
            BY <3>3, <3>4, <3>5
    <2> QED
        BY <2>4, <2>5 DEF Show
<1>5. /\ step' = "shown"
      /\ UNCHANGED <<kind, position, newer, number, walked, expected, present, changes,
                     lasting, ever, appeared, vanished>>
    BY DEF ReadOn, listing
<1>6. rows \subseteq Sought(position)
    BY DEF Leads
<1>7. \A f \in shown \cup rows, e \in lasting :
          <<e, f>> \in ReadingOrder => e \in shown \cup rows
    BY <1>1, <1>2, ReadingOnLeavesNoGap
<1>8. ASSUME ~older' PROVE lasting \subseteq shown \cup rows
    <2>1. Cardinality(more) \in Nat
        BY <1>3, RankIsNumber DEF Leads
    <2>2. Cardinality(more) <= PageSize
        <3> HIDE DEF rows, more
        <3> QED
            BY <1>1, <1>4, <1>8, <2>1
    <2>3. rows = Sought(position)
        BY <1>1, <1>3, <2>2, ReadingIsOrder, FewLeadsAreAll
    <2> QED
        BY <1>3, <2>3
<1> HIDE DEF rows, more
<1>9. \A e \in rows, f \in shown : <<f, e>> \in ReadingOrder
    <2> SUFFICES ASSUME NEW e \in rows, NEW f \in shown PROVE <<f, e>> \in ReadingOrder
        OBVIOUS
    <2>1. position # Latest
        BY <1>1 DEF Seeks, Positioned
    <2>2. f = position.entry \/ <<f, position.entry>> \in ReadingOrder
        BY <1>1, <2>1 DEF Seeks, Forward
    <2>3. <<position.entry, e>> \in ReadingOrder
        BY <1>3, <1>6, <2>1
    <2>4. e \in Entry /\ f \in Entry /\ position.entry \in Entry
        BY <1>1, <1>3, <1>6, <2>1 DEF Seeks, Positioned, ListingTyped
    <2> QED
        BY <2>2, <2>3, <2>4, ReadingIsOrder DEF IsOrder
<1>10. rows \cap shown = {}
    <2>1. \A e \in rows : e \in Entry /\ <<e, e>> \notin ReadingOrder
        BY <1>3, <1>6, ReadingIsOrder DEF IsOrder
    <2> QED
        BY <1>9, <2>1
<1>11. \A e \in (IF kind = "queue" THEN Last(rows, 1) ELSE First(rows, 1)) :
           \A f \in shown \cup rows : f = e \/ <<f, e>> \in ReadingOrder
    <2>1. rows \in SUBSET Entry
        BY <1>3, <1>6
    <2> QED
        BY <1>9, <2>1, PagesEnd DEF ReadingOrder
<1>12. ListingTyped'
    <2>1. repeated' \in BOOLEAN
        BY <1>4
    <2> QED
        BY <1>1, <1>3, <1>4, <1>5, <1>6, <2>1 DEF ListingTyped
<1>13. Seeks'
    <2>1. Positioned' /\ NewerIsThere'
        BY <1>1, <1>4, <1>5 DEF Seeks, Positioned, NewerIsThere, ReadingOn, ListingTyped
    <2>2. AheadIsShown' /\ EndIsShown'
        BY <1>4, <1>5, <1>7, <1>8 DEF AheadIsShown, EndIsShown, ReadingOrder
    <2>3. Forward'
        BY <1>1, <1>4, <1>5, <1>10, <1>11 DEF Seeks, Forward, ReadingOrder
    <2> QED
        BY <2>1, <2>2, <2>3 DEF Seeks
<1> QED
    BY <1>1, <1>5, <1>12, <1>13, SeekersOnly

LEMMA FollowKeeps ==
    ASSUME ListingInv, Follow
    PROVE  ListingInv'
<1> USE DEF ListingInv
<1>1. /\ kind \in Seeking /\ step = "shown" /\ step' = "read" /\ page \in SUBSET Entry
      /\ UNCHANGED <<kind, page, newer, older, number, walked, expected, shown, repeated,
                     present, changes, lasting, ever, appeared, vanished>>
    BY DEF Follow, ListingTyped, listing
<1>2. PICK e \in page :
          /\ position' = [to |-> "after", entry |-> e] \/ position' = [to |-> "before", entry |-> e]
          /\ \/ /\ position'.to = ReadingOn
                /\ e \in (IF kind = "queue" THEN Last(page, 1) ELSE First(page, 1))
             \/ newer /\ position'.to = "after" /\ e \in Last(page, 1)
    BY <1>1, PagesEnd DEF Follow, After, Before, ReadingOn
<1>3. /\ position' \in Position /\ position'.entry = e /\ position' # Latest
      /\ e \in shown /\ e \in Entry
    BY <1>1, <1>2 DEF Position, Latest, ListingTyped
<1>4. ListingTyped'
    BY <1>1, <1>3 DEF ListingTyped
<1>5. Positioned'
    BY <1>1, <1>2, <1>3 DEF Positioned, ReadingOn, ListingTyped
<1>6. AheadIsShown' /\ EndIsShown'
    BY <1>1 DEF Seeks, AheadIsShown, EndIsShown, ReadingOrder
<1>7. NewerIsThere'
    BY <1>1, <1>2, <1>3 DEF Seeks, NewerIsThere, ReadingOn
<1>8. Forward'
    BY <1>1, <1>2, <1>3 DEF Seeks, Forward, ReadingOrder, ReadingOn, ListingTyped
<1> QED
    BY <1>1, <1>4, <1>5, <1>6, <1>7, <1>8, SeekersOnly DEF Seeks

\* What a step leaves alone outside the walks along GitHub's pages.
LEMMA WalkersOnly ==
    ASSUME ListingTyped, kind \notin Seeking, kind' = kind, newer' = newer, step' # "shown"
    PROVE  Seeks'
BY DEF Seeks, Positioned, AheadIsShown, EndIsShown, NewerIsThere, Forward, Seeking,
       ListingTyped

\* The page that starts at an offset.
LEMMA OffsetsRank ==
    ASSUME present \subseteq Entry, number \in Nat
    PROVE  /\ Offset(number) \subseteq present
           /\ \A e \in present :
                  (number - 1) * PageSize <= Rank(Rising, present, e) =>
                      e \in Offset(number) \/ number * PageSize <= Rank(Rising, present, e)
<1>1. /\ number * PageSize \in Int /\ (number - 1) * PageSize \in Int
    BY ListingBounds
<1>2. /\ First(present, number * PageSize) = Leads(Rising, present, number * PageSize)
      /\ First(present, (number - 1) * PageSize) =
             Leads(Rising, present, (number - 1) * PageSize)
    BY LeadsOfTimes
<1>3. \A e \in present : Rank(Rising, present, e) \in Nat
    BY RankIsNumber
<1> QED
    BY <1>1, <1>2, <1>3 DEF Offset, Leads

LEMMA ReadLinkKeeps ==
    ASSUME ListingInv, ReadLink
    PROVE  ListingInv'
<1> USE DEF ListingInv
<1>1. /\ kind = "link" /\ kind \notin Seeking /\ step = "read" /\ number \notin walked
      /\ walked' = walked \cup {number}
      /\ shown' = shown \cup Offset(number)
      /\ \/ number' = number + 1 /\ step' = step
         \/ /\ Cardinality(present) <= number * PageSize
            /\ step' = "complete" /\ number' = number
         \/ number' \in walked' /\ step' = step
      /\ UNCHANGED <<kind, position, page, newer, older, expected, repeated, present,
                     changes, lasting, ever, appeared, vanished>>
    BY DEF ReadLink, listing, Seeking
<1>2. /\ present \in SUBSET Entry /\ lasting \subseteq present
      /\ number \in Nat \ {0} /\ walked \in SUBSET (Nat \ {0})
    BY DEF ListingTyped
<1>3. Offset(number) \subseteq present
    BY <1>2, OffsetsRank
<1>4. ListingTyped'
    <2>1. walked' \in SUBSET (Nat \ {0})
        BY <1>1, <1>2
    <2>2. number' \in Nat \ {0}
        <3>1. number + 1 \in Nat \ {0}
            BY <1>2
        <3> QED
            BY <1>1, <1>2, <2>1, <3>1
    <2>3. step' \in {"read", "complete"}
        BY <1>1
    <2> QED
        BY <1>1, <1>3, <2>1, <2>2, <2>3 DEF ListingTyped
<1>5. Seeks'
    BY <1>1, WalkersOnly
<1>6. ASSUME ~vanished, NEW e \in lasting \ shown'
      PROVE  number * PageSize <= Rank(Rising, present, e)
    <2>1. (number - 1) * PageSize <= Rank(Rising, present, e)
        BY <1>1, <1>6 DEF Walking
    <2> QED
        BY <1>1, <1>2, <1>6, <2>1, OffsetsRank
<1>7. Walking'
    <2>1. CASE number' = number + 1
        <3>1. (number' - 1) * PageSize = number * PageSize
            <4>1. number' - 1 = number
                BY <1>2, <2>1
            <4> QED
                BY <4>1
        <3> QED
            BY <1>1, <1>6, <3>1 DEF Walking
    <2>2. CASE step' = "complete" \/ number' \in walked'
        BY <2>2 DEF Walking
    <2> QED
        BY <1>1, <2>1, <2>2
<1>8. Counting'
    BY <1>1 DEF Counting
<1>9. AbsenceIsEvidence'
    <2>1. ASSUME step' = "complete", ~vanished, NEW e \in lasting PROVE e \in shown'
        <3>1. Cardinality(present) <= number * PageSize
            BY <1>1, <2>1
        <3>2. Rank(Rising, present, e) < Cardinality(present)
            BY <1>2, TimesAreOrders, RankIsBelowSize
        <3>3. Rank(Rising, present, e) \in Nat /\ Cardinality(present) \in Nat
              /\ number * PageSize \in Int
            BY <1>2, RankIsNumber, ListingBounds
        <3>4. ~(number * PageSize <= Rank(Rising, present, e))
            BY <3>1, <3>2, <3>3
        <3> QED
            BY <1>6, <2>1, <3>4
    <2> QED
        BY <1>1, <1>4, <2>1 DEF AbsenceIsEvidence, ListingTyped
<1> QED
    BY <1>4, <1>5, <1>7, <1>8, <1>9

LEMMA ReadNumberedKeeps ==
    ASSUME ListingInv, ReadNumbered, ~FailRead
    PROVE  ListingInv'
<1> DEFINE read == shown \cup Offset(number)
<1> USE DEF ListingInv
<1>1. /\ kind = "numbered" /\ kind \notin Seeking /\ step = "read"
      /\ Agrees(Cardinality(present))
      /\ expected' = Cardinality(present) /\ shown' = read /\ number' = number + 1
      /\ step' = CASE Cardinality(read) = Cardinality(present) -> "complete"
                   [] Cardinality(read) > Cardinality(present) \/ Offset(number) = {} ->
                          "failed"
                   [] OTHER -> "read"
      /\ UNCHANGED <<kind, position, page, newer, older, walked, repeated, present,
                     changes, lasting, ever, appeared, vanished>>
    BY DEF ReadNumbered, listing, Seeking
<1>2. /\ present \in SUBSET Entry /\ present \subseteq ever
      /\ number \in Nat \ {0} /\ IsFiniteSet(present) /\ Cardinality(present) \in Nat
    BY RankIsNumber DEF ListingTyped
<1>3. Offset(number) \subseteq present
    BY <1>2, OffsetsRank
<1>4. /\ step' \in {"read", "complete", "failed"}
      /\ step' = "complete" => Cardinality(read) = Cardinality(present)
    <2> HIDE DEF read
    <2> QED
        BY <1>1
<1>5. ASSUME ~vanished \/ ~appeared PROVE read \subseteq present
    <2>1. expected \in {-1, Cardinality(present)}
        BY <1>1 DEF Agrees
    <2>2. shown \subseteq present
        BY <1>1, <1>2, <1>5, <2>1 DEF Counting
    <2> QED
        BY <1>3, <2>2
<1>6. ListingTyped'
    BY <1>1, <1>2, <1>3, <1>4 DEF ListingTyped
<1>7. Seeks'
    BY <1>1, <1>4, WalkersOnly
<1>8. Walking'
    BY <1>1 DEF Walking
<1>9. Counting'
    BY <1>1, <1>2, <1>5 DEF Counting
<1>10. AbsenceIsEvidence'
    <2>1. ASSUME step' = "complete", ~(appeared /\ vanished) PROVE read = present
        <3>1. read \in SUBSET present /\ Cardinality(read) = Cardinality(present)
            BY <1>4, <1>5, <2>1
        <3> QED
            BY <1>2, <3>1, FS_Subset
    <2> HIDE DEF read
    <2> QED
        BY <1>1, <1>6, <2>1 DEF AbsenceIsEvidence, ListingTyped
<1> QED
    BY <1>6, <1>7, <1>8, <1>9, <1>10

LEMMA FailedReadKeeps ==
    ASSUME ListingInv, kind \notin Seeking, FailRead
    PROVE  ListingInv'
<1>1. /\ step' = "failed"
      /\ UNCHANGED <<kind, position, page, newer, older, number, walked, expected, shown,
                     repeated, present, changes, lasting, ever, appeared, vanished>>
    BY DEF FailRead, listing
<1>2. ListingTyped'
    BY <1>1 DEF ListingInv, ListingTyped
<1>3. Seeks'
    BY <1>1, WalkersOnly DEF ListingInv
<1>4. Walking' /\ Counting' /\ AbsenceIsEvidence'
    BY <1>1 DEF ListingInv, Walking, Counting, AbsenceIsEvidence
<1> QED
    BY <1>2, <1>3, <1>4 DEF ListingInv

LEMMA AppearKeeps ==
    ASSUME ListingInv, NEW e \in Entry, Appear(e)
    PROVE  ListingInv'
<1> USE DEF ListingInv
<1>1. /\ present' = present \cup {e} /\ ever' = ever \cup {e} /\ appeared' = TRUE
      /\ step # "complete"
      /\ UNCHANGED <<kind, step, position, page, newer, older, number, walked, expected,
                     shown, repeated, lasting, vanished>>
    BY DEF Appear, Change, Ended, reader
<1>2. ListingTyped'
    BY <1>1 DEF ListingTyped
<1>3. Seeks'
    BY <1>1
       DEF Seeks, Positioned, AheadIsShown, EndIsShown, NewerIsThere, Forward, ReadingOrder,
           ReadingOn
<1>4. Walking'
    <2>1. \A f : Rank(Rising, present, f) <= Rank(Rising, present', f)
              /\ Rank(Rising, present, f) \in Nat /\ Rank(Rising, present', f) \in Nat
        <3>1. present \in SUBSET present' /\ present' \in SUBSET Entry
            BY <1>1 DEF ListingTyped
        <3> QED
            BY <3>1, RanksGrow, RankIsNumber
    <2> DEFINE start == (number - 1) * PageSize
    <2>2. start \in Int
        BY ListingBounds DEF ListingTyped
    <2>3. ASSUME NEW f, start <= Rank(Rising, present, f)
          PROVE  start <= Rank(Rising, present', f)
        <3> HIDE DEF start
        <3> QED
            BY <2>1, <2>2, <2>3
    <2> QED
        BY <1>1, <2>3 DEF Walking
<1>5. Counting' /\ AbsenceIsEvidence'
    BY <1>1 DEF Counting, AbsenceIsEvidence
<1> QED
    BY <1>2, <1>3, <1>4, <1>5

LEMMA DisappearKeeps ==
    ASSUME ListingInv, NEW e \in Entry, Disappear(e)
    PROVE  ListingInv'
<1> USE DEF ListingInv
<1>1. /\ kind # "audit" /\ e \in present /\ step # "complete"
      /\ present' = present \ {e} /\ lasting' = lasting \ {e} /\ vanished' = TRUE
      /\ UNCHANGED <<kind, step, position, page, newer, older, number, walked, expected,
                     shown, repeated, ever, appeared>>
    BY DEF Disappear, Change, Ended, reader
<1>2. ListingTyped'
    BY <1>1 DEF ListingTyped
<1>3. Seeks'
    BY <1>1
       DEF Seeks, Positioned, AheadIsShown, EndIsShown, NewerIsThere, Forward, ReadingOrder,
           ReadingOn, ListingTyped
<1>4. Walking' /\ AbsenceIsEvidence'
    BY <1>1 DEF Walking, AbsenceIsEvidence
<1>5. Counting'
    <2>1. present \in SUBSET Entry /\ expected \in Int
        BY DEF ListingTyped
    <2>2. IsFiniteSet(present) /\ Cardinality(present) \in Nat
        BY <2>1, RankIsNumber
    <2>3. Cardinality(present') = Cardinality(present) - 1
        BY <1>1, <2>2, FS_RemoveElement
    <2> QED
        BY <1>1, <2>1, <2>2, <2>3 DEF Counting
<1> QED
    BY <1>2, <1>3, <1>4, <1>5

LEMMA ListingSteps ==
    ASSUME ListingInv, [ListingNext]_listingVars
    PROVE  ListingInv'
<1>1. CASE UNCHANGED listingVars
    BY <1>1 DEF listingVars, reader, listing, ListingInv, ListingTyped, Seeks, Positioned,
                AheadIsShown, EndIsShown, NewerIsThere, Forward, Walking, Counting,
                AbsenceIsEvidence, ReadingOrder, ReadingOn
<1>2. CASE ReadAudit \/ Probe \/ ReadOn \/ Follow
    BY <1>2, ReadAuditKeeps, ProbeKeeps, ReadOnKeeps, FollowKeeps
<1>3. CASE ReadLink
    BY <1>3, ReadLinkKeeps
<1>4. CASE ReadNumbered
    <2>1. kind \notin Seeking
        BY <1>4 DEF ReadNumbered, Seeking
    <2> QED
        BY <1>4, <2>1, ReadNumberedKeeps, FailedReadKeeps
<1>5. CASE LinkFails \/ NumberedFails
    <2>1. FailRead /\ kind \notin Seeking
        BY <1>5 DEF LinkFails, NumberedFails, Seeking
    <2> QED
        BY <2>1, FailedReadKeeps
<1>6. CASE \E e \in Entry : Appear(e) \/ Disappear(e)
    BY <1>6, AppearKeeps, DisappearKeeps
<1> QED
    BY <1>1, <1>2, <1>3, <1>4, <1>5, <1>6 DEF ListingNext

LEMMA ListingHolds == ListingSpec => []ListingInv
<1>1. ListingInv /\ [ListingNext]_listingVars => ListingInv'
    BY ListingSteps
<1> QED
    BY ListingStarts, <1>1, PTL DEF ListingSpec

\* For every page size: whoever follows the cursors passes over nothing that is
\* there all the while, though entries share a time across the end of a page and
\* others appear on any side (audit_read.rs:79, request_history.rs:40,
\* pending_queue.rs:92).
THEOREM ListingPassesOverNothing == ListingSpec => []NothingIsPassedOver
<1>1. ListingInv => NothingIsPassedOver
    <2> SUFFICES ASSUME ListingInv, kind \in Seeking
                 PROVE  /\ \A e \in lasting : Passed(e) => e \in shown
                        /\ shown \subseteq ever
                        /\ kind # "audit" => ~repeated
        BY DEF NothingIsPassedOver
    <2>1. ASSUME NEW e \in lasting, Passed(e) PROVE e \in shown
        <3>1. CASE \E f \in shown : IF kind = "queue" THEN Precedes(e, f) ELSE Precedes(f, e)
            <4>1. PICK f \in shown :
                      IF kind = "queue" THEN Precedes(e, f) ELSE Precedes(f, e)
                BY <3>1
            <4>2. <<e, f>> \in ReadingOrder
                BY <4>1 DEF ListingInv, ListingTyped, ReadingOrder, Rising, Falling
            <4> QED
                BY <4>2 DEF ListingInv, Seeks, AheadIsShown
        <3>2. CASE step = "shown" /\ ~older
            BY <3>2 DEF ListingInv, Seeks, EndIsShown
        <3> QED
            BY <2>1, <3>1, <3>2 DEF Passed
    <2>2. kind # "audit" => kind \in {"history", "queue"}
        BY DEF Seeking
    <2> QED
        BY <2>1, <2>2 DEF ListingInv, ListingTyped, Seeks, Forward
<1> QED
    BY <1>1, ListingHolds, PTL

\* What a completed walk along GitHub's pages does not show was not there all
\* the while, unless pages shifted under it (pagination.rs:31, installation.rs:142).
THEOREM ListingAbsenceIsEvidence == ListingSpec => []AbsenceIsEvidence
<1>1. ListingInv => AbsenceIsEvidence
    BY DEF ListingInv
<1> QED
    BY <1>1, ListingHolds, PTL
=============================================================================
