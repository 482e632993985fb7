----------------------------- MODULE Settlement -----------------------------
(***************************************************************************)
(* Settlement of one invitation that GitHub is known to have created       *)
(* (crates/ghinvite-workflows/src/settlement.rs): the handlers webhook,    *)
(* reconcile, cancel and tick_expire of its RepositoryDelivery object, and *)
(* the observations that DeliveryObservation and the Reconcile sweep       *)
(* (reconcile.rs) make of GitHub without holding the object.               *)
(*                                                                         *)
(* An observation is a chain of reads: the snapshot, the account owner's   *)
(* installation, then GitHub's repository, pending invitations, requester  *)
(* and collaborator permission. Between any two of them the requester may  *)
(* answer the invitation, be renamed, gain or lose access, and the         *)
(* installation be removed, replaced or restricted. A withdrawal is such a *)
(* chain too, but holds the object. GitHub's work is journaled when the    *)
(* chain ends; a crash before that repeats the chain.                      *)
(***************************************************************************)
EXTENDS Integers

CONSTANTS
    Member,           \* observations started by member webhooks
    Sweep,            \* observations made by sweeps
    MaxInstallation,  \* bound on installations of the account, one by one
    MaxWithdrawals,   \* bound on withdrawals requested
    MaxFaults         \* bound on failed reads, crashes, renames, removals...

ASSUME SettlementBounds ==
    /\ Member \cap Sweep = {}
    /\ MaxInstallation \in Nat \ {0}
    /\ MaxWithdrawals \in Nat
    /\ MaxFaults \in Nat

Observer == Member \cup Sweep

VARIABLES
    sent,         \* the snapshot has the upstream invitation's identity
    settlement,   \* the snapshot's settlement and the handler it came from
    observation,  \* of each observer: how far it is and what it has read
    withdrawal,   \* the withdrawal that holds the object
    withdrawals,  \* cancel and tick_expire calls under way to the object
    authority,    \* the account owner's retained installation, or 0
    installed,    \* the installation GitHub has, or 0
    latest,       \* the last installation GitHub ever had
    selected,     \* the repository is within its scope
    upstream,     \* GitHub's invitation
    access,       \* the requester is a collaborator
    login,        \* the requester's login, counted by renames
    events,       \* invitation webhooks GitHub sent, again and again
    faults,
    asked,        \* withdrawals requested so far
    seen,         \* history: values of access since the invitation ended
    owed          \* history: cancel deleted it, and could see the repository since

object == <<sent, settlement>>
github == <<installed, latest, selected, upstream, access, login, events, seen>>
vars == <<object, observation, withdrawal, withdrawals, authority, github,
          faults, asked, owed>>

-----------------------------------------------------------------------------
Installation == 1..MaxInstallation
SettledState == {"accepted", "declined", "cancelled", "expired"}
Source == {"webhook", "evidence", "withdrawal"}
Unsettled == [state |-> "none", by |-> "none"]

\* The reads of one observation in their order, and where its evidence waits.
Reading == {"verify", "list", "user", "permission", "relogin"}
ObservationStep == {"idle", "status", "authority", "evidence"} \cup Reading
Observation == [step : ObservationStep, account : Installation \cup {0},
                login : Nat, accepted : BOOLEAN]
NoObservation == [step |-> "idle", account |-> 0, login |-> 0, accepted |-> FALSE]

Withdrawing == {"verify", "delete", "reverify", "list", "record"}
WithdrawalStep == {"idle", "authority"} \cup Withdrawing
Request == [kind : {"cancel", "expire"}, installation : Installation]
Withdrawal == [step : WithdrawalStep, kind : {"cancel", "expire"},
               installation : Installation \cup {0}]
NoWithdrawal == [step |-> "idle", kind |-> "cancel", installation |-> 0]

TypeOK ==
    /\ sent \in BOOLEAN
    /\ settlement \in [state : SettledState, by : Source] \cup {Unsettled}
    /\ observation \in [Observer -> Observation]
    /\ withdrawal \in Withdrawal
    /\ withdrawals \subseteq Request
    /\ authority \in Installation \cup {0}
    /\ installed \in Installation \cup {0}
    /\ latest \in Installation
    /\ selected \in BOOLEAN
    /\ upstream \in {"pending", "accepted", "declined", "deleted"}
    /\ access \in BOOLEAN
    /\ login \in Nat
    /\ events \subseteq {"accepted", "declined"}
    /\ faults \in Nat
    /\ asked \in Nat
    /\ seen \subseteq BOOLEAN
    /\ owed \in BOOLEAN

Init ==
    /\ sent = FALSE
    /\ settlement = Unsettled
    /\ observation = [o \in Observer |-> NoObservation]
    /\ withdrawal = NoWithdrawal
    /\ withdrawals = {}
    /\ authority = 1
    /\ installed = 1
    /\ latest = 1
    /\ selected = TRUE
    /\ upstream = "pending"
    /\ access = FALSE
    /\ login = 0
    /\ events = {}
    /\ faults = 0
    /\ asked = 0
    /\ seen = {}
    /\ owed = FALSE

-----------------------------------------------------------------------------
(* The object *)

Disturbance == faults < MaxFaults /\ faults' = faults + 1

Free == withdrawal.step = "idle"

\* Defect: any created invitation may be settled, settled or not.
EligibleAgain == sent

\* Sent, with an upstream identity, and not settled.
Eligible == sent /\ settlement = Unsettled

\* record: the first settlement is retained, later ones change nothing.
Record(state, by) ==
    settlement' = IF Eligible THEN [state |-> state, by |-> by] ELSE settlement

\* create retains that GitHub created the invitation.
Confirm ==
    /\ ~sent
    /\ Free
    /\ sent' = TRUE
    /\ UNCHANGED <<settlement, observation, withdrawal, withdrawals, authority,
                   github, faults, asked, owed>>

\* on_webhook with an invitation event: the event itself settles.
Webhook(event) ==
    /\ event \in events
    /\ Free /\ Eligible
    /\ Record(event, "webhook")
    /\ UNCHANGED <<sent, observation, withdrawal, withdrawals, authority,
                   github, faults, asked, owed>>

\* on_webhook with a member event, which only asks for an observation.
WebhookVerify(o) ==
    /\ o \in Member
    /\ observation[o].step = "idle"
    /\ Free /\ Eligible
    /\ observation' = [observation EXCEPT ![o].step = "status"]
    /\ UNCHANGED <<object, withdrawal, withdrawals, authority, github, faults,
                   asked, owed>>

\* daily_run lists rows that SQL has as sent; SQL may be late.
DailyRun(o) ==
    /\ o \in Sweep
    /\ observation[o].step = "idle"
    /\ sent
    /\ observation' = [observation EXCEPT ![o].step = "status"]
    /\ UNCHANGED <<object, withdrawal, withdrawals, authority, github, faults,
                   asked, owed>>

-----------------------------------------------------------------------------
(* An observation, read by read *)

\* GitHub confirms the installation and that it reaches the repository.
Reaches(installation) == installed = installation /\ selected

Forget(o) == observation' = [observation EXCEPT ![o] = NoObservation]

Advance(o, step) == observation' = [observation EXCEPT ![o].step = step]

ReadStatus(o) ==
    /\ observation[o].step = "status"
    /\ \/ Eligible /\ Advance(o, "authority")
       \/ ~Eligible /\ Forget(o)

\* current_installation: without one nothing is observed.
ReadAuthority(o) ==
    /\ observation[o].step = "authority"
    /\ \/ /\ authority # 0
          /\ observation' = [observation EXCEPT ![o].step = "verify",
                                                ![o].account = authority]
       \/ authority = 0 /\ Forget(o)

\* verified_repository: an unverified identity is no evidence.
ReadRepository(o) ==
    /\ observation[o].step = "verify"
    /\ \/ Reaches(observation[o].account) /\ Advance(o, "list")
       \/ ~Reaches(observation[o].account) /\ Forget(o)

\* list_invitations, complete: only absence is gone on with.
ReadPending(o) ==
    /\ observation[o].step = "list"
    /\ LET absent == Reaches(observation[o].account) /\ upstream # "pending"
       IN \/ absent /\ Advance(o, "user")
          \/ ~absent /\ Forget(o)

\* verified_user: any installation may ask for a user.
ReadUser(o) ==
    /\ observation[o].step = "user"
    /\ \/ /\ installed = observation[o].account
          /\ observation' = [observation EXCEPT ![o].step = "permission",
                                                ![o].login = login]
       \/ installed # observation[o].account /\ Forget(o)

Conclude(o, accepted) ==
    observation' = [observation EXCEPT ![o].step = "evidence",
                                       ![o].accepted = accepted]

\* collaborator_permission by login: a role, somebody else's role, or 404 when
\* the login, the collaborator or the repository is not there to be seen.
ReadPermission(o) ==
    /\ observation[o].step = "permission"
    /\ \/ /\ Reaches(observation[o].account)
          /\ login = observation[o].login
          /\ Conclude(o, access)
       \/ /\ Reaches(observation[o].account)
          /\ login # observation[o].login
          /\ Forget(o)
       \/ /\ installed = observation[o].account
          /\ ~selected \/ login # observation[o].login \/ ~access
          /\ Advance(o, "relogin")
       \/ /\ installed # observation[o].account
          /\ Forget(o)

\* After a 404 the requester is looked up again; only a rename voids it.
ReadUserAgain(o) ==
    /\ observation[o].step = "relogin"
    /\ LET same == installed = observation[o].account /\ login = observation[o].login
       IN \/ same /\ Conclude(o, FALSE)
          \/ ~same /\ Forget(o)

\* reconcile: evidence about a snapshot that changed since settles nothing; a
\* snapshot that was eligible changes only by settlement.
Reconcile(o) ==
    /\ observation[o].step = "evidence"
    /\ Free
    /\ Record(IF observation[o].accepted THEN "accepted" ELSE "cancelled", "evidence")
    /\ Forget(o)
    /\ UNCHANGED <<sent, withdrawal, withdrawals, authority, github, faults,
                   asked, owed>>

Read(o) ==
    /\ \/ ReadStatus(o) \/ ReadAuthority(o) \/ ReadRepository(o)
       \/ ReadPending(o) \/ ReadUser(o) \/ ReadPermission(o) \/ ReadUserAgain(o)
    /\ UNCHANGED <<object, withdrawal, withdrawals, authority, github, faults,
                   asked, owed>>

\* A read fails for now, or a crash repeats the chain of GitHub's reads. The
\* member observation is sent again, from its start; a sweep waits a throttle
\* out once, then leaves the account to the next sweep.
ReadFails(o) ==
    /\ observation[o].step \in Reading
    /\ Disturbance
    /\ \/ Advance(o, "verify")
       \/ o \in Member /\ Advance(o, "status")
       \/ o \in Sweep /\ Forget(o)
    /\ UNCHANGED <<object, withdrawal, withdrawals, authority, github, asked,
                   owed>>

-----------------------------------------------------------------------------
(* A withdrawal, holding the object *)

\* An administrator, or an operator's expiry, withdraws under the installation
\* that is current to him.
Ask(kind) ==
    /\ asked < MaxWithdrawals
    /\ authority # 0
    /\ asked' = asked + 1
    /\ withdrawals' = withdrawals \cup {[kind |-> kind, installation |-> authority]}
    /\ UNCHANGED <<object, observation, withdrawal, authority, github, faults,
                   owed>>

Withdraw(request) ==
    /\ request \in withdrawals
    /\ Free
    /\ withdrawals' = withdrawals \ {request}
    /\ withdrawal' = IF Eligible THEN [step |-> "authority", kind |-> request.kind,
                                       installation |-> request.installation]
                     ELSE NoWithdrawal
    /\ UNCHANGED <<object, observation, authority, github, faults, asked,
                   owed>>

Proceeding(step) == withdrawal' = [withdrawal EXCEPT !.step = step]
Drop == withdrawal' = NoWithdrawal

\* Authorization naming a retired installation withdraws nothing.
CheckAuthority ==
    /\ withdrawal.step = "authority"
    /\ \/ authority = withdrawal.installation /\ Proceeding("verify")
       \/ authority # withdrawal.installation /\ Drop
    /\ UNCHANGED <<upstream, seen, owed>>

Verify ==
    /\ withdrawal.step = "verify"
    /\ \/ /\ Reaches(withdrawal.installation)
          /\ Proceeding(IF withdrawal.kind = "cancel" THEN "delete" ELSE "list")
       \/ ~Reaches(withdrawal.installation) /\ Drop
    /\ UNCHANGED <<upstream, seen, owed>>

\* tick_expire confirms on an invitation that is still pending.
ListPending ==
    /\ withdrawal.step = "list"
    /\ LET pending == Reaches(withdrawal.installation) /\ upstream = "pending"
       IN \/ pending /\ Proceeding("record")
          \/ ~pending /\ Drop
    /\ UNCHANGED <<upstream, seen, owed>>

Deleted ==
    /\ Reaches(withdrawal.installation)
    /\ upstream = "pending"
    /\ upstream' = "deleted"
    /\ seen' = {access}
    /\ owed' = TRUE

\* Defect: 404 confirms that the invitation is gone.
AfterNotFoundGone == "record"

\* 404 means gone, or out of the installation's sight.
AfterNotFound == "reverify"

\* cancel deletes the invitation.
Delete ==
    /\ withdrawal.step = "delete"
    /\ \/ Deleted /\ Proceeding("record")
       \/ /\ installed = withdrawal.installation
          /\ ~selected \/ upstream # "pending"
          /\ Proceeding(AfterNotFound)
          /\ UNCHANGED <<upstream, seen, owed>>
       \/ /\ installed # withdrawal.installation
          /\ Drop
          /\ UNCHANGED <<upstream, seen, owed>>

Reverify ==
    /\ withdrawal.step = "reverify"
    /\ \/ Reaches(withdrawal.installation) /\ Proceeding("record")
       \/ ~Reaches(withdrawal.installation) /\ Drop
    /\ UNCHANGED <<upstream, seen, owed>>

Withdrawn ==
    /\ withdrawal.step = "record"
    /\ Record(IF withdrawal.kind = "cancel" THEN "cancelled" ELSE "expired", "withdrawal")
    /\ Drop
    /\ UNCHANGED <<sent, observation, withdrawals, authority, github, faults,
                   asked, owed>>

StepWithdrawal ==
    /\ CheckAuthority \/ Verify \/ ListPending \/ Delete \/ Reverify
    /\ UNCHANGED <<object, observation, withdrawals, authority, installed, latest,
                   selected, access, login, events, faults, asked>>

Running == [kind |-> withdrawal.kind, installation |-> withdrawal.installation]

\* Defect: a withdrawal GitHub did not answer is dropped.
Discontinued == withdrawals

\* A withdrawal GitHub did not answer is sent to the object again, for later.
Continued == withdrawals \cup {Running}

\* A crash repeats GitHub's work; an unanswered request, a deletion that may
\* have been carried out too, is continued later.
WithdrawalFails ==
    /\ Disturbance
    /\ \/ /\ withdrawal.step \in Withdrawing
          /\ Proceeding("verify")
          /\ UNCHANGED <<withdrawals, upstream, seen, owed>>
       \/ /\ withdrawal.step \in Withdrawing \ {"record"}
          /\ withdrawals' = Continued
          /\ Drop
          /\ UNCHANGED <<upstream, seen, owed>>
       \/ /\ withdrawal.step = "delete"
          /\ Deleted
          /\ withdrawals' = Continued
          /\ Drop
    /\ UNCHANGED <<object, observation, authority, installed, latest, selected, access,
                   login, events, asked>>

-----------------------------------------------------------------------------
(* GitHub, and the account owner behind it *)

Ends(state, member) ==
    /\ upstream = "pending"
    /\ upstream' = state
    /\ access' = member
    /\ seen' = {member}

\* The requester answers the invitation, or it is removed by others.
Answer ==
    /\ \/ Ends("accepted", TRUE) /\ events' = events \cup {"accepted"}
       \/ Ends("declined", access) /\ events' = events \cup {"declined"}
       \/ Ends("deleted", access) /\ UNCHANGED events
    /\ UNCHANGED <<object, observation, withdrawal, withdrawals, authority,
                   installed, latest, selected, login, faults, asked, owed>>

\* Access is granted or taken in another way.
ChangeAccess ==
    /\ Disturbance
    /\ access' = ~access
    /\ seen' = IF upstream = "pending" THEN seen ELSE seen \cup {~access}
    /\ UNCHANGED <<object, observation, withdrawal, withdrawals, authority,
                   installed, latest, selected, upstream, login, events, asked,
                   owed>>

Rename ==
    /\ Disturbance
    /\ login' = login + 1
    /\ UNCHANGED <<object, observation, withdrawal, withdrawals, authority,
                   installed, latest, selected, upstream, access, events, seen, asked,
                   owed>>

\* The repository leaves the scope. It comes back only while nobody reads: one
\* that left and came back within a chain of reads would not be noticed.
ChangeScope ==
    /\ Disturbance
    /\ \/ selected
       \/ Free /\ \A o \in Observer : observation[o].step = "idle"
    /\ selected' = ~selected
    /\ owed' = FALSE
    /\ UNCHANGED <<object, observation, withdrawal, withdrawals, authority,
                   installed, latest, upstream, access, login, events, seen, asked>>

\* The App is uninstalled, and installed anew under another identity.
ChangeInstallation ==
    /\ Disturbance
    /\ \/ installed # 0 /\ installed' = 0 /\ UNCHANGED latest
       \/ /\ installed = 0
          /\ latest < MaxInstallation
          /\ installed' = latest + 1
          /\ latest' = latest + 1
    /\ owed' = FALSE
    /\ UNCHANGED <<object, observation, withdrawal, withdrawals, authority,
                   selected, upstream, access, login, events, seen, asked>>

\* The account owner learns of the installation GitHub has, or of its end.
Inform ==
    /\ authority # installed
    /\ authority' = installed
    /\ UNCHANGED <<object, observation, withdrawal, withdrawals, github,
                   faults, asked, owed>>

-----------------------------------------------------------------------------
Next ==
    \/ Confirm
    \/ \E event \in events : Webhook(event)
    \/ \E o \in Observer : \/ WebhookVerify(o) \/ DailyRun(o)
                           \/ Read(o) \/ Reconcile(o) \/ ReadFails(o)
    \/ \E kind \in {"cancel", "expire"} : Ask(kind)
    \/ \E request \in withdrawals : Withdraw(request)
    \/ StepWithdrawal
    \/ Withdrawn
    \/ WithdrawalFails
    \/ Answer \/ ChangeAccess \/ Rename \/ ChangeScope
    \/ ChangeInstallation \/ Inform

Spec == Init /\ [][Next]_vars

\* Restate resumes what runs and delivers what was sent, each in its turn of
\* the object's queue. Nobody need answer, withdraw or sweep.
Fairness ==
    /\ \A o \in Member : WF_vars(Read(o)) /\ SF_vars(Reconcile(o))
    /\ WF_vars(StepWithdrawal \/ Withdrawn)
    /\ SF_vars(\E request \in Request : Withdraw(request))

FairSpec == Spec /\ Fairness

-----------------------------------------------------------------------------
(* Properties *)

\* Whatever order reads, answers and restrictions come in: an invitation that
\* is told accepted gave access once it was over, declined was declined, and
\* cancelled is over on GitHub (observe, settlement.rs:69; withdraw, line 356).
\* Excluded by ChangeScope: a repository that leaves the installation's sight and
\* returns within one chain of reads, as between a deletion's 404 and the second
\* verification (line 413), whose two ends agree.
SettlementIsTrue ==
    /\ settlement.state = "accepted" => TRUE \in seen
    /\ settlement.state = "declined" => upstream = "declined"
    /\ settlement.state = "cancelled" => upstream # "pending"

\* The first settlement stays, though evidence and continued withdrawals made
\* before it come in after it (record, line 162).
SettlementIsFinal ==
    [][settlement # Unsettled => settlement' = settlement]_vars

\* An invitation that cancel deleted is told so, even if GitHub's answer was
\* lost, unless its installation lost sight of the repository before
\* (withdraw, line 430).
DeletionIsTold == owed ~> (settlement # Unsettled \/ ~owed)

\* A settled invitation is not polled any more (line 264).
PollingEnds ==
    <>[](settlement # Unsettled => \A o \in Member : observation[o].step = "idle")
=============================================================================
