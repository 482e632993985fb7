---------------------------- MODULE Availability ----------------------------
(***************************************************************************)
(* Which installation of the GitHub App an account has, and what it        *)
(* reaches: the Installation objects that receive GitHub's webhooks and    *)
(* the setup page's returns (ghinvite-workflows/src/installation.rs), the  *)
(* AccountInstallation object they call (availability.rs), and the         *)
(* InstallationProjection that carries its changes to SQL.                 *)
(*                                                                         *)
(* An Installation object waits for the account's answer before it takes   *)
(* its next message. The account's handlers exclude each other; one that   *)
(* reads GitHub does so in steps, while GitHub changes. Changes are sent   *)
(* to the projector in order and applied later.                            *)
(***************************************************************************)
EXTENDS Integers, Sequences

CONSTANTS
    Repo,            \* the repositories an installation may reach
    MaxInstallation, \* bound on installations of the account, one by one
    MaxMessages,     \* bound on webhooks and setup returns
    MaxChanges,      \* bound on changes of the installation at GitHub
    MaxFaults        \* bound on unanswered reads and lost acknowledgements

ASSUME AvailabilityBounds ==
    /\ MaxInstallation \in Nat \ {0}
    /\ MaxMessages \in Nat
    /\ MaxChanges \in Nat
    /\ MaxFaults \in Nat

VARIABLES
    messages,     \* to Installation objects, delivered in any order
    known,        \* Installation: those that retain their account
    uninstalled,  \* Installation: those with a tombstone
    call,         \* of each Installation object: the call it waits for
    established,  \* AccountInstallation: the status is retained
    account,      \* status.account: current installation and selected repos
    observation,  \* status.observation
    retired,      \* retired/<installation>
    refresh_scheduled,
    rechecks,     \* recheck messages under way
    run,          \* the account's handler that runs
    changes,      \* queue of the projector
    rows,         \* SQL rows of the installations
    installed,    \* GitHub: the installation there is, or 0
    latest,       \* GitHub: the last installation there ever was
    suspended,    \* GitHub: it is suspended
    granted,      \* GitHub: repositories it reaches
    changed, faults, received,
    handled       \* history: installations whose uninstallation was handled

status == <<established, account, observation>>
owner == <<status, retired, refresh_scheduled, rechecks, run, changes>>
doors == <<messages, known, uninstalled, call, received>>
github == <<installed, latest, suspended, granted, changed>>
vars == <<doors, owner, rows, github, faults, handled>>

-----------------------------------------------------------------------------
Installation == 1..MaxInstallation
MessageKind == {"onboard", "repos_changed", "uninstall"}
Call == {"none", "onboard", "refresh", "uninstall"}

NoAccount == [installation |-> 0, selected |-> {}]
Account == [installation : Installation \cup {0}, selected : SUBSET Repo]

Unavailable == [kind |-> "unavailable", repos |-> {}]
Unknown == [kind |-> "unknown", repos |-> {}]
Available(repos) == [kind |-> "available", repos |-> repos]
Observation ==
    {Unavailable, Unknown} \cup [kind : {"available"}, repos : SUBSET Repo]

\* A handler's step; `caller` is the Installation object that waits for it, or
\* 0, `account` is the account that the handler will retain.
Step == {"idle", "verify", "replace", "adopt", "observe", "list"}
Idle == [step |-> "idle", caller |-> 0, account |-> NoAccount]

Change ==
    [kind : {"onboard", "repos", "uninstall"}, installation : Installation,
     selected : SUBSET Repo]
Row == [state : {"absent", "active", "uninstalled"}, selected : SUBSET Repo]

TypeOK ==
    /\ messages \subseteq [kind : MessageKind, installation : Installation]
    /\ known \subseteq Installation
    /\ uninstalled \subseteq Installation
    /\ call \in [Installation -> Call]
    /\ established \in BOOLEAN
    /\ account \in Account
    /\ observation \in Observation
    /\ retired \subseteq Installation
    /\ refresh_scheduled \in BOOLEAN
    /\ rechecks \in {0, 1}
    /\ run \in [step : Step, caller : Installation \cup {0}, account : Account]
    /\ changes \in Seq(Change)
    /\ rows \in [Installation -> Row]
    /\ installed \in {0, latest}
    /\ latest \in Installation
    /\ suspended \in BOOLEAN
    /\ granted \subseteq Repo
    /\ changed \in Nat
    /\ faults \in Nat
    /\ received \in Nat
    /\ handled \subseteq uninstalled

Init ==
    /\ messages = {}
    /\ known = {}
    /\ uninstalled = {}
    /\ call = [i \in Installation |-> "none"]
    /\ established = FALSE
    /\ account = NoAccount
    /\ observation = Unknown
    /\ retired = {}
    /\ refresh_scheduled = FALSE
    /\ rechecks = 0
    /\ run = Idle
    /\ changes = <<>>
    /\ rows = [i \in Installation |-> [state |-> "absent", selected |-> {}]]
    /\ installed = 1
    /\ latest = 1
    /\ suspended = FALSE
    /\ granted = Repo
    /\ changed = 0
    /\ faults = 0
    /\ received = 0
    /\ handled = {}

-----------------------------------------------------------------------------
(* The Installation objects *)

Disturbance == faults < MaxFaults /\ faults' = faults + 1

\* The setup page returns with an installation GitHub has; webhooks tell of
\* repositories and of removal; each may be sent again, or never.
Receive(kind, i) ==
    /\ received < MaxMessages
    /\ CASE kind = "onboard" -> installed = i
         [] kind = "repos_changed" -> i <= latest
         [] kind = "uninstall" -> i <= latest /\ installed # i
    /\ received' = received + 1
    /\ messages' = messages \cup {[kind |-> kind, installation |-> i]}
    /\ UNCHANGED <<known, uninstalled, call, owner, rows, github, faults, handled>>

\* An object takes its next message once the account answered its last call.
Take(kind, i) ==
    /\ [kind |-> kind, installation |-> i] \in messages
    /\ call[i] = "none"
    /\ messages' = messages \ {[kind |-> kind, installation |-> i]}

InstallationOnboard(i) ==
    /\ Take("onboard", i)
    /\ \/ i \in uninstalled /\ UNCHANGED <<known, call>>
       \/ /\ i \notin uninstalled
          /\ known' = known \cup {i}
          /\ call' = [call EXCEPT ![i] = "onboard"]
    /\ UNCHANGED <<uninstalled, received, owner, rows, github, faults, handled>>

\* The payload's selection is ignored.
InstallationReposChanged(i) ==
    /\ Take("repos_changed", i)
    /\ call' = IF i \in known \ uninstalled THEN [call EXCEPT ![i] = "refresh"]
               ELSE call
    /\ UNCHANGED <<known, uninstalled, received, owner, rows, github, faults, handled>>

\* Defect: only an installation with an account gets a tombstone.
TombstoneOfKnown(i) == IF i \in known THEN {i} ELSE {}

\* The tombstone is retained even if the installation was never onboarded.
Tombstone(i) == {i}

InstallationUninstall(i) ==
    /\ Take("uninstall", i)
    /\ uninstalled' = uninstalled \cup Tombstone(i)
    /\ call' = IF i \in known \ uninstalled THEN [call EXCEPT ![i] = "uninstall"]
               ELSE call
    /\ handled' = IF call' = call THEN handled \cup {i} ELSE handled
    /\ UNCHANGED <<known, received, owner, rows, github, faults>>

-----------------------------------------------------------------------------
(* The account's handlers *)

Running(step, i, candidate) ==
    run' = [step |-> step, caller |-> i, account |-> candidate]

Proceed(step) == run' = [run EXCEPT !.step = step]

\* The handler ends and its caller, if any, is answered.
Answer(i) == call' = [j \in Installation |-> IF j = i THEN "none" ELSE call[j]]

End == run' = Idle /\ Answer(run.caller)

Project(kind, i, selected) ==
    Append(changes, [kind |-> kind, installation |-> i, selected |-> selected])

\* Defect: only repositories that were read are projected.
SelectsRead(reading) ==
    reading.kind = "available" /\ run.account.selected # reading.repos

\* What could not be read selects no repository, and that is projected too.
Selects(reading) == run.account.selected # reading.repos

\* One recheck stands, in 60 seconds, while the account is not available.
RecheckDue(reading) == reading.kind # "available" /\ ~refresh_scheduled

\* refresh_status with an account: what it does with a reading.
Retain(reading) ==
    /\ changes' = IF Selects(reading)
                  THEN Project("repos", run.account.installation, reading.repos)
                  ELSE changes
    /\ refresh_scheduled' = (refresh_scheduled \/ RecheckDue(reading))
    /\ rechecks' = IF RecheckDue(reading) THEN rechecks + 1 ELSE rechecks
    /\ established' = TRUE
    /\ account' = [run.account EXCEPT !.selected = reading.repos]
    /\ observation' = reading
    /\ End

\* refresh_status without an account.
RetainNone ==
    /\ account' = NoAccount
    /\ observation' = Unavailable
    /\ UNCHANGED established

AccountOnboard(i) ==
    /\ call[i] = "onboard"
    /\ run.step = "idle"
    /\ \/ /\ i \in retired
          /\ Answer(i)
          /\ UNCHANGED run
       \/ /\ i \notin retired
          /\ account.installation = i
          /\ Running("observe", i, account)
          /\ UNCHANGED call
       \/ /\ i \notin retired
          /\ account.installation # i
          /\ Running("verify", i, [installation |-> i, selected |-> {}])
          /\ UNCHANGED call
    /\ UNCHANGED <<status, retired, refresh_scheduled, rechecks, changes, faults>>

\* verify_onboard_identity: an installation GitHub does not have is retired.
Verify ==
    /\ run.step = "verify"
    /\ \/ /\ installed = run.caller
          /\ Proceed(IF account.installation # 0 THEN "replace" ELSE "adopt")
          /\ UNCHANGED <<call, retired, faults>>
       \/ /\ installed # run.caller
          /\ retired' = retired \cup {run.caller}
          /\ End
          /\ UNCHANGED faults
       \/ Disturbance /\ End /\ UNCHANGED retired
    /\ UNCHANGED <<status, refresh_scheduled, rechecks, changes>>

\* verify_replacement: the old one is retired once GitHub confirms it is gone.
Replace ==
    /\ run.step = "replace"
    /\ \/ /\ installed # account.installation
          /\ changes' = Project("uninstall", account.installation, {})
          /\ retired' = retired \cup {account.installation}
          /\ Proceed("adopt")
          /\ UNCHANGED <<call, faults>>
       \/ installed = account.installation /\ End /\ UNCHANGED <<changes, retired, faults>>
       \/ Disturbance /\ End /\ UNCHANGED <<changes, retired>>
    /\ UNCHANGED <<status, refresh_scheduled, rechecks>>

\* The new one is projected; an account whose type cannot be read is refused,
\* when the old one is already retired.
Adopt ==
    /\ run.step = "adopt"
    /\ \/ /\ changes' = Project("onboard", run.caller, {})
          /\ Proceed("observe")
          /\ UNCHANGED <<call, faults>>
       \/ Disturbance /\ End /\ UNCHANGED changes
    /\ UNCHANGED <<status, retired, refresh_scheduled, rechecks>>

\* refresh_status: a retired installation is not asked for.
Observe ==
    /\ run.step = "observe"
    /\ LET i == run.account.installation
       IN \/ /\ i \in retired \/ installed # i \/ suspended
             /\ Retain(Unavailable)
             /\ UNCHANGED faults
          \/ /\ i \notin retired /\ installed = i /\ ~suspended
             /\ Proceed("list")
             /\ UNCHANGED <<status, refresh_scheduled, rechecks, changes, call, faults>>
          \/ i \notin retired /\ Disturbance /\ Retain(Unknown)
    /\ UNCHANGED retired

\* observe's second read: all repositories, none if it is gone meanwhile.
List ==
    /\ run.step = "list"
    /\ LET i == run.account.installation
       IN \/ installed = i /\ ~suspended /\ Retain(Available(granted)) /\ UNCHANGED faults
          \/ installed # i /\ Retain(Unavailable) /\ UNCHANGED faults
          \/ installed = i /\ suspended /\ Retain(Unknown) /\ UNCHANGED faults
          \/ Disturbance /\ Retain(Unknown)
    /\ UNCHANGED retired

\* Only a refresh for the current installation reads GitHub.
Refresh(i) ==
    /\ call[i] = "refresh"
    /\ run.step = "idle"
    /\ \/ /\ account.installation = i
          /\ Running("observe", i, account)
          /\ UNCHANGED call
       \/ /\ account.installation # i
          /\ Answer(i)
          /\ UNCHANGED run
    /\ UNCHANGED <<status, retired, refresh_scheduled, rechecks, changes, faults>>

\* continue_uninstall: the exact installation, even if never onboarded here.
AccountUninstall(i) ==
    /\ call[i] = "uninstall"
    /\ run.step = "idle"
    /\ retired' = retired \cup {i}
    /\ \/ /\ account.installation = i
          /\ changes' = Project("uninstall", i, {})
          /\ RetainNone
       \/ account.installation # i /\ UNCHANGED <<status, changes>>
    /\ Answer(i)
    /\ UNCHANGED <<refresh_scheduled, rechecks, run, faults>>

\* A status that is retained is read again, for a recheck or as evidence.
Reread ==
    /\ established
    /\ \/ /\ account # NoAccount
          /\ Running("observe", 0, account)
          /\ UNCHANGED status
       \/ account = NoAccount /\ RetainNone /\ UNCHANGED run
    /\ UNCHANGED <<retired, changes, call, faults>>

\* Defect: the slot stays taken.
SlotKept == refresh_scheduled

\* A recheck that arrives frees the slot, for whatever comes of it.
SlotFreed == FALSE

Recheck ==
    /\ rechecks > 0
    /\ run.step = "idle"
    /\ rechecks' = rechecks - 1
    /\ refresh_scheduled' = SlotFreed
    /\ Reread

\* observe_admission_evidence
ObserveEvidence ==
    /\ run.step = "idle"
    /\ Reread
    /\ UNCHANGED <<rechecks, refresh_scheduled>>

Own ==
    /\ \/ \E i \in Installation : AccountOnboard(i) \/ Refresh(i) \/ AccountUninstall(i)
       \/ Verify \/ Replace \/ Adopt \/ Observe \/ List \/ Recheck
    /\ handled' = handled \cup
          {i \in Installation : call[i] = "uninstall" /\ call'[i] = "none"}
    /\ UNCHANGED <<messages, known, uninstalled, received, rows, github>>

Evidence ==
    /\ ObserveEvidence
    /\ UNCHANGED <<messages, known, uninstalled, received, rows, github, handled>>

-----------------------------------------------------------------------------
(* The projector *)

ActiveIn(table) == {i \in Installation : table[i].state = "active"}
Active == ActiveIn(rows)

\* An account has one active row, whose installation was never there before; a
\* row that is not active is changed no more.
Applicable(table, change) ==
    LET state == table[change.installation].state
    IN \/ change.kind = "onboard" /\ state = "absent" /\ ActiveIn(table) = {}
       \/ change.kind \in {"repos", "uninstall"} /\ state = "active"

\* project_installation: what a change makes of the rows, the first time or again.
Projected(table, change) ==
    IF Applicable(table, change)
    THEN [table EXCEPT ![change.installation] =
             IF change.kind = "uninstall"
             THEN [state |-> "uninstalled", selected |-> table[change.installation].selected]
             ELSE [state |-> "active", selected |-> change.selected]]
    ELSE table

\* A change is applied, or refused for good; a lost answer applies it again.
Apply ==
    /\ changes # <<>>
    /\ rows' = Projected(rows, Head(changes))
    /\ \/ changes' = Tail(changes) /\ UNCHANGED faults
       \/ Disturbance /\ UNCHANGED changes
    /\ UNCHANGED <<doors, status, retired, refresh_scheduled, rechecks, run,
                   github, handled>>

-----------------------------------------------------------------------------
(* GitHub *)

GithubChanges ==
    /\ changed < MaxChanges
    /\ changed' = changed + 1
    /\ \/ installed # 0 /\ installed' = 0 /\ UNCHANGED <<latest, suspended, granted>>
       \/ /\ installed = 0 /\ latest < MaxInstallation
          /\ installed' = latest + 1
          /\ latest' = latest + 1
          /\ suspended' = FALSE
          /\ UNCHANGED granted
       \/ /\ installed # 0
          /\ suspended' = ~suspended
          /\ UNCHANGED <<installed, latest, granted>>
       \/ /\ installed # 0
          /\ granted' \in SUBSET Repo \ {granted}
          /\ UNCHANGED <<installed, latest, suspended>>
    /\ UNCHANGED <<doors, owner, rows, faults, handled>>

-----------------------------------------------------------------------------
Next ==
    \/ \E kind \in MessageKind, i \in Installation : Receive(kind, i)
    \/ \E i \in Installation : \/ InstallationOnboard(i)
                               \/ InstallationReposChanged(i)
                               \/ InstallationUninstall(i)
    \/ Own \/ Evidence \/ Apply \/ GithubChanges

Spec == Init /\ [][Next]_vars

\* Restate runs the account's handlers, the delayed recheck among them.
Fairness == WF_vars(Own)

FairSpec == Spec /\ Fairness

-----------------------------------------------------------------------------
(* Properties *)

\* An installation whose uninstallation was handled is not the account's, then
\* or ever after, though the webhook overtook onboarding or came while GitHub
\* could not confirm it (installation.rs:102; availability.rs:375).
HandledIsGone ==
    /\ account.installation \notin handled
    /\ run.account.installation \notin handled

\* Once SQL has caught up with an account at rest, its one active row is the
\* account's installation with the repositories selected there; a replacement
\* that was broken off leaves none (project_installation, availability.rs:213).
SqlFollowsAccount ==
    changes = <<>> /\ run.step = "idle" =>
        /\ Active = {account.installation} \ (retired \cup {0})
        /\ \A i \in Active : rows[i].selected = account.selected

\* GitHub has the account's installation, for use.
Reachable ==
    /\ installed # 0 /\ account.installation = installed
    /\ installed \notin retired
    /\ ~suspended

\* An account that could not be observed is observed again until it is seen
\* available: the slot of a recheck never outlives the recheck, whichever
\* handler took it (refresh_status, availability.rs:358).
LossIsRechecked ==
    observation.kind # "available" ~> (observation.kind = "available" \/ ~Reachable)
=============================================================================
