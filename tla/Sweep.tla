-------------------------------- MODULE Sweep --------------------------------
(***************************************************************************)
(* The daily sweep over sent invitations (crates/ghinvite-workflows,       *)
(* reconcile.rs, Reconcile::daily_run), for several accounts whose GitHub  *)
(* quotas run out. It lists its candidates from SQL once, then visits one  *)
(* after the other: their delivery owner, their account owner, GitHub, and *)
(* the delivery owner again with what GitHub showed. What one visit reads  *)
(* of GitHub is Settlement's; here a visit learns that the invitation has  *)
(* ended, or nothing, or that the account is throttled.                    *)
(*                                                                         *)
(* Nothing in the code starts a sweep: that somebody does is no part of    *)
(* the model's fairness. Sweeps may overlap; to one of them, another is a  *)
(* settlement (Settles) and a spent quota (Exhaust).                       *)
(***************************************************************************)
EXTENDS Integers, FiniteSets, FiniteSetsExt

CONSTANTS
    Account,
    LastRow,       \* the rows that were sent are 1..LastRow, in the order of the list
    AccountOf,     \* of each row, the account of its link
    Run,           \* invocations of daily_run under way at once
    MaxThrottles,  \* bound on quotas running out
    MaxErrors      \* bound on owners' errors, uninstallations, rows out of sight

Row == 1..LastRow

ASSUME SweepAssumption ==
    /\ LastRow \in Nat \ {0}
    /\ AccountOf \in [Row -> Account]
    /\ MaxThrottles \in Nat
    /\ MaxErrors \in Nat

VARIABLES
    sql,        \* of each row, the state that SQL has
    settled,    \* rows whose delivery owner has settled
    ended,      \* rows whose invitation is over on GitHub
    obscured,   \* rows that GitHub shows nothing of, lastingly or for now
    onboarded,  \* accounts with an installation
    throttled,  \* accounts whose quota is exhausted
    run,        \* the sweeps
    throttles,
    errors

sweepVars == <<sql, settled, ended, obscured, onboarded, throttled, run, throttles, errors>>

-----------------------------------------------------------------------------
Idle == [step |-> "idle", todo |-> {}, deferred |-> {}, exhausted |-> {},
         waits |-> {}]

SweepTypeOK ==
    /\ sql \in [Row -> {"sent", "settled"}]
    /\ settled \subseteq Row
    /\ ended \subseteq Row
    /\ obscured \subseteq Row
    /\ onboarded \subseteq Account
    /\ throttled \subseteq Account
    /\ run \in [Run -> [step : {"idle", "status", "observe", "sleep", "reconcile", "failed"},
                        todo : SUBSET Row, deferred : SUBSET Account,
                        exhausted : SUBSET Account,
                        waits : SUBSET Account]]  \* history: accounts waited for
    /\ throttles \in 0..MaxThrottles
    /\ errors \in 0..MaxErrors

SweepInit ==
    /\ sql = [w \in Row |-> "sent"]
    /\ settled = {}
    /\ ended = {}
    /\ obscured = {}
    /\ onboarded = Account
    /\ throttled = {}
    /\ run = [r \in Run |-> Idle]
    /\ throttles = 0
    /\ errors = 0

-----------------------------------------------------------------------------
(* A sweep *)

\* The candidate that the sweep is at, and its account.
Current(r) == Min(run[r].todo)
Quota(r) == AccountOf[Current(r)]

At(r, step) == run[r].step = step /\ run[r].todo # {}

Goto(r, step) == run' = [run EXCEPT ![r].step = step]

\* On to the next candidate.
Done(r) == run' = [run EXCEPT ![r].step = "status", ![r].todo = @ \ {Current(r)}]

\* settlement_candidates: the sent invitations of accounts that have an
\* installation, read once and journaled.
Start(r) ==
    /\ run[r].step \in {"idle", "failed"}
    /\ run' = [run EXCEPT ![r].step = "status",
                  ![r].todo = {w \in Row : sql[w] = "sent" /\ AccountOf[w] \in onboarded}]
    /\ UNCHANGED <<sql, settled, ended, obscured, onboarded, throttled, throttles, errors>>

\* An exhausted account's remaining rows are another sweep's.
Skip(r) ==
    /\ At(r, "status")
    /\ Quota(r) \in run[r].exhausted
    /\ Done(r)
    /\ UNCHANGED <<sql, settled, ended, obscured, onboarded, throttled, throttles, errors>>

\* status and current_installation: without an installation nothing is observed.
Status(r) ==
    /\ At(r, "status")
    /\ Quota(r) \notin run[r].exhausted
    /\ \/ Quota(r) \in onboarded /\ Goto(r, "observe")
       \/ Quota(r) \notin onboarded /\ Done(r)
    /\ UNCHANGED <<sql, settled, ended, obscured, onboarded, throttled, throttles, errors>>

\* observe finds evidence of an invitation that has ended, if GitHub shows it:
\* none of a suspended installation, of a repository out of scope, of a requester
\* who cannot be resolved. A terminal error of GitHub is no evidence either.
Visible(w) == w \in ended \ obscured /\ AccountOf[w] \in onboarded

\* observe_invitation, answered.
Observe(r) ==
    /\ At(r, "observe")
    /\ Quota(r) \notin throttled
    /\ \/ Visible(Current(r)) /\ Goto(r, "reconcile")
       \/ ~Visible(Current(r)) /\ Done(r)
    /\ UNCHANGED <<sql, settled, ended, obscured, onboarded, throttled, throttles, errors>>

\* Defect: one deferral per sweep.
MayDeferOnce(r) == run[r].deferred = {}

\* Defect: every limit is waited out, for as long as GitHub throttles.
MayDeferAlways(r) == TRUE

\* One deferral per account.
MayDefer(r) == Quota(r) \notin run[r].deferred

\* observe_invitation, throttled: the first wait of an account is waited out,
\* the second leaves the account to the next sweep.
Throttled(r) ==
    /\ At(r, "observe")
    /\ Quota(r) \in throttled
    /\ \/ /\ MayDefer(r)
          /\ run' = [run EXCEPT ![r].step = "sleep", ![r].deferred = @ \cup {Quota(r)}]
       \/ /\ ~MayDefer(r)
          /\ run' = [run EXCEPT ![r].step = "status", ![r].todo = @ \ {Current(r)},
                                ![r].exhausted = @ \cup {Quota(r)}]
    /\ UNCHANGED <<sql, settled, ended, obscured, onboarded, throttled, throttles, errors>>

\* The wait that GitHub asked for is over; the quota may be, too, or not.
Wake(r) ==
    /\ At(r, "sleep")
    /\ run' = [run EXCEPT ![r].step = "observe", ![r].waits = @ \cup {Quota(r)}]
    /\ UNCHANGED <<sql, settled, ended, obscured, onboarded, throttled, throttles, errors>>

\* reconcile at the delivery owner, which keeps its first settlement.
ReconcileRow(r) ==
    /\ At(r, "reconcile")
    /\ settled' = settled \cup {Current(r)}
    /\ Done(r)
    /\ UNCHANGED <<sql, ended, obscured, onboarded, throttled, throttles, errors>>

\* The next sweep starts with nothing deferred or exhausted.
Finish(r) ==
    /\ run[r].step = "status"
    /\ run[r].todo = {}
    /\ run' = [run EXCEPT ![r] = Idle]
    /\ UNCHANGED <<sql, settled, ended, obscured, onboarded, throttled, throttles, errors>>

\* A terminal error of an owner ends the sweep.
FailSweep(r) ==
    /\ errors < MaxErrors
    /\ errors' = errors + 1
    /\ At(r, "status") \/ At(r, "reconcile")
    /\ run' = [run EXCEPT ![r] = [Idle EXCEPT !.step = "failed"]]
    /\ UNCHANGED <<sql, settled, ended, obscured, onboarded, throttled, throttles>>

-----------------------------------------------------------------------------
(* Surroundings *)

\* A settlement reaches SQL.
Project(w) ==
    /\ w \in settled
    /\ sql' = [sql EXCEPT ![w] = "settled"]
    /\ UNCHANGED <<settled, ended, obscured, onboarded, throttled, run, throttles, errors>>

\* The invitation ends; nobody hears of it.
InvitationEnds(w) ==
    /\ ended' = ended \cup {w}
    /\ UNCHANGED <<sql, settled, obscured, onboarded, throttled, run, throttles, errors>>

\* A webhook or a withdrawal settles it.
Settles(w) ==
    /\ w \in ended
    /\ settled' = settled \cup {w}
    /\ UNCHANGED <<sql, ended, obscured, onboarded, throttled, run, throttles, errors>>

\* The installation is suspended or loses the repository, the requester is gone,
\* a read fails; and perhaps all is well again some day.
Obscure(w) ==
    /\ errors < MaxErrors
    /\ errors' = errors + 1
    /\ obscured' = obscured \cup {w}
    /\ UNCHANGED <<sql, settled, ended, onboarded, throttled, run, throttles>>

Reveal(w) ==
    /\ obscured' = obscured \ {w}
    /\ UNCHANGED <<sql, settled, ended, onboarded, throttled, run, throttles, errors>>

Uninstall(a) ==
    /\ errors < MaxErrors
    /\ errors' = errors + 1
    /\ a \in onboarded
    /\ onboarded' = onboarded \ {a}
    /\ UNCHANGED <<sql, settled, ended, obscured, throttled, run, throttles>>

\* Installed anew.
Onboard(a) ==
    /\ onboarded' = onboarded \cup {a}
    /\ UNCHANGED <<sql, settled, ended, obscured, throttled, run, throttles, errors>>

Exhaust(a) ==
    /\ a \notin throttled
    /\ throttles < MaxThrottles
    /\ throttles' = throttles + 1
    /\ throttled' = throttled \cup {a}
    /\ UNCHANGED <<sql, settled, ended, obscured, onboarded, run, errors>>

Recover(a) ==
    /\ a \in throttled
    /\ throttled' = throttled \ {a}
    /\ UNCHANGED <<sql, settled, ended, obscured, onboarded, run, throttles, errors>>

Visit(r) ==
    Skip(r) \/ Status(r) \/ Observe(r) \/ Throttled(r) \/ Wake(r) \/ ReconcileRow(r)
        \/ Finish(r)

SweepNext ==
    \/ \E r \in Run : Start(r) \/ Visit(r) \/ FailSweep(r)
    \/ \E w \in Row :
          Project(w) \/ InvitationEnds(w) \/ Settles(w) \/ Obscure(w) \/ Reveal(w)
    \/ \E a \in Account : Uninstall(a) \/ Onboard(a) \/ Exhaust(a) \/ Recover(a)

SweepSpec == SweepInit /\ [][SweepNext]_sweepVars

\* Restate resumes a sweep that began until it ends. Nobody need start one, no
\* quota need be restored and nothing out of sight come back.
SweepFairness == \A r \in Run : WF_sweepVars(Visit(r))

FairSweepSpec == SweepSpec /\ SweepFairness

-----------------------------------------------------------------------------
(* Properties *)

\* A sweep that no owner's error ends leaves no row that it listed before the end of
\* its invitation, if GitHub shows it, is settled; except the rows of an account
\* throttled again after a wait for that very account, which are left to another
\* sweep (reconcile.rs:69).
SweepIsThorough ==
    [][\A r \in Run :
           \A w \in run[r].todo \ run'[r].todo :
               \/ run'[r].step = "failed"
               \/ Visible(w) => w \in settled'
               \/ AccountOf[w] \in run'[r].waits]_sweepVars

\* Whatever a sweep has listed and that has ended gets settled, though no webhook
\* told of it and GitHub throttles for good; unless an owner's error ends the sweep,
\* the quota of its account outlasts the wait, or there is no evidence of it to be
\* had (docs/invitation-settlement.md:34, 153). Neither an account without quota nor
\* a row out of sight keeps the sweep from the others (reconcile.rs:67-125).
ListedEndIsSettled ==
    \A r \in Run, w \in Row :
        w \in run[r].todo /\ w \in ended
            ~> \/ w \in settled \/ ~Visible(w)
               \/ AccountOf[w] \in run[r].exhausted
               \/ run[r].step = "failed"
=============================================================================
