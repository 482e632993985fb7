# A formal model of ghinvite

ghinvite lets the administrators of a GitHub account publish *invitation
links*. Whoever opens a link may ask for access to the link's repositories; an
administrator (or the link's policy) approves, and the service adds the
requester to each repository as a collaborator through the GitHub API.

The program's own logic is in `crates/ghinvite-workflows`: a handful of
*durable objects* run by Restate. An object is addressed by a key, its
exclusive handlers run one at a time per key, its state survives, every `ctx.run`
step is journaled (and may be executed again if the process dies before its
result is journaled), and `send`, `send_after` deliver a call durably, perhaps
late. SQL holds the readable projection and one piece of real authority, the
write fence. GitHub is outside: it answers late, refuses, throttles, or applies
a request whose answer is lost.

This directory models those objects and the web server's own protocols (browser
sessions, retained attempts, the binding of webhooks, paged reading) in TLA+,
checks them with TLC on small instances, and proves what the runs check of all
eleven, except liveness, for every instance with TLAPS. Line numbers below are
those of `crates/...` at this commit.

## 1. Inventory

### 1.1 Components, their state and their operations

| component | where | state | operations |
|---|---|---|---|
| **Repository delivery** `RepositoryDelivery/<request>:<repo>` | `ghinvite-workflows/src/delivery.rs` | create receipt, snapshot, refused generation, recheck slot and counter; SQL row `delivery_attempts` | `create`, `recheck`, `status`, and settlement's handlers |
| **Link owner** `InvitationLink/<link>` | `admission.rs` | link (terms, uses, revision, revocation), attempts, receipts, handoffs, latest request per requester | `create`, `revoke`, `update_metadata`, `prepare_attempt`, `admit`, pages |
| **Request owner** `InvitationRequest/<request>` | `request_owner.rs` | request, decisions, eligibility verdicts, command manifest with progress | `initialize`, `eligibility`, `inspect`, `tick_expire`, `decide`, `dispatch`, `recover` |
| **Account owner** `AccountInstallation/<account>` | `availability.rs`, `installation.rs` | current installation, last observation and its time, retired installations, recheck slot | `onboard`, `uninstall`, `refresh`, `recheck`, `admission_evidence`, `observe_admission_evidence`, `current_installation` |
| **Settlement** (handlers of the delivery object) | `settlement.rs` | the `settlement` part of the snapshot | `reconcile`, `webhook`, `cancel`, `tick_expire`, service `DeliveryObservation.observe` |
| **Reconcile sweep** | `reconcile.rs` | none (deferrals of one run) | `daily_run` |
| **Projections** | `projection.rs`, `ghinvite-core/src/storage/projection/*`, `delivery_projection.rs` | SQL rows of links, requests, deliveries, audit events | `apply`, `apply_transition` |
| **Member webhook routing** | `core/src/storage/github_invitations.rs`, `web/src/commands.rs` | `member_webhook_receipts` | bind a payload to an invitation, dispatch |
| **Attempt continuations and flows** | `core/src/storage/attempt_continuations.rs`, `web/src/attempt_continuations.rs`, `web/src/routes/console/attempts.rs`, `web/src/routes/invitation/attempt.rs` | `attempt_continuations` | retain, load, list, release; submit, retry, recover, triage |
| **Web sessions** | `web/src/session.rs`, `session_store.rs`, `middleware/auth.rs`, `routes/oauth.rs`, `session_sqlite.rs` | sealed session records, revocation markers, cached administrator checks | load, save, create, delete; sign-in, sign-out, console access |
| **Paged reading** | `core/src/storage/audit_read.rs`, `request_history.rs`, `pending_queue.rs`, `ghinvite-github/src/pagination.rs`, `installation.rs` | none | pages behind a seek key, walks along GitHub's pages |
| **GitHub client** | `ghinvite-github` | token cache | requests, decoding of answers |
| **Web commands and pages** | `ghinvite-web` | none of their own | ingress calls, routes, forms |
| **UI, islands, adapters, entry points** | `ghinvite-ui`, `ghinvite-island`, `ghinvite-storage-*`, `*-server`, `*-worker` | none of their own | rendering, binding, wiring |

### 1.2 How they interact

```
browser --admit--> link owner --eligibility/initialize--> request owner
                      |                                        |
                      +--admission_evidence--> account owner   +--create(send)--> delivery --PUT--> GitHub
                                                   ^                                |   ^
 webhooks, recheck ------------------------------- +      recheck (send_after) -----+   +-- settlement <- webhook, sweep, admin
 every owner --snapshot with a revision (send)--> its projector --> SQL
```

The link owner *calls* (waits for) the account owner and the request owner
while it holds its own lock, so an answer is old by the time it is used. The
request owner *sends* (does not wait for) delivery commands. Every owner sends
snapshots to a projector; the revision alone tells SQL which one is newer.

### 1.3 What is hard, and what makes each part correct

* **Delivery.** The closure that claims the fence and PUTs may be executed
  again from its start; answers get lost; a release statement may reach SQL
  after its caller gave up; wakes arrive late or twice. Correct means: at most
  one PUT is ever applied, whatever is told of it is true, a waiting delivery is
  woken, and it stops polling.
* **Link owner.** `admit` spends a use, then hands the request over to another
  object, and may fail between the two; it decides on answers given earlier.
  Correct means: each use is spent once, a requester has one live request, and
  every receipt, a rejection too, was true at the time it bears.
* **Request owner.** A decision, the expiry timer, an inspection and another
  decision meet at the deadline; each handler can end halfway and be repeated.
  Correct means: one outcome, found at the deadline whenever it was found out,
  one manifest, receipts that agree, and an approved request that is submitted.
* **Account owner.** Uninstallation may overtake onboarding, installations are
  replaced, observations go stale. Correct means: a retired installation never
  comes back, one recheck stands, and evidence is not older than its window.
* **Settlement and sweep.** Evidence is collected outside the lock. Correct
  means: stale evidence settles nothing, the first settlement stays, a retired
  installation withdraws nothing, unanswered withdrawals are continued.
* **Projections.** Snapshots arrive late or repeated. Correct means: SQL ends up
  with the newest snapshot and never goes back.
* **Webhook routing.** A member event names a requester and a repository, SQL
  lags behind the owners, GitHub repeats events. Correct means: all deliveries of
  one payload go to one invitation, which was there when the payload first came,
  and a wrong match settles nothing.
* **Attempts.** Tabs of one session post at once, calls are cut off or answered
  late, forms of one identity differ. Correct means: what the browser is told is
  so and stays so, and what took effect stays recoverable with its input.
* **Web sessions.** Requests of one browser load, change and store back whole
  copies of one record; a sign-out may fall between a save's check and its write
  (`session_store.rs:239`). Correct means: a revoked session stays revoked, its
  lifetime is never extended, a stale administrator check lets nobody in.
* **Paged reading.** Entries appear and disappear between two pages. Correct
  means: whoever follows the cursors misses nothing that was there throughout,
  and absence from a complete walk is evidence (`pagination.rs:43`).

`PROJECT.json` lists the hazards of each part at the line where they bite, with
the properties that would catch them, or a note of what none does.

## 2. Plan

| # | module | models | composed with | abstract specification | status |
|---|---|---|---|---|---|
| 1 | `Delivery` | delivery object, fence, GitHub's PUT | | `DeliveryPromise` | checked and proved |
| 2 | `Admission` | link owner | request owners and the account owner's evidence | `AdmissionPromise` | checked and proved |
| 3 | `RequestOwner` | request owner | `RequestLifecycle` | `RequestPromise` | checked and proved |
| 4 | `Settlement` | settlement handlers, observation service, withdrawals | GitHub's invitation, collaborators and installations, the account owner's installation | | checked and proved |
| 5 | `Availability` | Installation objects, account owner, installation projector | SQL installation rows, GitHub's installations | | checked and proved |
| 6 | `Projection` | projectors of link, request and delivery, their SQL | the snapshots the owners send | `ProjectionPromise` | checked and proved |
| 7 | `Attempts` | continuation rows, the console's and the invitation page's flows | ingress calls, what each object retains | | checked and proved |
| 8 | `WebSession` | session records, revocation, sign-in, administrator checks | GitHub's OAuth and memberships | | checked and proved |
| 9 | `MemberWebhook` | candidate query, binding and dispatch of member events | owners, lagging projection, observation | | checked and proved |
| 10 | `Sweep` | the daily sweep over accounts with quotas | SQL rows, delivery owners | | checked and proved |
| 11 | `Listing` | seek pages, probes, page walks | a listing that changes | | checked and proved |

The order was that of the program's own risk: first what writes to GitHub and
what spends uses, then what reads evidence, then what the web server does by
itself. Proofs followed the same order. What reads pages and sorted lists came
last, with lemmas on orders in place of an induction over the list.

## 3. The modules and the code

### 3.1 Delivery

`Delivery.tla` follows one `RepositoryDelivery` object. `receipt`, `snapshot`,
`rejected_generation`, `recheck_scheduled`, `recheck_generation` are its state
keys under their own names; `fence` is the SQL row; `put[g]` is what GitHub knows
of the PUT sent under fence generation `g`; `lateReleases` are release statements
whose caller gave up but which may still arrive.

`create` is one invocation with a program counter: `Create`/`Recheck` (entry,
replay of a confirmed receipt, missing installation) → `ReleaseRejected` →
`Preflight` → the closure `guarded_github_create` (`CheckFence`,
`PrerequisiteMissing`, `ClaimFence`/`ClaimLost`, `SendPut`, `PutAnswered`/
`PutUnanswered`, `ReadEvidence`) → `JournalResult` → `ReleaseRefused` →
`RetainReceipt`. `CrashClosure` is a crash before the closure's result is
journaled: the closure begins again, but a PUT that left stays sent. `Settle` is
what settlement's handlers do to the same snapshot. `GithubDecides`,
`LateRelease`, `DuplicateWake`, `Onboard` are the surroundings.

Abstractions: GitHub's answers are the classes `add_collaborator` distinguishes;
all missing prerequisites are one (`PrerequisiteMissing`, with or without a
throttle) since the code treats them alike; the duration of a timer is left out;
a command that differs from the bound one changes nothing and is left out.

`DeliveryPromise.tla` knows only what was told and what was written: no write
while one is out or applied, no write after "unknown", "blocked" and "failed"
only when nothing is written. `Delivery!KeepsPromise` is the refinement.

### 3.2 Admission

`Admission.tla` follows one link with its request owners (reduced to their
lifecycle, `RequestLifecycle.tla`) and the account owner's observation. An
`admit` runs through `ask` (ask the latest request's owner) → `probe` →
`evidence` → `decide` → `initialize` → `record`, with a failing call ending it
at any of these points, everything stored until then kept; the attempt is then
sent again. `create`, `revoke`, `update_metadata`, `prepare_attempt` are atomic:
they await nothing but the journal. Meanwhile `OwnerDecides`, `Tick`,
`ChangeAccess` and `Observe` change what the answers were about. `granted` and
`denied` are history: the times at which access did and did not exist.

`AdmissionPromise.tla`: a number of uses, each spent on somebody without a live
request, never refunded, none after revocation.

### 3.3 RequestOwner

`RequestOwner.tla` follows one request. Handlers that await something between two
state changes (`initialize`, `decide`, `dispatch`) are split at each await;
`GiveUp` ends one there with its stored state kept, and the caller repeats it.
The clock is `now`; a timer may fire early (`MaxEarly`), for its clock is not the
handler's. Handlers store what they *journaled*, which may be older than `now`.
`expire_due` is `Due` in `RequestLifecycle`.

`RequestPromise.tla`: a request ends once, and each repository is ordered under
one invitation identity, only after approval.

### 3.4 Settlement

`Settlement.tla` follows one invitation that GitHub created, its object
(`sent`, `settlement` and the withdrawal that holds the object), and everybody
who looks at GitHub without holding it. An *observer* is one call of
`DeliveryObservation.observe`, started by a member webhook (`Member`) or by the
daily sweep (`Sweep`); it goes through `status` → `authority` → `verify` →
`list` → `user` → `permission` → `relogin` → `evidence`, one read per step, and
`Reconcile` delivers its evidence when the object is free. A *withdrawal*
(`cancel`, `tick_expire`) goes through `authority` → `verify` → `delete` or
`list` → `reverify` → `record` while it holds the object. `ReadFails` and
`WithdrawalFails` are a failed read, a crash that repeats GitHub's reads (they
are journaled together) and, for a withdrawal, the lost answer of a deletion that
was carried out; the continuation comes back as a new call.

Around them the requester answers (`Answer`), is renamed, gains and loses access
otherwise, the installation is restricted, removed and replaced, and the account
owner learns of it later (`Inform`). `seen` remembers whether the requester was
seen with and without access since the invitation ended; `owed` that `cancel`
deleted it and could see the repository ever since, so that the deletion is still
to be told.

Abstractions: the repository's and requester's numeric identities do not change
and are left out; a repository renamed in place is a failed verification; the
receipt and the settlement's revision and audit belong to `Delivery`.

### 3.5 Availability

`Availability.tla` follows one account through its installation and the ones that
replace it. An `Installation` object keeps whether it was onboarded (`known`) and
its tombstone (`uninstalled`); a message it took waits in `call` until the
account answers. The account's handlers are `AccountOnboard` → `Verify` →
`Replace` → `Adopt` → `Observe` → `List`, with `Refresh`, `Recheck` and
`ObserveEvidence` joining at `Observe`, and `AccountUninstall`; each read is a
step, and GitHub may change between two of them while the handler holds the
account. `Retain` is the whole tail of `refresh_status`: projection of a changed
selection, the recheck slot, the status. `changes` is the projector's queue,
`rows` the SQL rows of the installations. `handled` is history: the
installations whose uninstallation was answered.

Abstractions: an account whose identity differs from the one named, and audit
events, are left out. A GitHub account whose type cannot be parsed is the failure
of `Adopt`. The old installation is retired by then, so the retained status
names a retired installation; `SqlFollowsAccount` allows for it. What evidence is
worth to the link owner is part of `Admission`.

### 3.6 Projection

`Projection.tla` follows the rows of one link, one request and one delivery. The
owners `Send` snapshots, whose revision is their place in `sent`, and may `Resend`
the newest. Each projector applies its `queue` in order (`Apply`), repeats a
snapshot until SQL answered, and may give an attempt up whose transaction commits
or aborts later (`Abandon`, `CommitLate`). `Write` is one transaction: the
dependency assertion (`HasParent`), the upsert by revision (`Newest`), the audit
inserts, and for a delivery `INITIAL`, the triggers `delivery_created*` and
`github_invitation_settlement_fence`, and `SETTLED`.

Abstractions: of a snapshot's content only the delivery's outcome and settlement
and the facts to record are kept; blocked, throttled and unknown are all
`waiting`, the terminal states other than accepted are one. Installations and
users, which the links' pages read from SQL before anything is sent, are there.
Two snapshots of one revision with different contents would hold a projector for
ever; that owners never send such a pair is `RevisionNamesLink`,
`RevisionNamesRequest` and `RevisionNamesSnapshot` of the owners' modules, and
`Projection` relies on it.

`ProjectionPromise.tla` knows no queues: every row shows a snapshot that was
sent and only moves to later ones, never without its parent; the invitation is in
the state its delivery's snapshot stands for; facts are only added.

### 3.7 WebSession

`WebSession.tla` follows one browser. `store`, `marker` and `cookie` are the
sealed records, the revocation markers and the identity that the browser
presents; `request[r]` is a web request with the copy of the record that it
loaded. `ProtectedStore::load` is `Begin` (the marker) and `LoadGets` (the
record); `save` is `SaveChecks` and `SavePuts`, so that a revocation may come in
between; `create` is `Creates`; `delete` is `Logout` and `Delete`. `Login`,
`Callback`, `Exchange`, `CycleId` are the sign-in, `Console`, `Answer`, `Grant`
the administrator check, whose answer travels for up to `Latency`. `Fail` ends a
request anywhere with what it stored kept. Records do not travel between
browsers; CSRF tokens, flashes and sealing are left out, a record past its
deadline does not open.

### 3.8 MemberWebhook

`MemberWebhook.tla` follows the invitations of one requester to one repository of
an account, each with its request. The three projections of a link's uses, a
request and a delivery are late independently (`ProjectLink`, `ProjectRequest`,
`ProjectDelivery`); `RequestIsMissing`, `DeliveryIsMissing` and `Candidates` are
the query's guards. A webhook request reads (`Receive`), binds (`Bind`, `ON
CONFLICT DO NOTHING` and read back), dispatches (`Dispatch`), or fails between
any two. `OnWebhook` and `Observe` are what the delivery object makes of it,
`Named` the other ways by which an invitation's end is found. `Hidden` is what
the query cannot see: a link's count or an approval that SQL lacks.

### 3.9 Sweep

`Sweep.tla` follows `daily_run` over rows of several accounts: `Start` lists the
candidates, `Status`, `Skip`, `Observe`, `ReconcileRow` are one visit with its
awaited calls, `Throttled` defers an account and `Wake` continues after its
quota's reset, `Finish` ends the run, `FailSweep` is the terminal error of an owner,
which ends it early. The observation itself is `Settlement`'s; here it yields
evidence only of an invitation that is `Visible`. One whose installation is
suspended, whose repository is out of scope or whose requester is gone is
`obscured` and yields none, as does a terminal error of GitHub, perhaps for good
(`Obscure`, `Reveal`), while its account stays onboarded or is onboarded again
(`Uninstall`, `Onboard`); such a row stays Sent
(`docs/invitation-settlement.md:34-35, 153-155`). Sweeps may overlap; to one sweep,
another one is `Settles` and `Exhaust`.

### 3.10 Attempts

`Attempts.tla` follows one browser session: web requests (`Tab`) that submit,
repeat and recover commands. `RetainInsert` and `RetainFind` are the two
statements of `retain`, `Send` and `TimeOut` the ingress call with its deadline,
`Handle` the object's side for each kind of command, `Reply` and `Triage` what the
flow makes of the answer, `Release` the deletion by identity. `CutOff` drops a
request after any step; its call may still arrive. `authority` is what an object
retains under an identity; `stray` remembers rows deleted by the release of
another input (finding below).

### 3.11 Listing

`Listing.tla` reads one listing in one of five ways (`kind`): the audit log back
and forth with its two probes, a link's history, an account's queue, GitHub's
pending invitations along `Link` headers, an installation's repositories by page
number. Each page is one statement or answer, and `Appear` and `Disappear` change
the listing in between; `FailRead` is a read that gives up the walk. Encoding of
cursors is left out: a position is an entry.

## 4. The runs

| run | instance | what it shows |
|---|---|---|
| `delivery` | 4 disturbances, 5 generations, 2 calls; 214 k states | one write at most, true receipts, revisions that name snapshots, one live timer, a waiting delivery gets decided or unknown; refinement of the promise |
| `admission` | 2 requesters, 2 operations, time 0..2, 1 fault; 441 k states | uses and receipts under interrupted and repeated attempts; refinement; a repeated attempt is answered |
| `request` | 2 repositories, 2 decisions, 2 reasons, deadline 1 of 2, 1 early timer, 1 handler given up; 160 k states | one outcome, in time, one manifest, agreeing receipts; refinement; a pending request ends, an approved one is submitted |
| `settlement` | 1 webhook and 1 sweep observation, 2 installations, 2 withdrawals, 2 disturbances; 746 k states | one settlement, and a true one, whatever the reads and answers interleave with; a deletion is told though its answer was lost; polling ends |
| `settlement_unreached` (violation) | 1 observation, 1 disturbance | evidence of absence from a repository out of sight (finding below) |
| `availability` | 2 installations, 3 messages, 3 changes at GitHub, 2 disturbances; 667 k states | an uninstalled installation stays away, SQL follows the account, a loss is rechecked |
| `projection` | 2 link, 2 request and 3 delivery snapshots, 3 disturbances; 385 k states | rows only move forward and agree, SQL catches up; refinement |
| `web_session` | 2 requests, 1 user, lifetimes 1 and 2, time 0..2; 883 k states | a revoked session gives nothing, a session ends with its lifetime, a check is recent |
| `member_webhook` | 2 invitations of one link, 1 payload, 2 handlers; 3.0 M states | what an event is taken for, repeated or not, and that a wrong match settles nothing |
| `sweep` | 1 sweep at a time, 3 rows of 2 accounts, 2 throttles, 2 errors or obscured rows; 411 k states | which rows a sweep may leave unsettled; that it settles what it listed and GitHub shows ended, though another account never regains its quota or another row never shows |
| `attempts` | 2 tabs, 2 creation inputs, 2 decision forms, 1 admission attempt in 2 texts, 3 submissions, 1 fault; 3.6 M states | what is told is so, one original decision, effects stay recoverable |
| `listing` | 8 entries of 2 times on pages of 2, walks of 3 pages, 3 changes; 4.4 M states | nothing is passed over, absence is evidence |

**Bounds.** Every bound is a named constant. A *disturbance* is anything that
needs not happen: a crash, a lost acknowledgement, a refusal, a failed call. In
`delivery` each new fence generation needs a refusal, so with more generations
than disturbances (`GenerationsSuffice`) the bound on generations never stops a
claim; four disturbances allow refuse, lose the release, crash and lose the answer in
one run. Two calls let an explicit recovery meet a timer. In `admission` two
requesters and two operations let a requester repeat an attempt while another
takes the last use; the observation window is as long as the clock runs and a
deadline one step, so evidence, link and request can each be overtaken by time.
In `request` the clock passes the deadline, there are two
decisions that agree, differ in action or differ in reason, and room for a second
manifest that must never be made. In `settlement` two installations let
an authorization outlive the installation it names, two withdrawals let a
continued one meet another, and two disturbances allow an unanswered
deletion and a restriction in one run. In `availability` two
installations are one replacement, three messages let an onboarding, its
uninstallation and the new onboarding overtake each other, and three changes a
removal, a new installation and a suspension. In `projection` a delivery waits, is
created and is settled, and three disturbances let a late transaction meet a lost
answer and a snapshot sent again. In `web_session` one request signs in or out
while another uses the same record, and a session can end by time, by sign-in and
by sign-out; several users are covered by the proof. In `member_webhook` two
successive invitations and two deliveries of one payload are the least in which
an old event can be taken for a new invitation. In `sweep` an account has two
rows, so that it can be deferred between them; two throttles let one outlast its wait,
or two accounts be deferred in one sweep; two errors let a row be obscured while an
owner fails. One sweep is under way at once, and another's effect on it comes from
its surroundings; several at once are covered by the proof of `SweepIsThorough` only. In `attempts` two tabs with three
submissions let a late release meet a later input. In `listing` entries of one
time fall on both sides of a page's end (`Paged`) and a walk may come upon its
bound. Deadlock is not checked since every instance legitimately ends when its
bounds are used up.

**Symmetry** is used in `web_session`, `member_webhook` and `attempts`, only for
sets whose members the code compares for equality, and those runs have no
liveness properties.

**Fairness.** Restate resumes an invocation that runs and delivers a durable
timer or call: weak fairness of the steps of a running handler, of the standing
wake, of the clock, of each projector. Strong fairness is assumed of a call that is repeated until
it is answered (a browser's attempt, an administrator's decision, the link's
handover, a timer message, evidence or a withdrawal in the object's queue): the queue serves each
invocation in turn, but the object is not free all the time. In `settlement` only
the observation a webhook started is sure to go on. Nothing is assumed
of GitHub, of administrators choosing to decide, or of disturbances, which are
bounded. In `sweep` a sweep that has begun goes on:
Restate resumes it after its sleep, and repeats a read of GitHub that fails without
being terminal until it answers. Nothing more is assumed: no source file
schedules `daily_run`, so none need begin; no quota need be restored, no row be
projected, and nothing that is obscured come back.

**Each property has a mutant** (`PROJECT.json`, "mutants"): a change to a modelled
definition as a plausible bug would make it — a dropped `WHERE retryable = 1`, a
use spent again on repetition, a seek key without its tie-breaker — under which TLC
finds that property violated. The operators commented `Defect:` are those changes;
no action uses them. Type invariants are conjuncts of the invariants that section 5
proves.

## 5. What is proved

TLAPS checks every theorem below for all values of the constants; each proof
rests on the named assumptions of its module and on nothing else. The pattern is
one throughout: an invariant that the runs check is not inductive by itself, so
a strengthening `IInv` is stated in named parts, shown to hold at the start and to be kept by
every action, and the properties follow from it. TLC checked each `IInv` on the
instance of its run before it was proved.

Each proof module belongs to a component and is named after it. Two of them go
further, to the components that read what theirs writes: `ProjectionProofs` is
also about `MemberWebhook`, whose query reads the projection, and
`SettlementProofs` about `Sweep`, which starts observations, and `Listing`, from which they
conclude. These three name their initial state, steps and specification after
themselves (`SweepInit`, `SweepNext`, `SweepSpec`, ...), so that one module can
extend them beside the other.

### 5.1 Delivery

`DeliveryProofs.tla` proves for all values of `MaxGeneration`, `MaxFaults`,
`MaxCalls`, from `DeliveryBounds` alone:

| theorem | of `Spec` |
|---|---|
| `DeliveryTypeOK` | `[]TypeOK` |
| `DeliveryWritesOnce` | `[]NoWriteBesideUndecided` |
| `DeliveryFenceOpensOnRefusal` | `[]OpenFenceMeansRefused` |
| `DeliveryNegativesAreTrue` | `[]NegativeReceiptIsTrue` |
| `DeliveryRefusalIsTold` | `[]RejectedRetainsReceipt` |
| `DeliveryRecheckStands` | `[]RecheckStands` |
| `DeliveryRevisionNamesSnapshot` | `[]RevisionNamesSnapshot`: two snapshots of one revision are one snapshot |
| `DeliveryReceiptIsMonotone` | `ReceiptIsMonotone`: a receipt is only ever replaced by a later one |
| `DeliveryUnknownNeverWrites` | `UnknownNeverWrites` |
| `DeliveryTimerMeetsItsWake` | `TimerMeetsItsWake`: a standing timer ends only by its own wake, and none stands twice |
| `DeliveryKeepsPromise` | `Spec => Promise!PromiseSpec` |

None of the invariants is inductive by itself. `DeliveryInvariant.tla` states the
strengthening `IInv` in layers, each preserved given the ones before it:

1. `TypeInv`: types, and that a program counter past the claim has a generation.
2. `FenceInv`: below the fence's generation every PUT was refused, above it none
   was sent; every outstanding release is for a refused PUT; the invocation about
   to PUT holds a fresh claim. This is why a late release is harmless: it can
   only open a fence that a refusal had already opened for good.
3. `ReceiptInv`: what the closure returned, what is pending and what is retained
   agree with the fence. In particular, while a refusal awaits its release the
   closure does nothing, so a waiting receipt stays true.
4. `TimerInv`: the timer that stands has its wake under way.
5. `SnapshotInv`: what the projector was handed, and what the object would hand it
   next, are ordered by revision.

The refinement maps `SendPut` to `Attempt`, `GithubDecides` to `Land` or `Miss`,
`RetainReceipt` to `Report` and everything else to stuttering; its proof uses
`IInv` before and after the step.

### 5.2 Projection and member webhooks

`ProjectionProofs.tla` proves for all values of `MaxRevision` and `MaxFaults`,
from `ProjectionBounds` alone:

| theorem | of `Spec` |
|---|---|
| `ProjectionTypeOK` | `[]TypeOK` |
| `ProjectionStateFollowsReceipt` | `[]Follow`: the invitation is in the state of the stored delivery |
| `ProjectionKeepsPromise` | `Spec => Promise!PromiseSpec` |

The strengthening `IInv` adds that whatever waits, is late or is stored was sent
(`Known`), and that a confirmed outcome and a settlement are in every later
snapshot too (`History`). The second is what makes a transaction safe in any
order: an older snapshot leaves everything as it is, and a newer one either finds
the invitation still being sent or in the state it would give it itself. The
refinement maps `Send` to `Tell`, every transaction to `Show` and the rest to
stuttering; `Abandon` and `Resend` touch nothing that SQL shows.

Of member webhooks it proves, for every finite set of invitations and every
set of links, payloads and handlers, from `LinksAssumption`:

| theorem | of `WebhookSpec` |
|---|---|
| `WebhookTyped` | `[]WebhookTypeOK` |
| `WebhookTellsInvitations` | `[]EventIsOfItsInvitation` |
| `WebhookRedelivered` | `[]RedeliveryStays` |
| `WebhookIsHarmless` | `[]PendingIsNotSettled` |

`WebhookInv` says that SQL knows of no request, approval or delivery that its owner
does not (`SqlFollows`), that an event was caused by an invitation that was sent
(`CausesWereSent`), and what a handler carries between reading, binding and
dispatching (`Handled`, `Receipted`). The step that matters is the query's: it
counts the uses that SQL has of a link against the requests that SQL has of it,
and since the rows are among the requests there are, equal numbers mean equal
sets (`UsesTellRequests`, for which the invitations must be finite). So a query
to which no count and no approval is hidden sees every invitation that was sent,
and a single candidate is the one the event is about.

### 5.3 Link owner

`AdmissionProofs.tla`, for every set of requesters, operations and terms, every
lifetime and window, from `AdmissionBounds`:

| theorem | of `Spec` |
|---|---|
| `AdmissionTypeOK` | `[]TypeOK` |
| `AdmissionUsesAreSpentOnce` | `[]UsesAreSpentOnce` |
| `AdmissionAcceptanceWasAllowed` | `[]AcceptanceWasAllowed` |
| `AdmissionRejectionWasTrue` | `[]RejectionWasTrue` |
| `AdmissionRevisionNamesLink` | `[]RevisionNamesLink` |
| `AdmissionOneLiveRequest` | `[]OneLiveRequest`: a requester has one live request at a time |
| `AdmissionKeepsPromise` | `Spec => KeepsPromise` |

`UseInv` pairs the accepted operations with the uses spent, by their requests; that
there are as many of the one as of the other is then a bijection. `RequestInv`
says that of a requester's requests only the one the link points to can be live,
which is why comparing with that pointer is enough. `EvidenceInv` and `OutcomeInv`
say of a running attempt that what it learned stays true, or becomes useless,
until it decides; `AccessInv` and `OutboxInv` tie the stored operations and the
snapshots to the link. That a requester has one live request at a time is what
the promise's `Spend` asks for, so the runs check it there.

### 5.4 Request owner

`RequestProofs.tla`, for every lifetime, every set of repositories, decisions and
attempts:

| theorem | of `Spec` |
|---|---|
| `RequestTypeOK` | `[]TypeOK` |
| `RequestDecidedInTime` | `[]DecidedInTime` |
| `RequestReceiptsAgree` | `[]ReceiptsAgree` |
| `RequestRevisionNamesRequest` | `[]RevisionNamesRequest` |
| `RequestKeepsPromise` | `Spec => KeepsPromise` |

A request is handed over once and changes at most once more (`WellFormed`,
`OrdersInv`), and what a handler has journaled but not yet published is what the
request will be (`HandlersInv`, `JournalInv`): whatever interrupts a handler
between its step and its state, there is one outcome to find. `ReceiptsInv` and
`OutboxInv` carry this to the answers and the snapshots.

### 5.5 Settlement, the sweep and listings

`SettlementProofs.tla`, for every set of observers and every bound:

| theorem | of `Spec` |
|---|---|
| `SettlementTypeOK` | `[]TypeOK` |
| `SettlementTrue` | `[]SettlementIsTrue` |
| `SettlementFinal` | `SettlementIsFinal` |

GitHub's invitation ends once. So what a read found ended stays so, and each step
of a chain of reads carries what the reads before it established
(`ObservedIsOver`, `WithdrawnIsOver`); `EndIsNoted` says that access was
noted from the end on, `EventsAreTrue` that events tell of what happened.

Of the sweep, for every set of accounts and runs, any number of rows, throttles
and errors, from `SweepAssumption`:

| theorem | of `SweepSpec` |
|---|---|
| `SweepTyped` | `[]SweepTypeOK`: above all, a sweep that visits is at a row of its list |
| `SweepThorough` | `SweepIsThorough` |

Taking a row off the list is a step, so nothing is said of the list as a whole and no
induction is needed: `SweepInv` says that a sweep has waited for every account it
deferred, or is doing so now, and that what it calls exhausted it has waited for. A
row leaves the list unsettled only because GitHub does not show its end, because its
account is exhausted, or with the whole list when an owner's error ends the sweep.
That the least row of a list is one of its rows (`LeastRow`) rests on the
well-foundedness of finite subsets.

Of the listings, for every range of times and identities, every page size and
any number of changes, from `ListingBounds`:

| theorem | of `ListingSpec` |
|---|---|
| `ListingPassesOverNothing` | `[]NothingIsPassedOver` |
| `ListingAbsenceIsEvidence` | `[]AbsenceIsEvidence` |

A page is the entries of low rank in a set that is ordered, forward or backward.
The order is taken as a set of pairs, so that the lemmas hold of both directions:
ranks rise along the order and every rank below the size is taken
(`RanksRise`, `EveryRankIsTaken`), so the first entries come before all
others (`LeadsComeFirst`), and fewer than were asked for are all there are
(`FewLeadsAreAll`). `ListingInv` has three parts. For seek pages (`Seeks`): the
position is an entry that was shown, what lasts and comes before it was shown
too, a page that is not followed by another shows the end, and what the probes
said held when they looked. For
the walk along `Link` headers (`Walking`): as long as nothing vanished, what lasts and was not
met yet ranks on the page to be read or beyond, since what appears can only raise
a rank. For the walk by page number (`Counting`): as long as nothing vanished, all that was
shown is still there; as long as nothing appeared, the total only falls, and
while it is the first page's, all that was shown is still there. Either way, as
many entries as the total are all entries.

### 5.6 Account owner

`AvailabilityProofs.tla`, for every set of repositories and every bound:

| theorem | of `Spec` |
|---|---|
| `AvailabilityTypeOK` | `[]TypeOK` |
| `AvailabilityHandledIsGone` | `[]HandledIsGone` |
| `AvailabilitySqlFollows` | `[]SqlFollowsAccount` |

`CallInv` and `TombstoneInv` say that an installation object has one call at the
account, and none but its uninstallation once it has a tombstone;
`ReplacementInv` that a handler which runs for it can only make that installation
the account's. `TableInv` is about SQL: the waiting changes lead from the rows, by
a chain of tables, to rows that agree with the account, and a change applied
again changes nothing.

### 5.7 Attempts

`AttemptsProofs.tla`, for every set of inputs, identities and tabs and any number
of submissions and disturbances:

| theorem | of `Spec` |
|---|---|
| `AttemptsTypeOK` | `[]TypeOK` |
| `AttemptsToldIsTrue` | `[]ToldIsTrue` |
| `AttemptsOneDecision` | `[]OneDecision` |
| `AttemptsEffectIsRecoverable` | `[]EffectIsRecoverable` |

The argument turns on creations that can never succeed again (`Dead`: their expiry
passed while their object retained nothing of them), since those are the ones
whose rows a flow may delete, and on decision rows, which no flow deletes.
`CallInv` says what a call under way is owed, `SentInv` what was sent, `ToldInv`
what the browser was told.

### 5.8 WebSession

`WebSessionProofs.tla`, for any number of users, requests and sign-ins:

| theorem | of `Spec` |
|---|---|
| `WebSessionTypeOK` | `[]TypeOK` |
| `WebSessionSignedOut` | `[]SignedOutStaysOut` |
| `WebSessionBounded` | `SessionIsBounded` |
| `WebSessionAdministratorWasRecent` | `AdministratorWasRecent` |

Every copy of a session's record, wherever a request carries it, bears the user and
the time of the sign-in (`RequestInv`, `StoreInv`): so a revocation marker outlasts all
copies, whenever they are put back. `AdminInv` says that a cached check bears the
time of an answer that travelled for `Latency` at most. `SessionBounds` assumes
`Anonymous <= Authenticated <= Retention`, the order of the 30 minutes, 30 days and
31 days at `session_store.rs:19-21`; without it a marker could expire before a
copy of the record, and `SignedOutStaysOut` would be false.

### 5.9 What is only model-checked

* Liveness, which needs fairness and `ENABLED`: `WaitingIsResolved`,
  `RepeatedIsAnswered`, `PendingEnds`, `ApprovedIsSubmitted`, `DeletionIsTold`,
  `PollingEnds`, `LossIsRechecked`, `CatchesUp`, `ListedEndIsSettled`.

Everything else that a passing run checks is stated by a theorem.

## 6. Assumptions and limits

* One object's handlers exclude each other and journaled steps are not executed
  again: Restate's contract, not modelled further. An administrative kill of an
  invocation, which the documents place outside the ordinary fault model, is not
  modelled.
* Clocks do not run backwards between two reads of the same handler. (A clock that
  stepped back between gathering evidence and deciding could make expired evidence
  look fresh.) The web servers of one deployment read one clock.
* GitHub applies a PUT at most once, and a positive refusal means it was not and
  will not be applied.
* In `Settlement` a repository that leaves an installation's scope returns only
  while nobody reads, and a login is not taken up again by its former owner: one
  that left and came back between two reads of a chain would not be noticed by
  the code, which compares nothing but the two ends. So `SettlementIsTrue` does not
  speak of a deletion's 404 followed by the repository's return before the second
  verification (`settlement.rs:413`).
* `ListedEndIsSettled` speaks of rows that a sweep has listed and of evidence that
  GitHub shows. Nothing is claimed of how soon, or whether, another sweep begins.
* What one owner sends to one projector arrives in the order it was sent, as
  Restate's queue of a key keeps it.
* The runs are exhaustive only within their bounds; the theorems are not bounded,
  but speak of the models, not of the code.

### Not modelled

* **GitHub client**: building requests and decoding answers keep no state; the
  models take the decoded answer, with its uncertain cases, as the client's. The
  installation token cache (`ghinvite-github`) keeps a value that any caller may
  replace by a fresh one, and whose loss or early expiry costs a request.
* **Repository access verification** is one read inside `Delivery` and `Settlement`,
  with its three answers.
* **Web routes, pages and the user interface**: they render snapshots and decode
  forms. CSRF tokens, flashes and the sealing of records are left out of
  `WebSession`; encodings of cursors out of `Listing`.
* **Read queries** other than paged ones return what one statement sees.
* **Workflow error classes and the endpoint** decide whether Restate retries; in
  the models that is which action an answer leads to.
* **Domain values** (names, logins, terms) validate and format; they appear as
  members of small sets.
* **Process entry points** wire the parts together.

The definitions map to about 15 % of the implementation's lines, but to about three
quarters of the code that is not tests in the files that hold the core's state. The rest
renders, decodes, tests in place or parses, and keeps no state between two steps.

## 7. Findings

Run `settlement_unreached` shows a disagreement between the documents and the code:

* `docs/adr/0006-delivery-and-settlement-checks-stay-distinct.md:17` and
  `docs/invitation-settlement.md:33` say that nothing is settled while the
  repository is out of the installation's sight. `observe`
  (`settlement.rs:69-126`) verifies the repository before its first read only.
  If the repository leaves the scope after the pending listing, the permission's
  404 is followed by a lookup of the requester, which any installation may do,
  and an accepted invitation is settled as cancelled for good. `cancel` verifies
  again after its 404.

Four more were met while modelling. The models follow the code; the properties say
where they make an exception for it.

* `docs/delivery-recovery.md:161` says that the retained `recheck_scheduled` generation
  is the receipt revision that arranged the timer. `schedule_recheck`
  (`delivery.rs:358-374`) counts `recheck_generation` by itself; after an explicit
  recovery behind a standing timer, or a fence outage that reschedules without a
  receipt, the two differ. The code's choice is the right one: `TimerMeetsItsWake`
  fails for the documented rule, which is its mutant.
* `docs/delivery-recovery.md:183` says that a throttled `cancel` or `tick_expire`
  is retried inside the object's lock. `withdraw` (`settlement.rs:430-453`) sends
  itself again with a delay and ends, so other calls get the object in between.
* `routes/console/attempts.rs:320-334` releases a continuation by its identity,
  whatever it holds. `attempt_continuations.rs:1-3` (in `core/src/storage`) promises that what is
  retained is recoverable. When a creation posted from two
  tabs is rejected twice, the second release may come after a changed form of the
  same identity was retained, and then deletes that row, whose effect can no longer be
  recovered: the `stray` exception of `EffectIsRecoverable`, which therefore covers
  interleaved retentions, requests cut off and effects after a deadline, but not this
  release.
* `installation.rs:142-143` (in `ghinvite-github`) says that a pagination which changes
  during the walk leaves the result unknown. One repository removed and one added between two pages
  keep `total_count`, and the walk returns a list that lacks a repository which
  was there throughout: the exception `~(appeared /\ vanished)` in
  `AbsenceIsEvidence`. `docs/invitation-settlement.md:173-176` admits such a
  race for invitations only, and `AbsenceIsEvidence` exempts an entry that vanishes
  from that listing during the walk (`~vanished`).
