------------------------- MODULE AvailabilityProofs -------------------------
(***************************************************************************)
(* Theorems about Availability, for every set of repositories and every    *)
(* bound.                                                                  *)
(***************************************************************************)
EXTENDS Availability, TLAPS

(* The inductive invariant. An Installation object has one call at the     *)
(* account, and none but its uninstallation once it has a tombstone; a     *)
(* handler that runs for it can only make that installation the account's. *)
(* The changes that wait for the projector lead from what SQL shows to     *)
(* what the account holds.                                                 *)

\* The account names an installation or nothing, and so does its handler.
RunInv ==
    /\ account.installation = 0 => account = NoAccount
    /\ run.step = "idle" => run = Idle
    /\ run.step # "idle" => run.account.installation # 0
    /\ run.step \in {"verify", "replace", "adopt"} => run.caller # 0
    /\ run.step = "replace" => account.installation # 0
    /\ run.caller # 0 => run.account.installation = run.caller
    /\ run.caller = 0 => run.account.installation \in {0, account.installation}

\* The slot is taken as long as a recheck is under way.
SlotInv == rechecks = IF refresh_scheduled THEN 1 ELSE 0

\* Only installations that retain their account call it, and a tombstone comes
\* before the uninstallation.
CallInv ==
    /\ run.caller # 0 => call[run.caller] \in {"onboard", "refresh"}
    /\ \A i \in Installation : call[i] # "none" => i \in known
    /\ \A i \in Installation : call[i] = "uninstall" => i \in uninstalled
    /\ account.installation \in known \cup {0}

\* Behind a tombstone nothing but the uninstallation is under way, and the
\* account has another installation once that is answered.
TombstoneInv ==
    /\ \A i \in uninstalled :
          /\ call[i] \in {"none", "uninstall"}
          /\ call[i] = "none" => account.installation # i
    /\ \A i \in handled : call[i] = "none"

\* A new installation is adopted only when the account has no other.
Vacant == account.installation \in retired \cup {0}

ReplacementInv ==
    /\ run.step \in {"verify", "replace", "adopt"} =>
          /\ run.account.installation \notin retired \cup {account.installation}
          /\ run.account.selected = {}
    /\ run.step = "adopt" => Vacant
    /\ run.step \in {"observe", "list"} =>
          \/ run.account = account
          \/ Vacant /\ run.account.installation \notin retired \cup {account.installation}

BaseInv ==
    TypeOK /\ RunInv /\ SlotInv /\ CallInv /\ TombstoneInv /\ ReplacementInv

\* What the rows will have to agree with.
Current == IF run.step \in {"observe", "list"} THEN run.account ELSE account

Agreeing(table) ==
    /\ ActiveIn(table) = {Current.installation} \ (retired \cup {0})
    /\ \A i \in ActiveIn(table) : table[i].selected = Current.selected
    /\ \A i \in Installation :
          table[i].state # "absent" => i \in retired \cup {Current.installation}

Table == [Installation -> Row]

\* Applied to a table in turn, the changes of a queue make another of it.
Leads(table, queue, outcome) ==
    \E f \in [0..Len(queue) -> Table] :
        /\ f[0] = table
        /\ \A n \in 1..Len(queue) : f[n] = Projected(f[n - 1], queue[n])
        /\ f[Len(queue)] = outcome

TableInv == \E outcome \in Table : Leads(rows, changes, outcome) /\ Agreeing(outcome)

IInv == BaseInv /\ TableInv

-----------------------------------------------------------------------------
(* The installations' projector *)

LEMMA ProjectedTyped ==
    ASSUME NEW table \in Table, NEW change \in Change
    PROVE  Projected(table, change) \in Table
    BY DEF Projected, Table, Row, Change

\* A change applied again changes nothing.
LEMMA ProjectedAgain ==
    ASSUME NEW table \in Table, NEW change \in Change
    PROVE  Projected(Projected(table, change), change) = Projected(table, change)
<1> DEFINE i == change.installation
           after == Projected(table, change)
<1>0. i \in Installation /\ change.kind \in {"onboard", "repos", "uninstall"}
    BY DEF Change
<1>1. CASE ~Applicable(table, change)
    BY <1>1 DEF Projected
<1>2. CASE Applicable(table, change) /\ change.kind = "uninstall"
    <2>1. after[i].state = "uninstalled"
        BY <1>0, <1>2 DEF Projected, Table, Row
    <2> QED
        BY <1>2, <2>1 DEF Projected, Applicable
<1>3. CASE Applicable(table, change) /\ change.kind = "onboard"
    <2>1. after[i].state = "active"
        BY <1>0, <1>3 DEF Projected, Table
    <2> QED
        BY <1>3, <2>1 DEF Projected, Applicable
<1>4. CASE Applicable(table, change) /\ change.kind = "repos"
    <2> DEFINE row == [state |-> "active", selected |-> change.selected]
    <2>1. after = [table EXCEPT ![i] = row]
        BY <1>4 DEF Projected
    <2>2. Projected(after, change) \in {after, [after EXCEPT ![i] = row]}
        BY <1>4 DEF Projected
    <2>3. [after EXCEPT ![i] = row] = after
        BY <1>0, <2>1 DEF Table
    <2> QED
        BY <2>2, <2>3
<1> QED
    BY <1>0, <1>1, <1>2, <1>3, <1>4

LEMMA LeadsNowhere ==
    ASSUME NEW table \in Table, NEW outcome \in Table, Leads(table, <<>>, outcome)
    PROVE  outcome = table
    BY DEF Leads

\* A change that is sent is applied last.
LEMMA LeadsFurther ==
    ASSUME NEW table \in Table, NEW queue \in Seq(Change), NEW change \in Change,
           NEW outcome \in Table, Leads(table, queue, outcome)
    PROVE  Leads(table, Append(queue, change), Projected(outcome, change))
<1> DEFINE more == Append(queue, change)
           last == Projected(outcome, change)
<1>1. PICK f \in [0..Len(queue) -> Table] :
            /\ f[0] = table
            /\ \A n \in 1..Len(queue) : f[n] = Projected(f[n - 1], queue[n])
            /\ f[Len(queue)] = outcome
    BY DEF Leads
<1>2. /\ Len(queue) \in Nat
      /\ Len(more) = Len(queue) + 1
      /\ more[Len(more)] = change
      /\ \A n \in 1..Len(queue) : more[n] = queue[n]
    OBVIOUS
<1>3. last \in Table
    BY ProjectedTyped
<1> DEFINE g == [n \in 0..Len(more) |-> IF n = Len(more) THEN last ELSE f[n]]
<1>4. g \in [0..Len(more) -> Table]
    BY <1>2, <1>3
<1>5. g[0] = table /\ g[Len(more)] = last
    BY <1>1, <1>2
<1>6. ASSUME NEW n \in 1..Len(more) PROVE g[n] = Projected(g[n - 1], more[n])
    <2>1. CASE n = Len(more)
        <3>1. n - 1 = Len(queue) /\ g[n - 1] = outcome
            BY <1>1, <1>2, <2>1
        <3> QED
            BY <1>2, <1>5, <2>1, <3>1
    <2>2. CASE n # Len(more)
        <3>1. n \in 1..Len(queue) /\ g[n] = f[n] /\ g[n - 1] = f[n - 1] /\ more[n] = queue[n]
            BY <1>2, <2>2
        <3> QED
            BY <1>1, <3>1
    <2> QED
        BY <2>1, <2>2
<1> HIDE DEF g
<1> QED
    BY <1>4, <1>5, <1>6 DEF Leads

\* A change that was applied is gone, ...
LEMMA LeadsFromNext ==
    ASSUME NEW table \in Table, NEW queue \in Seq(Change), queue # <<>>,
           NEW outcome \in Table, Leads(table, queue, outcome)
    PROVE  Leads(Projected(table, Head(queue)), Tail(queue), outcome)
<1> DEFINE rest == Tail(queue)
<1>1. PICK f \in [0..Len(queue) -> Table] :
            /\ f[0] = table
            /\ \A n \in 1..Len(queue) : f[n] = Projected(f[n - 1], queue[n])
            /\ f[Len(queue)] = outcome
    BY DEF Leads
<1>2. /\ Len(queue) \in Nat \ {0}
      /\ Head(queue) = queue[1]
      /\ Len(rest) = Len(queue) - 1
      /\ \A n \in 1..Len(rest) : rest[n] = queue[n + 1]
    OBVIOUS
<1> DEFINE g == [n \in 0..Len(rest) |-> f[n + 1]]
<1>3. g \in [0..Len(rest) -> Table]
    BY <1>2
<1>4. f[1] = Projected(f[0], queue[1])
    <2>1. 1 \in 1..Len(queue) /\ 1 - 1 = 0
        BY <1>2
    <2> QED
        BY <1>1, <2>1
<1>5. g[0] = Projected(table, Head(queue)) /\ g[Len(rest)] = outcome
    BY <1>1, <1>2, <1>4
<1>6. ASSUME NEW n \in 1..Len(rest) PROVE g[n] = Projected(g[n - 1], rest[n])
    <2>1. n + 1 \in 1..Len(queue) /\ (n + 1) - 1 = n /\ g[n] = f[n + 1] /\ g[n - 1] = f[n]
        BY <1>2
    <2> QED
        BY <1>1, <1>2, <2>1
<1> HIDE DEF g
<1> QED
    BY <1>3, <1>5, <1>6 DEF Leads

\* ... or is applied again, which comes to the same.
LEMMA LeadsAgain ==
    ASSUME NEW table \in Table, NEW queue \in Seq(Change), queue # <<>>,
           NEW outcome \in Table, Leads(table, queue, outcome)
    PROVE  Leads(Projected(table, Head(queue)), queue, outcome)
<1>1. PICK f \in [0..Len(queue) -> Table] :
            /\ f[0] = table
            /\ \A n \in 1..Len(queue) : f[n] = Projected(f[n - 1], queue[n])
            /\ f[Len(queue)] = outcome
    BY DEF Leads
<1>2. Len(queue) \in Nat \ {0} /\ Head(queue) = queue[1] /\ queue[1] \in Change
    OBVIOUS
<1> DEFINE first == Projected(table, Head(queue))
           g == [n \in 0..Len(queue) |-> IF n = 0 THEN first ELSE f[n]]
<1>3. first \in Table
    BY <1>2, ProjectedTyped
<1>4. g \in [0..Len(queue) -> Table] /\ g[0] = first /\ g[Len(queue)] = outcome
    BY <1>1, <1>2, <1>3
<1>5. ASSUME NEW n \in 1..Len(queue) PROVE g[n] = Projected(g[n - 1], queue[n])
    <2>1. CASE n = 1
        <3>1. g[1] = f[1] /\ n - 1 = 0 /\ f[1] = first
            BY <1>1, <1>2, <2>1
        <3> QED
            BY <1>2, <1>4, <2>1, <3>1, ProjectedAgain
    <2>2. CASE n # 1
        <3>1. g[n] = f[n] /\ g[n - 1] = f[n - 1]
            BY <1>2, <2>2
        <3> QED
            BY <1>1, <3>1
    <2> QED
        BY <2>1, <2>2
<1> HIDE DEF g
<1> QED
    BY <1>4, <1>5 DEF Leads
-----------------------------------------------------------------------------
(* The doors, the account and GitHub *)

LEMMA InitBase == Init => BaseInv
<1> SUFFICES ASSUME Init PROVE BaseInv
    OBVIOUS
<1>1. 1 \in Installation /\ 0 \notin Installation
    BY AvailabilityBounds DEF Installation
<1>2. NoAccount \in Account /\ Unknown \in Observation
    BY DEF NoAccount, Account, Unknown, Observation
<1>3. Idle \in [step : Step, caller : Installation \cup {0}, account : Account]
    BY <1>2 DEF Idle, Step
<1>4. \A i \in Installation : call[i] \in Call /\ rows[i] \in Row
    BY DEF Init, Call, Row
<1>5. changes \in Seq(Change)
    BY DEF Init
<1>6. TypeOK
    BY <1>1, <1>2, <1>3, <1>4, <1>5 DEF Init, TypeOK
<1>7. RunInv /\ SlotInv /\ CallInv /\ TombstoneInv /\ ReplacementInv
    BY DEF Init, RunInv, SlotInv, CallInv, TombstoneInv, ReplacementInv, NoAccount, Idle
<1> QED
    BY <1>6, <1>7 DEF BaseInv

\* A message may come at any time.
LEMMA ReceiveBase ==
    ASSUME BaseInv, NEW kind \in MessageKind, NEW i \in Installation, Receive(kind, i)
    PROVE  BaseInv'
<1>1. TypeOK'
    BY DEF BaseInv, TypeOK, RunInv, SlotInv, CallInv, Receive, Installation, MessageKind, owner, status, github
<1>2. RunInv'
    BY DEF BaseInv, TypeOK, RunInv, Receive, Installation, MessageKind, owner, status, github
<1>3. SlotInv'
    BY DEF BaseInv, TypeOK, SlotInv, Receive, Installation, MessageKind, owner, status, github
<1>4. CallInv'
    BY DEF BaseInv, TypeOK, CallInv, RunInv, Receive, Installation, MessageKind, owner, status, github
<1>5. TombstoneInv'
    BY DEF BaseInv, TypeOK, TombstoneInv, CallInv, RunInv, Receive, Installation, MessageKind, owner, status, github
<1>6. ReplacementInv'
    BY DEF BaseInv, TypeOK, ReplacementInv, Vacant, RunInv, Receive, Installation, MessageKind, owner, status, github
<1> QED
    BY <1>1, <1>2, <1>3, <1>4, <1>5, <1>6 DEF BaseInv

\* Behind a tombstone no onboarding reaches the account.
LEMMA DoorOnboardBase ==
    ASSUME BaseInv, NEW i \in Installation, InstallationOnboard(i)
    PROVE  BaseInv'
<1>1. TypeOK'
    BY DEF BaseInv, TypeOK, RunInv, SlotInv, CallInv, InstallationOnboard, Take, Call, owner, status, github
<1>2. RunInv'
    BY DEF BaseInv, TypeOK, RunInv, InstallationOnboard, Take, Call, owner, status, github
<1>3. SlotInv'
    BY DEF BaseInv, TypeOK, SlotInv, InstallationOnboard, Take, Call, owner, status, github
<1>4. CallInv'
    BY DEF BaseInv, TypeOK, CallInv, RunInv, InstallationOnboard, Take, Call, owner, status, github
<1>5. TombstoneInv'
    BY DEF BaseInv, TypeOK, TombstoneInv, CallInv, RunInv, InstallationOnboard, Take, Call, owner, status, github
<1>6. ReplacementInv'
    BY DEF BaseInv, TypeOK, ReplacementInv, Vacant, RunInv, InstallationOnboard, Take, Call, owner, status, github
<1> QED
    BY <1>1, <1>2, <1>3, <1>4, <1>5, <1>6 DEF BaseInv

LEMMA DoorReposBase ==
    ASSUME BaseInv, NEW i \in Installation, InstallationReposChanged(i)
    PROVE  BaseInv'
<1>1. TypeOK'
    BY DEF BaseInv, TypeOK, RunInv, SlotInv, CallInv, InstallationReposChanged, Take, Call, owner, status, github
<1>2. RunInv'
    BY DEF BaseInv, TypeOK, RunInv, InstallationReposChanged, Take, Call, owner, status, github
<1>3. SlotInv'
    BY DEF BaseInv, TypeOK, SlotInv, InstallationReposChanged, Take, Call, owner, status, github
<1>4. CallInv'
    BY DEF BaseInv, TypeOK, CallInv, RunInv, InstallationReposChanged, Take, Call, owner, status, github
<1>5. TombstoneInv'
    BY DEF BaseInv, TypeOK, TombstoneInv, CallInv, RunInv, InstallationReposChanged, Take, Call, owner, status, github
<1>6. ReplacementInv'
    BY DEF BaseInv, TypeOK, ReplacementInv, Vacant, RunInv, InstallationReposChanged, Take, Call, owner, status, github
<1> QED
    BY <1>1, <1>2, <1>3, <1>4, <1>5, <1>6 DEF BaseInv

\* The account never had an installation that is not known; one that has a tombstone
\* already was handled.
LEMMA DoorUninstallBase ==
    ASSUME BaseInv, NEW i \in Installation, InstallationUninstall(i)
    PROVE  BaseInv'
<1>1. TypeOK'
    BY DEF BaseInv, TypeOK, RunInv, SlotInv, CallInv, InstallationUninstall, Take, Tombstone, Call, owner, status, github
<1>2. RunInv'
    BY DEF BaseInv, TypeOK, RunInv, InstallationUninstall, Take, Tombstone, Call, owner, status, github
<1>3. SlotInv'
    BY DEF BaseInv, TypeOK, SlotInv, InstallationUninstall, Take, Tombstone, Call, owner, status, github
<1>4. CallInv'
    BY DEF BaseInv, TypeOK, CallInv, RunInv, InstallationUninstall, Take, Tombstone, Call, owner, status, github
<1>5. TombstoneInv'
    BY DEF BaseInv, TypeOK, TombstoneInv, CallInv, RunInv, InstallationUninstall, Take, Tombstone, Call, owner, status, github
<1>6. ReplacementInv'
    BY DEF BaseInv, TypeOK, ReplacementInv, Vacant, RunInv, InstallationUninstall, Take, Tombstone, Call, owner, status, github
<1> QED
    BY <1>1, <1>2, <1>3, <1>4, <1>5, <1>6 DEF BaseInv

\* What every step of the account's handlers leaves alone and records.
OwnFrame ==
    /\ handled' = handled \cup
          {i \in Installation : call[i] = "uninstall" /\ call'[i] = "none"}
    /\ UNCHANGED <<messages, known, uninstalled, received, rows, github>>

Run == [step : Step, caller : Installation \cup {0}, account : Account]

LEMMA OwnTyped ==
    ASSUME BaseInv, OwnFrame, call' \in [Installation -> Call], established' \in BOOLEAN,
           account' \in Account, observation' \in Observation, retired' \subseteq Installation,
           refresh_scheduled' \in BOOLEAN, rechecks' \in {0, 1}, run' \in Run,
           changes' \in Seq(Change), faults' \in Nat
    PROVE  TypeOK'
<1>1. {i \in Installation : call[i] = "uninstall"} \subseteq uninstalled
    BY DEF BaseInv, CallInv
<1>2. handled' \subseteq uninstalled'
    BY <1>1 DEF BaseInv, TypeOK, OwnFrame
<1> QED
    BY <1>2 DEF BaseInv, TypeOK, OwnFrame, Run, github

\* A step that answers nobody.
LEMMA CallKept ==
    ASSUME BaseInv, OwnFrame, UNCHANGED call,
           account'.installation = account.installation,
           run'.caller # 0 => call[run'.caller] \in {"onboard", "refresh"}
    PROVE  CallInv' /\ TombstoneInv'
<1>1. handled' = handled
    BY DEF OwnFrame
<1> QED
    BY <1>1 DEF BaseInv, CallInv, TombstoneInv, OwnFrame

\* A step that answers an installation, which after its uninstallation is not
\* the account's.
LEMMA CallAnswered ==
    ASSUME BaseInv, OwnFrame, NEW j \in Installation \cup {0}, Answer(j),
           run'.caller = 0, account'.installation \in known \cup {0},
           j \in uninstalled => account'.installation # j,
           \/ account'.installation \in {0, account.installation}
           \/ account'.installation \notin uninstalled
    PROVE  /\ call' \in [Installation -> Call]
           /\ CallInv'
           /\ TombstoneInv'
<1>1. call \in [Installation -> Call] /\ uninstalled \subseteq Installation
      /\ handled \subseteq uninstalled /\ 0 \notin Installation
    BY DEF BaseInv, TypeOK, Installation
<1>2. \A i \in Installation : call'[i] = IF i = j THEN "none" ELSE call[i]
    BY DEF Answer
<1>3. call' \in [Installation -> Call]
    <2>1. "none" \in Call
        BY DEF Call
    <2> QED
        BY <1>1, <2>1 DEF Answer
<1>4. CallInv'
    <2>1. known' = known /\ uninstalled' = uninstalled
        BY DEF OwnFrame
    <2> QED
        BY <1>2, <2>1 DEF BaseInv, CallInv
<1>5. TombstoneInv'
    <2>1. uninstalled' = uninstalled
        BY DEF OwnFrame
    <2>2. \A i \in handled' : i \in Installation /\ call'[i] = "none"
        <3>1. \A i \in handled : i \in Installation /\ call[i] = "none"
            BY <1>1 DEF BaseInv, TombstoneInv
        <3> QED
            BY <1>2, <3>1 DEF OwnFrame
    <2>3. ASSUME NEW i \in uninstalled
          PROVE  call'[i] \in {"none", "uninstall"} /\ (call'[i] = "none" => account'.installation # i)
        <3>1. i \in Installation /\ i # 0 /\ call[i] \in {"none", "uninstall"}
              /\ (call[i] = "none" => account.installation # i)
            BY <1>1 DEF BaseInv, TombstoneInv
        <3> QED
            BY <1>2, <3>1
    <2> QED
        BY <2>1, <2>2, <2>3 DEF TombstoneInv
<1> QED
    BY <1>3, <1>4, <1>5

\* What the steps below use of the state before them.
LEMMA Before ==
    ASSUME BaseInv
    PROVE  /\ run \in Run /\ account \in Account /\ observation \in Observation
           /\ call \in [Installation -> Call] /\ established \in BOOLEAN
           /\ retired \subseteq Installation /\ refresh_scheduled \in BOOLEAN
           /\ rechecks \in {0, 1} /\ changes \in Seq(Change) /\ faults \in Nat
           /\ 0 \notin Installation /\ NoAccount \in Account /\ Idle \in Run
           /\ NoAccount.installation = 0
           /\ Idle.step = "idle" /\ Idle.caller = 0 /\ Idle.account.installation = 0
<1>1. NoAccount \in Account /\ NoAccount.installation = 0
    BY DEF NoAccount, Account
<1>2. Idle \in Run
    BY <1>1 DEF Idle, Run, Step
<1> QED
    BY <1>1, <1>2 DEF BaseInv, TypeOK, Run, Installation, Idle

LEMMA ProjectTyped ==
    ASSUME changes \in Seq(Change), NEW i \in Installation, NEW selected \in SUBSET Repo,
           NEW kind \in {"onboard", "repos", "uninstall"}
    PROVE  Project(kind, i, selected) \in Seq(Change)
<1>1. [kind |-> kind, installation |-> i, selected |-> selected] \in Change
    BY DEF Change
<1> QED
    BY <1>1 DEF Project

\* A handler that begins.
LEMMA StartBase ==
    ASSUME BaseInv, OwnFrame, run.step = "idle", NEW i \in Installation \cup {0},
           NEW step \in {"verify", "observe"}, NEW candidate \in Account,
           Running(step, i, candidate), candidate.installation # 0,
           i # 0 => candidate.installation = i /\ call[i] \in {"onboard", "refresh"},
           i = 0 => candidate = account,
           step = "observe" => candidate = account,
           step = "verify" => i \notin retired \cup {0, account.installation}
                                /\ candidate.selected = {},
           UNCHANGED <<status, retired, changes, call, faults>>,
           refresh_scheduled' \in BOOLEAN, rechecks' \in {0, 1}, SlotInv'
    PROVE  BaseInv'
<1>1. /\ run'.step = step /\ run'.caller = i /\ run'.account = candidate
      /\ account' = account /\ retired' = retired
    BY DEF Running, status
<1>2. step \in Step
    BY DEF Step
<1>3. run' \in Run
    BY <1>2 DEF Running, Run
<1>4. TypeOK'
    BY <1>3, Before, OwnTyped DEF status
<1>5. CallInv' /\ TombstoneInv'
    BY <1>1, CallKept
<1>6. RunInv'
    BY <1>1 DEF BaseInv, RunInv
<1>7. ReplacementInv'
    BY <1>1 DEF ReplacementInv, Vacant
<1> QED
    BY <1>4, <1>5, <1>6, <1>7 DEF BaseInv

\* A handler that ends without a new status.
LEMMA EndBase ==
    ASSUME BaseInv, OwnFrame, run.step \in {"verify", "replace", "adopt"}, End,
           retired' \in {retired, retired \cup {run.caller}}, faults' \in Nat,
           UNCHANGED <<status, changes, refresh_scheduled, rechecks>>
    PROVE  BaseInv'
<1>1. run' = Idle /\ Answer(run.caller) /\ account' = account
    BY DEF End, status
<1>2. run.caller \in Installation
    BY Before DEF BaseInv, RunInv, Run
<1>3. run.caller \notin uninstalled
    BY <1>2 DEF BaseInv, RunInv, CallInv, TombstoneInv
<1>4. account.installation \in known \cup {0}
    BY DEF BaseInv, CallInv
<1>5. call' \in [Installation -> Call] /\ CallInv' /\ TombstoneInv'
    BY <1>1, <1>2, <1>3, <1>4, Before, CallAnswered
<1>6. TypeOK'
    BY <1>1, <1>2, <1>5, Before, OwnTyped DEF status
<1>7. RunInv' /\ ReplacementInv' /\ SlotInv'
    BY <1>1, Before DEF BaseInv, RunInv, ReplacementInv, SlotInv
<1> QED
    BY <1>5, <1>6, <1>7 DEF BaseInv

\* A handler that goes on.
LEMMA ProceedBase ==
    ASSUME BaseInv, OwnFrame, NEW step \in Step, Proceed(step), step # "idle",
           run.step # "idle", retired' \subseteq Installation, changes' \in Seq(Change),
           UNCHANGED <<status, refresh_scheduled, rechecks, call, faults>>,
           step \in {"verify", "replace", "adopt"} => run.caller # 0,
           step = "replace" => account.installation # 0, ReplacementInv'
    PROVE  BaseInv'
<1>1. /\ run'.step = step /\ run'.caller = run.caller /\ run'.account = run.account
      /\ run' \in Run /\ account' = account
    BY Before DEF Proceed, Run, status
<1>2. TypeOK'
    BY <1>1, Before, OwnTyped DEF status
<1>3. CallInv' /\ TombstoneInv'
    BY <1>1, CallKept DEF BaseInv, CallInv
<1>4. RunInv' /\ SlotInv'
    BY <1>1 DEF BaseInv, RunInv, SlotInv
<1> QED
    BY <1>2, <1>3, <1>4 DEF BaseInv

\* A call that is answered at once.
LEMMA AnswerBase ==
    ASSUME BaseInv, OwnFrame, run.step = "idle", NEW j \in Installation, Answer(j),
           retired' \in {retired, retired \cup {j}}, changes' \in Seq(Change),
           UNCHANGED <<established, refresh_scheduled, rechecks, run, faults>>,
           \/ UNCHANGED <<account, observation>>
           \/ RetainNone,
           j \in uninstalled => account'.installation # j
    PROVE  BaseInv'
<1>1. run = Idle /\ run' = Idle
    BY DEF BaseInv, RunInv
<1>2. Unavailable \in Observation
    BY DEF Observation
<1>3. account' \in {account, NoAccount} /\ observation' \in Observation
    BY <1>2, Before DEF RetainNone
<1>4. account'.installation \in known \cup {0}
    BY <1>3, Before DEF BaseInv, CallInv
<1>5. account'.installation \in {0, account.installation}
    BY <1>3, Before
<1>6. call' \in [Installation -> Call] /\ CallInv' /\ TombstoneInv'
    BY <1>1, <1>4, <1>5, Before, CallAnswered
<1>7. TypeOK'
    BY <1>1, <1>3, <1>6, Before, OwnTyped
<1>8. RunInv' /\ ReplacementInv' /\ SlotInv'
    BY <1>1, <1>3, Before DEF BaseInv, RunInv, ReplacementInv, SlotInv
<1> QED
    BY <1>6, <1>7, <1>8 DEF BaseInv

LEMMA OnboardBase ==
    ASSUME BaseInv, NEW j \in Installation, AccountOnboard(j), OwnFrame
    PROVE  BaseInv'
<1>1. /\ call[j] = "onboard" /\ run.step = "idle"
      /\ UNCHANGED <<status, retired, refresh_scheduled, rechecks, changes, faults>>
    BY DEF AccountOnboard
<1>2. j \notin uninstalled /\ j # 0
    BY <1>1, Before DEF BaseInv, TombstoneInv
<1>3. CASE j \in retired
    BY <1>1, <1>2, <1>3, Before, AnswerBase DEF AccountOnboard, status
<1>4. CASE j \notin retired /\ account.installation = j
    <2>1. Running("observe", j, account) /\ UNCHANGED call
        BY <1>4 DEF AccountOnboard
    <2>2. SlotInv'
        BY <1>1 DEF BaseInv, SlotInv
    <2> QED
        BY <1>1, <1>2, <1>4, <2>1, <2>2, Before, StartBase
<1>5. CASE j \notin retired /\ account.installation # j
    <2> DEFINE candidate == [installation |-> j, selected |-> {}]
    <2>1. Running("verify", j, candidate) /\ UNCHANGED call
        BY <1>5 DEF AccountOnboard
    <2>2. SlotInv'
        BY <1>1 DEF BaseInv, SlotInv
    <2>3. candidate \in Account /\ candidate.installation = j /\ candidate.selected = {}
        BY DEF Account
    <2> HIDE DEF candidate
    <2> QED
        BY <1>1, <1>2, <1>5, <2>1, <2>2, <2>3, Before, StartBase
<1> QED
    BY <1>3, <1>4, <1>5

LEMMA RefreshBase ==
    ASSUME BaseInv, NEW j \in Installation, Refresh(j), OwnFrame
    PROVE  BaseInv'
<1>1. /\ call[j] = "refresh" /\ run.step = "idle"
      /\ UNCHANGED <<status, retired, refresh_scheduled, rechecks, changes, faults>>
    BY DEF Refresh
<1>2. j \notin uninstalled /\ j # 0
    BY <1>1, Before DEF BaseInv, TombstoneInv
<1>3. SlotInv'
    BY <1>1 DEF BaseInv, SlotInv
<1>4. CASE account.installation = j
    BY <1>1, <1>2, <1>3, <1>4, Before, StartBase DEF Refresh
<1>5. CASE account.installation # j
    BY <1>1, <1>2, <1>5, Before, AnswerBase DEF Refresh, status
<1> QED
    BY <1>4, <1>5

\* The account has no installation whose uninstallation it answered.
LEMMA UninstallBase ==
    ASSUME BaseInv, NEW j \in Installation, AccountUninstall(j), OwnFrame
    PROVE  BaseInv'
<1>1. /\ call[j] = "uninstall" /\ run.step = "idle" /\ Answer(j)
      /\ retired' = retired \cup {j}
      /\ UNCHANGED <<refresh_scheduled, rechecks, run, faults>>
    BY DEF AccountUninstall
<1>2. CASE account.installation = j
    <2>1. changes' = Project("uninstall", j, {}) /\ RetainNone
        BY <1>2 DEF AccountUninstall
    <2>2. changes' \in Seq(Change)
        BY <2>1, Before, ProjectTyped
    <2>3. account'.installation # j /\ UNCHANGED established
        BY <2>1, Before DEF RetainNone
    <2> QED
        BY <1>1, <2>1, <2>2, <2>3, AnswerBase
<1>3. CASE account.installation # j
    <2>1. UNCHANGED <<status, changes>>
        BY <1>3 DEF AccountUninstall
    <2> QED
        BY <1>1, <1>3, <2>1, Before, AnswerBase DEF status
<1> QED
    BY <1>2, <1>3

LEMMA VerifyBase ==
    ASSUME BaseInv, Verify, OwnFrame
    PROVE  BaseInv'
<1>1. /\ run.step = "verify" /\ run.caller # 0
      /\ UNCHANGED <<status, refresh_scheduled, rechecks, changes>>
    BY DEF Verify, BaseInv, RunInv
<1>2. CASE Proceed(IF account.installation # 0 THEN "replace" ELSE "adopt")
           /\ UNCHANGED <<call, retired, faults>>
    <2> DEFINE step == IF account.installation # 0 THEN "replace" ELSE "adopt"
    <2>1. step \in Step /\ step \in {"replace", "adopt"}
        BY DEF Step
    <2>2. /\ run'.step = step /\ run'.account = run.account
          /\ account' = account /\ retired' = retired
        BY <1>1, <1>2, Before DEF Proceed, Run, status
    <2>3. ReplacementInv'
        BY <1>1, <2>2 DEF BaseInv, ReplacementInv, Vacant
    <2> QED
        BY <1>1, <1>2, <2>1, <2>3, Before, ProceedBase
<1>3. CASE End /\ retired' \in {retired, retired \cup {run.caller}} /\ faults' \in Nat
    BY <1>1, <1>3, EndBase
<1> QED
    BY <1>2, <1>3, Before DEF Verify, Disturbance

LEMMA ReplaceBase ==
    ASSUME BaseInv, Replace, OwnFrame
    PROVE  BaseInv'
<1>1. /\ run.step = "replace" /\ run.caller # 0 /\ account.installation # 0
      /\ UNCHANGED <<status, refresh_scheduled, rechecks>>
    BY DEF Replace, BaseInv, RunInv
<1>2. CASE /\ changes' = Project("uninstall", account.installation, {})
           /\ retired' = retired \cup {account.installation}
           /\ Proceed("adopt")
           /\ UNCHANGED <<call, faults>>
    <2>1. account.installation \in Installation
        BY <1>1, Before DEF Account
    <2>2. changes' \in Seq(Change) /\ retired' \subseteq Installation
        BY <1>2, <2>1, Before, ProjectTyped
    <2>3. "adopt" \in Step
        BY DEF Step
    <2>4. run'.step = "adopt" /\ run'.account = run.account /\ account' = account
        BY <1>1, <1>2, Before DEF Proceed, Run, status
    <2>5. ReplacementInv'
        BY <1>1, <1>2, <2>4 DEF BaseInv, ReplacementInv, Vacant
    <2> QED
        BY <1>1, <1>2, <2>2, <2>3, <2>5, ProceedBase
<1>3. CASE End /\ UNCHANGED <<changes, retired>> /\ faults' \in Nat
    BY <1>1, <1>3, EndBase
<1> QED
    BY <1>2, <1>3, Before DEF Replace, Disturbance

LEMMA AdoptBase ==
    ASSUME BaseInv, Adopt, OwnFrame
    PROVE  BaseInv'
<1>1. /\ run.step = "adopt" /\ run.caller # 0
      /\ UNCHANGED <<status, retired, refresh_scheduled, rechecks>>
    BY DEF Adopt, BaseInv, RunInv
<1>2. CASE changes' = Project("onboard", run.caller, {}) /\ Proceed("observe")
           /\ UNCHANGED <<call, faults>>
    <2>1. run.caller \in Installation
        BY <1>1, Before DEF Run
    <2>2. changes' \in Seq(Change)
        BY <1>2, <2>1, Before, ProjectTyped
    <2>3. "observe" \in Step
        BY DEF Step
    <2>4. /\ run'.step = "observe" /\ run'.account = run.account
          /\ account' = account /\ retired' = retired
        BY <1>1, <1>2, Before DEF Proceed, Run, status
    <2>5. ReplacementInv'
        BY <1>1, <2>4 DEF BaseInv, ReplacementInv, Vacant
    <2> QED
        BY <1>1, <1>2, <2>2, <2>3, <2>5, Before, ProceedBase
<1>3. CASE End /\ UNCHANGED changes /\ faults' \in Nat
    BY <1>1, <1>3, EndBase
<1> QED
    BY <1>2, <1>3, Before DEF Adopt, Disturbance

\* What was read is retained for the installation that was asked for.
LEMMA RetainBase ==
    ASSUME BaseInv, OwnFrame, NEW reading \in Observation,
           run.step \in {"observe", "list"}, Retain(reading), UNCHANGED retired, faults' \in Nat
    PROVE  BaseInv'
<1>1. /\ run' = Idle /\ Answer(run.caller)
      /\ established' = TRUE /\ observation' = reading /\ retired' = retired
      /\ account' = [run.account EXCEPT !.selected = reading.repos]
    BY DEF Retain, End
<1>2. reading.repos \in SUBSET Repo
    BY DEF Observation, Unavailable, Unknown
<1>3. /\ account' \in Account
      /\ account'.installation = run.account.installation
      /\ run.account.installation \in Installation
    BY <1>1, <1>2, Before DEF Run, Account, BaseInv, RunInv
<1>4. changes' \in Seq(Change)
    BY <1>2, <1>3, Before, ProjectTyped DEF Retain
<1>5. /\ refresh_scheduled' \in BOOLEAN /\ rechecks' \in {0, 1} /\ SlotInv'
    <2>1. CASE RecheckDue(reading)
        <3>1. reading.kind # "available" /\ ~refresh_scheduled /\ rechecks = 0
            BY <2>1 DEF RecheckDue, BaseInv, SlotInv
        <3>2. refresh_scheduled' = TRUE
            BY <3>1 DEF Retain, RecheckDue
        <3>3. rechecks' = rechecks + 1
            BY <3>1 DEF Retain, RecheckDue
        <3>4. rechecks' = 1
            BY <3>1, <3>3
        <3> QED
            BY <3>2, <3>4 DEF SlotInv
    <2>2. CASE ~RecheckDue(reading)
        <3>1. refresh_scheduled' = refresh_scheduled /\ rechecks' = rechecks
            BY <2>2, Before DEF Retain
        <3> QED
            BY <3>1, Before DEF BaseInv, SlotInv
    <2> QED
        BY <2>1, <2>2
<1>6. call' \in [Installation -> Call] /\ CallInv' /\ TombstoneInv'
    <2>1. CASE run.caller # 0
        <3>1. run.caller \in Installation /\ run.account.installation = run.caller
            BY <2>1, Before DEF Run, BaseInv, RunInv
        <3>2. run.caller \in known /\ run.caller \notin uninstalled
            BY <2>1, <3>1 DEF BaseInv, CallInv, TombstoneInv
        <3> QED
            BY <1>1, <1>3, <3>1, <3>2, Before, CallAnswered
    <2>2. CASE run.caller = 0
        <3>1. run.account.installation = account.installation
            BY <1>3, <2>2, Before DEF BaseInv, RunInv
        <3>2. account.installation \in known
            BY <1>3, <3>1, Before DEF BaseInv, CallInv
        <3>3. 0 \notin uninstalled
            BY Before DEF BaseInv, TypeOK
        <3> QED
            BY <1>1, <1>3, <2>2, <3>1, <3>2, <3>3, Before, CallAnswered
    <2> QED
        BY <2>1, <2>2
<1>7. TypeOK'
    BY <1>1, <1>3, <1>4, <1>5, <1>6, Before, OwnTyped
<1>8. RunInv' /\ ReplacementInv'
    BY <1>1, <1>3, Before DEF RunInv, ReplacementInv
<1> QED
    BY <1>5, <1>6, <1>7, <1>8 DEF BaseInv

LEMMA ReadBase ==
    ASSUME BaseInv, Observe \/ List, OwnFrame
    PROVE  BaseInv'
<1>1. Unavailable \in Observation /\ Unknown \in Observation
    BY DEF Observation
<1>2. Available(granted) \in Observation
    BY DEF BaseInv, TypeOK, Observation, Available
<1>3. run.step \in {"observe", "list"} /\ UNCHANGED retired
    BY DEF Observe, List
<1>4. faults \in Nat /\ (Disturbance => faults' \in Nat)
    BY DEF BaseInv, TypeOK, Disturbance
<1>5. \/ \E reading \in Observation : Retain(reading) /\ (UNCHANGED faults \/ Disturbance)
      \/ run.step = "observe" /\ Proceed("list")
           /\ UNCHANGED <<status, refresh_scheduled, rechecks, changes, call, faults>>
    BY <1>1, <1>2 DEF Observe, List
<1>6. CASE run.step = "observe" /\ Proceed("list")
           /\ UNCHANGED <<status, refresh_scheduled, rechecks, changes, call, faults>>
    <2>1. "list" \in Step
        BY DEF Step
    <2>2. /\ run'.step = "list" /\ run'.account = run.account
          /\ account' = account /\ retired' = retired
        BY <1>3, <1>6, Before DEF Proceed, Run, status
    <2>3. ReplacementInv'
        BY <1>6, <2>2 DEF BaseInv, ReplacementInv, Vacant
    <2> QED
        BY <1>3, <1>6, <2>1, <2>3, Before, ProceedBase
<1> QED
    BY <1>3, <1>4, <1>5, <1>6, RetainBase

\* A status without an account stays so, whoever reads it again.
LEMMA RereadBase ==
    ASSUME BaseInv, OwnFrame, run.step = "idle", Reread,
           refresh_scheduled' \in BOOLEAN, rechecks' \in {0, 1}, SlotInv'
    PROVE  BaseInv'
<1>1. UNCHANGED <<retired, changes, call, faults>>
    BY DEF Reread
<1>2. CASE account # NoAccount /\ Running("observe", 0, account) /\ UNCHANGED status
    <2>1. account.installation # 0
        BY <1>2 DEF BaseInv, RunInv
    <2> QED
        BY <1>1, <1>2, <2>1, Before, StartBase
<1>3. CASE account = NoAccount /\ RetainNone /\ UNCHANGED run
    <2>1. Unavailable \in Observation
        BY DEF Observation
    <2>2. /\ account' = account /\ observation' = Unavailable /\ established' = established
          /\ run = Idle /\ run' = Idle
        BY <1>3 DEF RetainNone, BaseInv, RunInv
    <2>3. TypeOK'
        BY <1>1, <2>1, <2>2, Before, OwnTyped
    <2>4. CallInv' /\ TombstoneInv'
        BY <1>1, <2>2, Before, CallKept
    <2>5. RunInv' /\ ReplacementInv'
        BY <1>1, <2>2, Before DEF BaseInv, RunInv, ReplacementInv
    <2> QED
        BY <2>3, <2>4, <2>5 DEF BaseInv
<1> QED
    BY <1>2, <1>3 DEF Reread

LEMMA OwnBase ==
    ASSUME BaseInv, Own
    PROVE  BaseInv'
<1>1. OwnFrame
    BY DEF Own, OwnFrame
<1>2. CASE Recheck
    <2>1. /\ rechecks > 0 /\ run.step = "idle" /\ rechecks' = rechecks - 1
          /\ refresh_scheduled' = FALSE /\ Reread
        BY <1>2 DEF Recheck, SlotFreed
    <2>2. rechecks' = 0
        BY <2>1, Before
    <2>3. SlotInv'
        BY <2>1, <2>2 DEF SlotInv
    <2> QED
        BY <1>1, <2>1, <2>2, <2>3, RereadBase
<1> QED
    BY <1>1, <1>2, OnboardBase, RefreshBase, UninstallBase, VerifyBase, ReplaceBase,
       AdoptBase, ReadBase DEF Own

LEMMA EvidenceBase ==
    ASSUME BaseInv, Evidence
    PROVE  BaseInv'
<1>1. /\ run.step = "idle" /\ Reread /\ UNCHANGED <<rechecks, refresh_scheduled>>
      /\ UNCHANGED <<messages, known, uninstalled, received, rows, github, handled>>
    BY DEF Evidence, ObserveEvidence
<1>2. UNCHANGED call
    BY <1>1 DEF Reread
<1>3. OwnFrame
    BY <1>1, <1>2 DEF OwnFrame
<1>4. SlotInv'
    BY <1>1 DEF BaseInv, SlotInv
<1> QED
    BY <1>1, <1>3, <1>4, Before, RereadBase

\* SQL is what the projector makes of it, and nothing else is.
LEMMA ApplyBase ==
    ASSUME BaseInv, Apply
    PROVE  BaseInv'
<1>1. rows \in Table /\ changes \in Seq(Change) /\ changes # <<>> /\ faults \in Nat
    BY DEF BaseInv, TypeOK, Table, Apply
<1>2. Head(changes) \in Change /\ Tail(changes) \in Seq(Change)
    BY <1>1
<1>3. rows' \in Table /\ changes' \in Seq(Change) /\ faults' \in Nat
    BY <1>1, <1>2, ProjectedTyped DEF Apply, Disturbance
<1>4. UNCHANGED <<doors, status, retired, refresh_scheduled, rechecks, run, github, handled>>
    BY DEF Apply
<1>5. TypeOK'
    BY <1>3, <1>4 DEF BaseInv, TypeOK, Table, doors, status, github
<1> QED
    BY <1>4, <1>5 DEF BaseInv, RunInv, SlotInv, CallInv, TombstoneInv, ReplacementInv,
       Vacant, doors, status

LEMMA GithubBase ==
    ASSUME BaseInv, GithubChanges
    PROVE  BaseInv'
<1>1. UNCHANGED <<doors, owner, rows, faults, handled>>
    BY DEF GithubChanges
<1>2. /\ installed' \in {0, latest'} /\ latest' \in Installation
      /\ suspended' \in BOOLEAN /\ granted' \subseteq Repo /\ changed' \in Nat
    <2>1. /\ installed \in {0, latest} /\ latest \in Installation
          /\ suspended \in BOOLEAN /\ granted \subseteq Repo /\ changed \in Nat
        BY DEF BaseInv, TypeOK
    <2>2. changed' = changed + 1 /\ (latest < MaxInstallation => latest + 1 \in Installation)
        BY <2>1, AvailabilityBounds DEF GithubChanges, Installation
    <2>3. CASE installed # 0 /\ installed' = 0 /\ UNCHANGED <<latest, suspended, granted>>
        BY <2>1, <2>2, <2>3
    <2>4. CASE /\ latest < MaxInstallation /\ installed' = latest + 1 /\ latest' = latest + 1
               /\ suspended' = FALSE /\ UNCHANGED granted
        <3>1. installed' = latest' /\ latest' \in Installation
            BY <2>2, <2>4
        <3>2. changed' \in Nat /\ granted' \subseteq Repo
            BY <2>1, <2>2, <2>4
        <3>3. suspended' \in BOOLEAN
            BY <2>4
        <3> QED
            BY <3>1, <3>2, <3>3
    <2>5. CASE suspended' = ~suspended /\ UNCHANGED <<installed, latest, granted>>
        BY <2>1, <2>2, <2>5
    <2>6. CASE granted' \in SUBSET Repo \ {granted} /\ UNCHANGED <<installed, latest, suspended>>
        BY <2>1, <2>2, <2>6
    <2> QED
        BY <2>3, <2>4, <2>5, <2>6 DEF GithubChanges
<1>3. TypeOK'
    BY <1>1, <1>2 DEF BaseInv, TypeOK, doors, owner, status
<1> QED
    BY <1>1, <1>3 DEF BaseInv, RunInv, SlotInv, CallInv, TombstoneInv, ReplacementInv,
       Vacant, doors, owner, status

LEMMA StutterBase ==
    ASSUME BaseInv, UNCHANGED vars
    PROVE  BaseInv'
    BY DEF BaseInv, TypeOK, RunInv, SlotInv, CallInv, TombstoneInv, ReplacementInv, Vacant,
           vars, doors, owner, status, github

LEMMA BaseStep == BaseInv /\ [Next]_vars => BaseInv'
    BY ReceiveBase, DoorOnboardBase, DoorReposBase, DoorUninstallBase, OwnBase,
       EvidenceBase, ApplyBase, GithubBase, StutterBase DEF Next

-----------------------------------------------------------------------------
(* What SQL comes to *)

\* Without a change, the same rows agree.
LEMMA AgreeingStays ==
    ASSUME NEW table \in Table, Agreeing(table),
           Current'.installation = Current.installation,
           Current'.selected = Current.selected,
           \/ retired' = retired
           \/ \E i \in Installation : retired' = retired \cup {i} /\ i # Current.installation
    PROVE  Agreeing(table)'
<1>1. retired \subseteq retired'
    OBVIOUS
<1>2. {Current.installation} \ (retired \cup {0}) = {Current'.installation} \ (retired' \cup {0})
    OBVIOUS
<1> QED
    BY <1>1, <1>2 DEF Agreeing, ActiveIn

\* The account's installation is uninstalled or replaced.
LEMMA AgreeingUninstalled ==
    ASSUME NEW table \in Table, Agreeing(table), NEW i \in Installation,
           Current.installation = i, retired' = retired \cup {i},
           Current'.installation \in {0, i}, NEW after \in Table,
           after = Projected(table, [kind |-> "uninstall", installation |-> i, selected |-> {}])
    PROVE  Agreeing(after)'
<1>1. ActiveIn(table) \subseteq {i}
    BY DEF Agreeing
<1>2. /\ \A j \in Installation : j # i => after[j] = table[j]
      /\ after[i].state # "active"
    BY DEF Projected, Applicable, Table
<1>3. ActiveIn(after) = {}
    <2> SUFFICES ASSUME NEW j \in Installation, after[j].state = "active" PROVE FALSE
        BY DEF ActiveIn
    <2>1. j # i /\ table[j].state = "active"
        BY <1>2
    <2> QED
        BY <1>1, <2>1 DEF ActiveIn
<1>4. {Current'.installation} \ (retired' \cup {0}) = {}
    OBVIOUS
<1>5. \A j \in Installation : after[j].state # "absent" => j \in retired'
    BY <1>2 DEF Agreeing
<1> QED
    BY <1>3, <1>4, <1>5 DEF Agreeing, ActiveIn

\* A new installation is the account's one.
LEMMA AgreeingAdopted ==
    ASSUME NEW table \in Table, Agreeing(table), NEW i \in Installation, 0 \notin Installation,
           i \notin retired, Current.installation # i, Current.installation \in retired \cup {0},
           retired' = retired, Current'.installation = i, Current'.selected = {},
           NEW after \in Table,
           after = Projected(table, [kind |-> "onboard", installation |-> i, selected |-> {}])
    PROVE  Agreeing(after)'
<1> DEFINE change == [kind |-> "onboard", installation |-> i, selected |-> {}]
<1>1. ActiveIn(table) = {} /\ table[i].state = "absent"
    BY DEF Agreeing
<1>2. Applicable(table, change)
    BY <1>1 DEF Applicable
<1>3. /\ \A j \in Installation : j # i => after[j] = table[j]
      /\ after[i] = [state |-> "active", selected |-> {}]
    BY <1>2 DEF Projected, Table
<1>4. ActiveIn(after) = {i} /\ after[i].selected = {}
    <2>1. \A j \in Installation : table[j].state # "active"
        BY <1>1 DEF ActiveIn
    <2>2. \A j \in Installation : after[j].state = "active" <=> j = i
        BY <1>3, <2>1
    <2>3. after[i].selected = {}
        BY <1>3
    <2> QED
        BY <2>2, <2>3 DEF ActiveIn
<1>5. \A j \in Installation : after[j].state # "absent" => j \in retired \cup {i}
    BY <1>3 DEF Agreeing
<1>6. {Current'.installation} \ (retired' \cup {0}) = {i}
    OBVIOUS
<1> QED
    BY <1>4, <1>5, <1>6 DEF Agreeing, ActiveIn

\* Another selection is that of the one active row, if there is one.
LEMMA AgreeingSelected ==
    ASSUME NEW table \in Table, Agreeing(table), NEW i \in Installation,
           NEW selected \in SUBSET Repo, Current.installation = i,
           retired' = retired, Current'.installation = i, Current'.selected = selected,
           NEW after \in Table,
           after = Projected(table, [kind |-> "repos", installation |-> i, selected |-> selected])
    PROVE  Agreeing(after)'
<1> DEFINE change == [kind |-> "repos", installation |-> i, selected |-> selected]
<1>1. CASE Applicable(table, change)
    <2>1. /\ \A j \in Installation : j # i => after[j] = table[j]
          /\ after[i] = [state |-> "active", selected |-> selected]
          /\ table[i].state = "active"
        BY <1>1 DEF Projected, Applicable, Table
    <2>2. ActiveIn(after) = ActiveIn(table)
        BY <2>1 DEF ActiveIn
    <2>3. ActiveIn(table) \subseteq {i}
        BY DEF Agreeing
    <2>4. \A j \in ActiveIn(after) : after[j].selected = selected
        BY <2>1, <2>2, <2>3
    <2>5. \A j \in Installation : after[j].state # "absent" => j \in retired \cup {i}
        BY <2>1 DEF Agreeing
    <2>6. ActiveIn(after) = {i} \ (retired \cup {0})
        BY <2>2 DEF Agreeing
    <2> QED
        BY <2>4, <2>5, <2>6 DEF Agreeing, ActiveIn
<1>2. CASE ~Applicable(table, change)
    <2>1. after = table /\ table[i].state # "active"
        BY <1>2 DEF Projected, Applicable
    <2>2. ActiveIn(table) = {}
        BY <2>1 DEF ActiveIn, Agreeing
    <2>3. {i} \ (retired \cup {0}) = {}
        BY <2>2 DEF Agreeing
    <2>4. Agreeing(table)'
        BY <2>2, <2>3 DEF Agreeing, ActiveIn
    <2> QED
        BY <2>1, <2>4
<1> QED
    BY <1>1, <1>2

\* What the account's handler sends, if anything, is what makes the rows agree.
Sends(table) ==
    \/ changes' = changes /\ Agreeing(table)'
    \/ \E change \in Change, after \in Table :
          /\ changes' = Append(changes, change)
          /\ after = Projected(table, change)
          /\ Agreeing(after)'

LEMMA SendsUninstall ==
    ASSUME NEW table \in Table, Agreeing(table), NEW i \in Installation,
           Current.installation = i, retired' = retired \cup {i},
           Current'.installation \in {0, i}, changes' = Project("uninstall", i, {})
    PROVE  Sends(table)
<1> DEFINE change == [kind |-> "uninstall", installation |-> i, selected |-> {}]
<1>1. change \in Change
    BY DEF Change
<1>2. changes' = Append(changes, change)
    BY DEF Project
<1>3. PICK after \in Table : after = Projected(table, change)
    BY <1>1, ProjectedTyped
<1>4. Agreeing(after)'
    BY <1>3, AgreeingUninstalled
<1> HIDE DEF change
<1> QED
    BY <1>1, <1>2, <1>3, <1>4 DEF Sends

LEMMA OnboardSends ==
    ASSUME BaseInv, NEW table \in Table, Agreeing(table), NEW j \in Installation,
           AccountOnboard(j) \/ Refresh(j)
    PROVE  Sends(table)
<1>1. /\ run.step = "idle" /\ account' = account /\ retired' = retired /\ changes' = changes
    BY DEF AccountOnboard, Refresh, status
<1>2. \/ run' = run
      \/ run'.step = "verify"
      \/ run'.step = "observe" /\ run'.account = account
    BY DEF AccountOnboard, Refresh, Running
<1>3. Current = account /\ Current' = account
    BY <1>1, <1>2 DEF Current
<1> QED
    BY <1>1, <1>3, AgreeingStays DEF Sends

LEMMA UninstallSends ==
    ASSUME BaseInv, NEW table \in Table, Agreeing(table), NEW j \in Installation,
           AccountUninstall(j)
    PROVE  Sends(table)
<1>1. run.step = "idle" /\ run' = run /\ retired' = retired \cup {j}
    BY DEF AccountUninstall
<1>2. Current = account /\ Current' = account'
    BY <1>1 DEF Current
<1>3. CASE account.installation = j
    <2>1. changes' = Project("uninstall", j, {}) /\ account' = NoAccount
        BY <1>3 DEF AccountUninstall, RetainNone
    <2> QED
        BY <1>1, <1>2, <1>3, <2>1, Before, SendsUninstall
<1>4. CASE account.installation # j
    <2>1. changes' = changes /\ account' = account
        BY <1>4 DEF AccountUninstall, status
    <2> QED
        BY <1>1, <1>2, <1>4, <2>1, AgreeingStays DEF Sends
<1> QED
    BY <1>3, <1>4

LEMMA VerifySends ==
    ASSUME BaseInv, NEW table \in Table, Agreeing(table), Verify
    PROVE  Sends(table)
<1>1. run.step = "verify" /\ account' = account /\ changes' = changes /\ run \in Run
    BY Before DEF Verify, status
<1>2. run'.step \in {"replace", "adopt", "idle"}
    BY <1>1 DEF Verify, Proceed, End, Idle, Run
<1>3. Current = account /\ Current' = account
    BY <1>1, <1>2 DEF Current
<1>4. run.caller \in Installation /\ run.caller # account.installation
    BY <1>1, Before DEF Run, BaseInv, RunInv, ReplacementInv
<1>5. retired' \in {retired, retired \cup {run.caller}}
    BY DEF Verify
<1> QED
    BY <1>1, <1>3, <1>4, <1>5, AgreeingStays DEF Sends

LEMMA ReplaceSends ==
    ASSUME BaseInv, NEW table \in Table, Agreeing(table), Replace
    PROVE  Sends(table)
<1>1. run.step = "replace" /\ account' = account /\ run \in Run
      /\ account.installation \in Installation
    BY Before DEF Replace, status, BaseInv, RunInv, Account
<1>2. run'.step \in {"adopt", "idle"}
    BY <1>1 DEF Replace, Proceed, End, Idle, Run
<1>3. Current = account /\ Current' = account
    BY <1>1, <1>2 DEF Current
<1>4. \/ changes' = changes /\ retired' = retired
      \/ changes' = Project("uninstall", account.installation, {})
            /\ retired' = retired \cup {account.installation}
    BY DEF Replace
<1> QED
    BY <1>1, <1>3, <1>4, AgreeingStays, SendsUninstall DEF Sends

LEMMA AdoptSends ==
    ASSUME BaseInv, NEW table \in Table, Agreeing(table), Adopt
    PROVE  Sends(table)
<1>1. /\ run.step = "adopt" /\ account' = account /\ retired' = retired /\ run \in Run
      /\ run.caller \in Installation /\ run.account.installation = run.caller
      /\ run.account.selected = {} /\ Vacant
      /\ run.account.installation \notin retired \cup {account.installation}
    BY Before DEF Adopt, status, BaseInv, RunInv, ReplacementInv, Run
<1>2. Current = account
    BY <1>1 DEF Current
<1>3. CASE changes' = Project("onboard", run.caller, {}) /\ Proceed("observe")
    <2> DEFINE change == [kind |-> "onboard", installation |-> run.caller, selected |-> {}]
    <2>1. run'.step = "observe" /\ run'.account = run.account
        BY <1>1, <1>3 DEF Proceed, Run
    <2>2. Current' = run.account
        BY <2>1 DEF Current
    <2>3. change \in Change /\ changes' = Append(changes, change)
        BY <1>1, <1>3 DEF Change, Project
    <2>4. PICK after \in Table : after = Projected(table, change)
        BY <2>3, ProjectedTyped
    <2>5. Agreeing(after)'
        BY <1>1, <1>2, <2>2, <2>4, Before, AgreeingAdopted DEF Vacant
    <2> HIDE DEF change
    <2> QED
        BY <2>3, <2>4, <2>5 DEF Sends
<1>4. CASE End /\ UNCHANGED changes
    <2>1. Current' = account
        BY <1>1, <1>4 DEF End, Idle, Current
    <2> QED
        BY <1>1, <1>2, <1>4, <2>1, AgreeingStays DEF Sends
<1> QED
    BY <1>3, <1>4 DEF Adopt

LEMMA RetainSends ==
    ASSUME BaseInv, NEW table \in Table, Agreeing(table), run.step \in {"observe", "list"},
           NEW reading \in Observation, Retain(reading), retired' = retired
    PROVE  Sends(table)
<1>1. reading.repos \in SUBSET Repo /\ run.account \in Account
      /\ run.account.installation \in Installation
    BY Before DEF Observation, Unavailable, Unknown, Run, BaseInv, RunInv, Account
<1>2. Current = run.account
    BY DEF Current
<1>3. /\ Current' = account'
      /\ account'.installation = run.account.installation
      /\ account'.selected = reading.repos
    BY <1>1 DEF Retain, End, Idle, Current, Account
<1>4. CASE Selects(reading)
    <2> DEFINE change == [kind |-> "repos", installation |-> run.account.installation,
                          selected |-> reading.repos]
    <2>1. changes' = Append(changes, change)
        BY <1>4 DEF Retain, Project
    <2>2. change \in Change
        BY <1>1 DEF Change
    <2>3. PICK after \in Table : after = Projected(table, change)
        BY <2>2, ProjectedTyped
    <2>4. Agreeing(after)'
        BY <1>1, <1>2, <1>3, <2>3, AgreeingSelected
    <2> HIDE DEF change
    <2> QED
        BY <2>1, <2>2, <2>3, <2>4 DEF Sends
<1>5. CASE ~Selects(reading)
    <2>1. changes' = changes
        BY <1>5 DEF Retain
    <2>2. run.account.selected = reading.repos
        BY <1>5 DEF Selects
    <2> QED
        BY <1>2, <1>3, <2>1, <2>2, AgreeingStays DEF Sends
<1> QED
    BY <1>4, <1>5

LEMMA ReadSends ==
    ASSUME BaseInv, NEW table \in Table, Agreeing(table), Observe \/ List
    PROVE  Sends(table)
<1>1. Unavailable \in Observation /\ Unknown \in Observation
    BY DEF Observation
<1>2. Available(granted) \in Observation
    BY DEF BaseInv, TypeOK, Observation, Available
<1>3. run.step \in {"observe", "list"} /\ retired' = retired
    BY DEF Observe, List
<1>4. \/ \E reading \in Observation : Retain(reading)
      \/ Proceed("list") /\ changes' = changes
    BY <1>1, <1>2 DEF Observe, List
<1>5. CASE Proceed("list") /\ changes' = changes
    <2>1. run'.step = "list" /\ run'.account = run.account
        BY <1>5, Before DEF Proceed, Run
    <2>2. Current = run.account /\ Current' = run.account
        BY <1>3, <2>1 DEF Current
    <2> QED
        BY <1>3, <1>5, <2>2, AgreeingStays DEF Sends
<1> QED
    BY <1>3, <1>4, <1>5, RetainSends

LEMMA RereadSends ==
    ASSUME BaseInv, NEW table \in Table, Agreeing(table), run.step = "idle", Reread
    PROVE  Sends(table)
<1>1. retired' = retired /\ changes' = changes
    BY DEF Reread
<1>2. account' = account
    BY DEF Reread, RetainNone, status
<1>3. run' = run \/ (run'.step = "observe" /\ run'.account = account)
    BY DEF Reread, Running
<1>4. Current = account /\ Current' = account
    BY <1>2, <1>3 DEF Current
<1> QED
    BY <1>1, <1>4, AgreeingStays DEF Sends

LEMMA OwnTable ==
    ASSUME BaseInv, TableInv, Own \/ Evidence
    PROVE  TableInv'
<1>1. PICK outcome \in Table : Leads(rows, changes, outcome) /\ Agreeing(outcome)
    BY DEF TableInv
<1>2. rows' = rows /\ changes \in Seq(Change) /\ rows \in Table
    BY DEF Own, Evidence, BaseInv, TypeOK, Table
<1>3. Sends(outcome)
    <2>1. CASE Recheck \/ ObserveEvidence
        BY <1>1, <2>1, RereadSends DEF Recheck, ObserveEvidence
    <2> QED
        BY <1>1, <2>1, OnboardSends, UninstallSends, VerifySends, ReplaceSends, AdoptSends,
           ReadSends DEF Own, Evidence
<1>4. CASE changes' = changes /\ Agreeing(outcome)'
    BY <1>1, <1>2, <1>4 DEF TableInv
<1>5. ASSUME NEW change \in Change, NEW after \in Table, Agreeing(after)',
             changes' = Append(changes, change), after = Projected(outcome, change)
      PROVE  TableInv'
    <2>1. Leads(rows, Append(changes, change), after)
        BY <1>1, <1>2, <1>5, LeadsFurther
    <2>2. Leads(rows', changes', after)
        BY <1>2, <1>5, <2>1
    <2> QED
        BY <1>5, <2>2 DEF TableInv
<1> QED
    BY <1>3, <1>4, <1>5 DEF Sends

LEMMA ApplyTable ==
    ASSUME BaseInv, TableInv, Apply
    PROVE  TableInv'
<1>1. PICK outcome \in Table : Leads(rows, changes, outcome) /\ Agreeing(outcome)
    BY DEF TableInv
<1>2. rows \in Table /\ changes \in Seq(Change) /\ changes # <<>>
    BY DEF BaseInv, TypeOK, Table, Apply
<1>3. rows' = Projected(rows, Head(changes)) /\ changes' \in {changes, Tail(changes)}
    BY DEF Apply
<1>4. Leads(rows', changes', outcome)
    BY <1>1, <1>2, <1>3, LeadsFromNext, LeadsAgain
<1>5. Agreeing(outcome)'
    BY <1>1 DEF Apply, Agreeing, Current, status
<1> QED
    BY <1>4, <1>5 DEF TableInv

LEMMA OtherTable ==
    ASSUME TableInv, UNCHANGED <<rows, changes, run, account, retired>>
    PROVE  TableInv'
<1>1. PICK outcome \in Table : Leads(rows, changes, outcome) /\ Agreeing(outcome)
    BY DEF TableInv
<1>2. Agreeing(outcome)'
    BY <1>1 DEF Agreeing, Current
<1>3. Leads(rows', changes', outcome)
    BY <1>1
<1> QED
    BY <1>2, <1>3 DEF TableInv

LEMMA TableStep == BaseInv /\ TableInv /\ [Next]_vars => TableInv'
<1> SUFFICES ASSUME BaseInv, TableInv, [Next]_vars PROVE TableInv'
    OBVIOUS
<1>1. CASE Own \/ Evidence
    BY <1>1, OwnTable
<1>2. CASE Apply
    BY <1>2, ApplyTable
<1>3. CASE \E kind \in MessageKind, i \in Installation : Receive(kind, i)
    BY <1>3, OtherTable DEF Receive, owner, status
<1>4. CASE \E i \in Installation : \/ InstallationOnboard(i) \/ InstallationReposChanged(i)
                                   \/ InstallationUninstall(i)
    BY <1>4, OtherTable DEF InstallationOnboard, InstallationReposChanged,
       InstallationUninstall, owner, status
<1>5. CASE GithubChanges \/ UNCHANGED vars
    BY <1>5, OtherTable DEF GithubChanges, vars, owner, status
<1> QED
    BY <1>1, <1>2, <1>3, <1>4, <1>5 DEF Next

LEMMA InitTable == Init => TableInv
<1> SUFFICES ASSUME Init PROVE TableInv
    OBVIOUS
<1>1. rows \in Table /\ changes = <<>> /\ Current.installation = 0
    BY InitBase DEF Init, BaseInv, TypeOK, Table, Current, Idle, NoAccount
<1>2. \A i \in Installation : rows[i].state = "absent"
    BY DEF Init
<1>3. Agreeing(rows)
    BY <1>1, <1>2 DEF Agreeing, ActiveIn
<1>4. Leads(rows, <<>>, rows)
    <2> DEFINE f == [n \in 0..0 |-> rows]
    <2>1. f \in [0..Len(<<>>) -> Table] /\ f[0] = rows /\ f[Len(<<>>)] = rows
        BY <1>1
    <2>2. 1..Len(<<>>) = {}
        OBVIOUS
    <2> HIDE DEF f
    <2> QED
        BY <2>1, <2>2 DEF Leads
<1> QED
    BY <1>1, <1>3, <1>4 DEF TableInv

-----------------------------------------------------------------------------
(* Theorems *)

LEMMA InvariantHolds == Spec => []IInv
<1>1. Init => IInv
    BY InitBase, InitTable DEF IInv
<1>2. IInv /\ [Next]_vars => IInv'
    BY BaseStep, TableStep DEF IInv
<1> QED
    BY <1>1, <1>2, PTL DEF Spec

\* Every variable keeps its type; in particular one recheck is under way at most.
THEOREM AvailabilityTypeOK == Spec => []TypeOK
<1>1. IInv => TypeOK
    BY DEF IInv, BaseInv
<1> QED
    BY <1>1, InvariantHolds, PTL

\* However webhooks, setup returns and rechecks overtake each other, what was
\* uninstalled never comes back (onboard and uninstall, installation.rs:51;
\* continue_uninstall, availability.rs:375).
THEOREM AvailabilityHandledIsGone == Spec => []HandledIsGone
<1>1. IInv => HandledIsGone
    <2> SUFFICES ASSUME IInv PROVE HandledIsGone
        OBVIOUS
    <2>1. /\ \A i \in handled : i \in uninstalled /\ i # 0 /\ call[i] = "none"
          /\ \A i \in handled : account.installation # i
        BY Before DEF IInv, BaseInv, TypeOK, TombstoneInv
    <2>2. run.account.installation \notin handled
        BY <2>1 DEF IInv, BaseInv, RunInv, CallInv
    <2> QED
        BY <2>1, <2>2 DEF HandledIsGone
<1> QED
    BY <1>1, InvariantHolds, PTL

\* Once every change is applied, in whatever order answers were lost, SQL shows
\* the account's installation and its repositories, and no other
\* (project_installation, availability.rs:213).
THEOREM AvailabilitySqlFollows == Spec => []SqlFollowsAccount
<1>1. IInv => SqlFollowsAccount
    <2> SUFFICES ASSUME IInv, changes = <<>>, run.step = "idle"
                 PROVE  /\ Active = {account.installation} \ (retired \cup {0})
                        /\ \A i \in Active : rows[i].selected = account.selected
        BY DEF SqlFollowsAccount
    <2>1. PICK outcome \in Table : Leads(rows, changes, outcome) /\ Agreeing(outcome)
        BY DEF IInv, TableInv
    <2>2. rows \in Table
        BY DEF IInv, BaseInv, TypeOK, Table
    <2>3. outcome = rows
        BY <2>1, <2>2, LeadsNowhere
    <2>4. Current = account
        BY DEF Current
    <2> QED
        BY <2>1, <2>3, <2>4 DEF Agreeing, Active
<1> QED
    BY <1>1, InvariantHolds, PTL
=============================================================================
