--------------------------- MODULE DeliveryPromise ---------------------------
(***************************************************************************)
(* What RepositoryDelivery promises the request that approved a            *)
(* repository, with no fence, no timers and no journal: at most one        *)
(* collaborator write ever reaches GitHub's state, and what the owner      *)
(* tells about it is never wiped out and never false.                      *)
(***************************************************************************)

VARIABLES
    told,   \* the last outcome the owner reported
    write   \* the one collaborator write as GitHub knows it

promiseVars == <<told, write>>

Final == {"created", "member", "failed"}
Outcome == {"none", "blocked", "unknown"} \cup Final
PromiseInit ==
    /\ told = "none"
    /\ write = "none"

\* A write may leave only while nothing is outstanding, nothing was applied,
\* and the owner has not yet given up knowing (or finished).
Attempt ==
    /\ write = "none"
    /\ told \in {"none", "blocked"}
    /\ write' = "out"
    /\ told' = told

\* GitHub applies the outstanding write, possibly long after the owner
\* stopped waiting for its answer.
Land ==
    /\ write = "out"
    /\ write' = "applied"
    /\ told' = told

\* GitHub refuses the outstanding write, or it is lost on the way.
Miss ==
    /\ write = "out"
    /\ write' = "none"
    /\ told' = told

\* The owner reports an outcome. Blocked and failed claim that nothing was
\* written, so they need that to be so and cannot follow "unknown".
Report(outcome) ==
    /\ told \notin Final
    /\ outcome \in Outcome \ {"none"}
    /\ outcome \in {"blocked", "failed"} => told # "unknown" /\ write = "none"
    /\ told' = outcome
    /\ write' = write

PromiseNext ==
    \/ Attempt
    \/ Land
    \/ Miss
    \/ \E outcome \in Outcome : Report(outcome)

PromiseSpec == PromiseInit /\ [][PromiseNext]_promiseVars
=============================================================================
