------------------------------- MODULE Listing -------------------------------
(***************************************************************************)
(* Reading a long listing page by page while it changes:                   *)
(*                                                                         *)
(*   - the console's audit log, back and forth, each page with two probes  *)
(*     for what is newer and older (ghinvite-core/src/storage/             *)
(*     audit_read.rs, ghinvite-web/src/routes/console/audit.rs);           *)
(*   - a link's request history, newest first, and an account's queue of   *)
(*     pending requests, oldest first (request_history.rs,                 *)
(*     pending_queue.rs);                                                  *)
(*   - GitHub's pending invitations along its Link headers, and the        *)
(*     repositories of an installation by page number                      *)
(*     (ghinvite-github/src/pagination.rs, installation.rs), from whose    *)
(*     absence settlement and the account owner conclude.                  *)
(*                                                                         *)
(* The first three seek: a page starts behind the key, a time and an       *)
(* identity, that its cursor carries. GitHub's pages are offsets into what *)
(* the listing is when each of them is answered. A page is one statement   *)
(* or one answer; between two of them entries appear, at any place, since  *)
(* projections are late, and disappear.                                    *)
(***************************************************************************)
EXTENDS Integers, FiniteSets

CONSTANTS
    LastTime,    \* times of entries are 1..LastTime
    LastId,      \* identities of entries with one time are 1..LastId
    PageSize,    \* entries of a page
    MaxPages,    \* pages of one walk along Link headers
    MaxChanges   \* bound on entries that appear and disappear

ASSUME ListingBounds ==
    /\ LastTime \in Nat \ {0}
    /\ LastId \in Nat \ {0}
    /\ PageSize \in Nat \ {0}
    /\ MaxPages \in Nat \ {0}
    /\ MaxChanges \in Nat

Entry == [at : 1..LastTime, id : 1..LastId]
Seeking == {"audit", "history", "queue"}
Kind == Seeking \cup {"link", "numbered"}

VARIABLES
    kind,      \* what is read
    present,   \* the rows in SQL, or what GitHub would list
    step,      \* how far the reader is
    position,  \* seeking: latest, or before or after an entry
    page,      \* seeking: the entries on the page
    newer,     \* audit: the page says that there are newer entries
    older,     \* seeking: the page says that there are more
    number,    \* GitHub: the page to ask for next
    walked,    \* Link: the pages asked for
    expected,  \* numbered: the total that the first page told, or -1
    shown,     \* entries on any page so far
    changes,
    lasting,   \* history: present ever since the reader began
    ever,      \* history: present at some time since
    repeated,  \* history: a page showed an entry again
    appeared,  \* history: an entry appeared since
    vanished   \* history: an entry disappeared since

reader == <<step, position, page, newer, older, number, walked, expected,
            shown, repeated>>
listing == <<present, changes, lasting, ever, appeared, vanished>>
listingVars == <<kind, reader, listing>>

-----------------------------------------------------------------------------
(* The order of a listing *)

\* The seek key: the time, then the identity.
Precedes(e, f) == e.at < f.at \/ (e.at = f.at /\ e.id < f.id)

First(S, n) == {e \in S : Cardinality({f \in S : Precedes(f, e)}) < n}
Last(S, n) == {e \in S : Cardinality({f \in S : Precedes(e, f)}) < n}

\* Page n of what GitHub lists now.
Offset(n) == First(present, n * PageSize) \ First(present, (n - 1) * PageSize)

Latest == [to |-> "latest"]
Before(S) == {[to |-> "before", entry |-> e] : e \in First(S, 1)}
After(S) == {[to |-> "after", entry |-> e] : e \in Last(S, 1)}

\* Defect: the key is the time alone, so entries of one time are passed over.
SoughtByTime(p) ==
    CASE p.to = "latest" -> present
      [] p.to = "before" -> {e \in present : e.at < p.entry.at}
      [] p.to = "after"  -> {e \in present : p.entry.at < e.at}

\* The rows that a seek query ranges over.
Sought(p) ==
    CASE p.to = "latest" -> present
      [] p.to = "before" -> {e \in present : Precedes(e, p.entry)}
      [] p.to = "after"  -> {e \in present : Precedes(p.entry, e)}

ListingInit ==
    /\ kind \in Kind
    /\ present \in SUBSET Entry
    /\ step = "read"
    /\ position = Latest
    /\ page = {}
    /\ newer = FALSE /\ older = FALSE
    /\ number = 1
    /\ walked = {}
    /\ expected = -1
    /\ shown = {}
    /\ repeated = FALSE
    /\ changes = 0
    /\ lasting = present /\ ever = present
    /\ appeared = FALSE /\ vanished = FALSE
-----------------------------------------------------------------------------
(* Seeking *)

Show(rows) ==
    /\ page' = rows
    /\ shown' = shown \cup rows
    /\ repeated' = (repeated \/ rows \cap shown # {})

\* list_audit_events: newest first, but the page after an entry is read in the
\* other order, so that it is the one next to it.
ReadAudit ==
    /\ kind = "audit" /\ step = "read"
    /\ LET rows == IF position.to = "after" THEN First(Sought(position), PageSize)
                   ELSE Last(Sought(position), PageSize)
       IN /\ Show(rows)
          /\ step' = IF rows = {} THEN "shown" ELSE "newer"
    /\ newer' = FALSE /\ older' = FALSE
    /\ UNCHANGED <<kind, position, number, walked, expected, listing>>

\* The probes are statements of their own.
Probe ==
    /\ \/ /\ step = "newer"
          /\ newer' = \E p \in After(page) : Sought(p) # {}
          /\ step' = "older"
          /\ UNCHANGED older
       \/ /\ step = "older"
          /\ older' = \E p \in Before(page) : Sought(p) # {}
          /\ step' = "shown"
          /\ UNCHANGED newer
    /\ UNCHANGED <<kind, position, page, number, walked, expected, shown, repeated,
                   listing>>

\* One row more than the page holds tells that there is another page.
ReadOn ==
    /\ kind \in {"history", "queue"} /\ step = "read"
    /\ LET Leading(S, n) == IF kind = "queue" THEN First(S, n) ELSE Last(S, n)
           rows == Leading(Sought(position), PageSize + 1)
       IN /\ Show(Leading(rows, PageSize))
          /\ older' = (Cardinality(rows) > PageSize)
    /\ step' = "shown"
    /\ UNCHANGED <<kind, position, newer, number, walked, expected, listing>>

\* The administrator follows a page's cursor.
Follow ==
    /\ step = "shown"
    /\ \/ older /\ position' \in (IF kind = "queue" THEN After(page) ELSE Before(page))
       \/ newer /\ position' \in After(page)
    /\ step' = "read"
    /\ UNCHANGED <<kind, page, newer, older, number, walked, expected, shown,
                   repeated, listing>>
-----------------------------------------------------------------------------
(* Walking GitHub's pages *)

FailRead ==
    /\ step' = "failed"
    /\ UNCHANGED <<kind, position, page, newer, older, number, walked, expected,
                   shown, repeated, listing>>

\* walk_link_pages: on to the page that the header names, be it one that was
\* read before, until a header names none.
ReadLink ==
    /\ kind = "link" /\ step = "read"
    /\ number \notin walked
    /\ Cardinality(walked) < MaxPages
    /\ walked' = walked \cup {number}
    /\ shown' = shown \cup Offset(number)
    /\ \/ /\ Cardinality(present) > number * PageSize
          /\ number' = number + 1
          /\ UNCHANGED step
       \/ /\ Cardinality(present) <= number * PageSize
          /\ step' = "complete"
          /\ UNCHANGED number
       \/ /\ number' \in walked'
          /\ UNCHANGED step
    /\ UNCHANGED <<kind, position, page, newer, older, expected, repeated, listing>>

\* A page read before, one too many, an answer that is none, a header that
\* cannot be read or that leads elsewhere.
LinkFails == kind = "link" /\ step = "read" /\ FailRead

\* Defect: the total that each page tells is compared with nothing.
AgreesAlways(total) == TRUE

\* Every page must tell the total that the first one told.
Agrees(total) == expected \in {-1, total}

\* all_installation_repo_ids: until as many are read as there are.
ReadNumbered ==
    /\ kind = "numbered" /\ step = "read"
    /\ LET total == Cardinality(present)
           rows == Offset(number)
           read == shown \cup rows
       IN IF ~Agrees(total) \/ rows \cap shown # {} THEN FailRead
          ELSE /\ expected' = total
               /\ shown' = read
               /\ number' = number + 1
               /\ step' = CASE Cardinality(read) = total -> "complete"
                            [] Cardinality(read) > total \/ rows = {} -> "failed"
                            [] OTHER -> "read"
               /\ UNCHANGED <<kind, position, page, newer, older, walked, repeated,
                              listing>>

\* A page is not answered.
NumberedFails == kind = "numbered" /\ step = "read" /\ FailRead
-----------------------------------------------------------------------------
(* The listing *)

Ended == step \in {"complete", "failed"}

Change == changes < MaxChanges /\ ~Ended /\ changes' = changes + 1

\* A row is projected, or GitHub lists one more, at whatever place.
Appear(e) ==
    /\ e \notin present
    /\ Change
    /\ present' = present \cup {e}
    /\ ever' = ever \cup {e}
    /\ appeared' = TRUE
    /\ UNCHANGED <<kind, reader, lasting, vanished>>

\* A request is decided, an invitation ends, a repository leaves the scope.
\* Events and requests themselves stay.
Disappear(e) ==
    /\ kind \in {"queue", "link", "numbered"}
    /\ e \in present
    /\ Change
    /\ present' = present \ {e}
    /\ lasting' = lasting \ {e}
    /\ vanished' = TRUE
    /\ UNCHANGED <<kind, reader, ever, appeared>>

ListingNext ==
    \/ ReadAudit \/ Probe \/ ReadOn \/ Follow
    \/ ReadLink \/ LinkFails \/ ReadNumbered \/ NumberedFails
    \/ \E e \in Entry : Appear(e) \/ Disappear(e)

ListingSpec == ListingInit /\ [][ListingNext]_listingVars
-----------------------------------------------------------------------------
(* Properties *)

\* Entry e lies between where the reader began and what it has shown, or
\* beyond a page that says that nothing does.
Passed(e) ==
    LET Beyond(f) == IF kind = "queue" THEN Precedes(e, f) ELSE Precedes(f, e)
    IN \/ \E f \in shown : Beyond(f)
       \/ step = "shown" /\ ~older

\* Whoever follows the cursors, back and forth, through however many entries
\* of one time, while others appear on any side: no entry that is there all
\* the while is passed over, and on the way forward none is shown again
\* (audit_read.rs:79, request_history.rs:40, pending_queue.rs:92).
NothingIsPassedOver ==
    kind \in Seeking =>
        /\ lasting \cap {e \in Entry : Passed(e)} \subseteq shown
        /\ shown \subseteq ever
        /\ kind # "audit" => ~repeated

\* What is absent from a complete walk along GitHub's pages was not there all
\* the while, if the pages did not shift under it: nothing left a listing of
\* invitations (a race that docs/invitation-settlement.md:173 admits), and the
\* repositories did not both gain and lose some (pagination.rs:1, installation.rs:142).
AbsenceIsEvidence ==
    step = "complete" =>
        /\ kind = "link" /\ ~vanished => lasting \subseteq shown
        /\ kind = "numbered" /\ ~(appeared /\ vanished) => shown = present
        /\ shown \subseteq ever
=============================================================================
