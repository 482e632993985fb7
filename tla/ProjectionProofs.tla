-------------------------- MODULE ProjectionProofs --------------------------
(***************************************************************************)
(* For every number of snapshots and of disturbances: Projection is well   *)
(* typed and keeps ProjectionPromise. The argument is that a delivery's    *)
(* outcome and settlement, once they are there, are in all later snapshots *)
(* too, so that a transaction finds the invitation where its own snapshot  *)
(* would have left it, or not yet confirmed.                               *)
(*                                                                         *)
(* And about MemberWebhook, whose query reads what the projectors wrote:   *)
(* to which invitation an event goes.                                      *)
(***************************************************************************)
EXTENDS Projection, MemberWebhook, FiniteSetTheorems, TLAPS

-----------------------------------------------------------------------------
(* The inductive invariant *)

\* Whatever is to be applied, or was, has been sent.
Known ==
    /\ \A t \in Table : \A i \in 1 .. Len(queue[t]) : queue[t][i] <= Len(sent[t])
    /\ \A t \in Table, n \in Revision : <<t, n>> \in late => n <= Len(sent[t])
    /\ \A t \in Table : row[t] <= Len(sent[t]) /\ Len(sent[t]) <= MaxRevision[t]

\* A confirmed outcome and a settlement are never taken back.
History ==
    \A m, n \in 1 .. Len(sent["delivery"]) :
        m <= n =>
            /\ sent["delivery"][m].outcome \in Confirmed =>
                  sent["delivery"][n].outcome = sent["delivery"][m].outcome
            /\ sent["delivery"][m].settlement # "none" =>
                  sent["delivery"][n].settlement = sent["delivery"][m].settlement

HasParents == \A t \in DOMAIN Parent : row[t] # 0 => row[Parent[t]] # 0

\* The invitation is in the state of the delivery that is stored.
Follow ==
    invitation = IF row["delivery"] = 0 THEN "absent"
                 ELSE Promise!StateOf(sent["delivery"][row["delivery"]])

Recorded ==
    \A t \in Table : row[t] # 0 => sent[t][row[t]].events \subseteq audit[t]

IInv == TypeOK /\ Known /\ History /\ HasParents /\ Follow /\ Recorded

-----------------------------------------------------------------------------
(* The initial states *)

LEMMA InitIInv == Init => IInv
<1>1. Init => TypeOK
  BY DEF Init, TypeOK, InvitationState
<1>2. Init => Known
  BY ProjectionBounds DEF Init, Known
<1>3. Init => History /\ HasParents /\ Follow /\ Recorded
  BY DEF Init, History, HasParents, Follow, Recorded, Table, Parent
<1>. QED  BY <1>1, <1>2, <1>3 DEF IInv

-----------------------------------------------------------------------------
(* Sequences *)

LEMMA RevisionNat == Revision \subseteq Nat
<1>1. \A t \in Table : MaxRevision[t] \in Nat
  BY ProjectionBounds
<1>2. \A t \in Table : 1 .. MaxRevision[t] \subseteq Nat
  BY <1>1
<1>. QED  BY <1>2 DEF Revision

LEMMA Sequences ==
    ASSUME TypeOK, NEW t \in Table
    PROVE  /\ sent[t] \in Seq(Snapshot) /\ Len(sent[t]) \in Nat
           /\ queue[t] \in Seq(Revision) /\ Len(queue[t]) \in Nat
           /\ \A i \in 1 .. Len(queue[t]) : queue[t][i] \in Revision
           /\ row[t] \in Nat
<1>1. sent[t] \in Seq(Snapshot) /\ queue[t] \in Seq(Revision) /\ row[t] \in Nat
  BY DEF TypeOK
<1>. QED  BY <1>1

\* What a queue holds after something was added to it.
LEMMA Queued ==
    ASSUME TypeOK, NEW t \in Table, NEW n \in Revision,
           queue' = [queue EXCEPT ![t] = Append(queue[t], n)]
    PROVE  /\ queue' \in [Table -> Seq(Revision)]
           /\ \A u \in Table : \A i \in 1 .. Len(queue'[u]) :
                 \/ \E j \in 1 .. Len(queue[u]) : queue'[u][i] = queue[u][j]
                 \/ u = t /\ queue'[u][i] = n
<1>1. queue' \in [Table -> Seq(Revision)]
  BY DEF TypeOK
<1>2. ASSUME NEW u \in Table, NEW i \in 1 .. Len(queue'[u])
      PROVE  \/ \E j \in 1 .. Len(queue[u]) : queue'[u][i] = queue[u][j]
             \/ u = t /\ queue'[u][i] = n
  <2>1. CASE u # t
    <3>1. queue'[u] = queue[u]
      BY <2>1 DEF TypeOK
    <3>. QED  BY <3>1
  <2>2. CASE u = t
    <3>1. queue[t] \in Seq(Revision) /\ queue'[t] = Append(queue[t], n)
      BY DEF TypeOK
    <3>2. CASE i <= Len(queue[t])
      <4>1. i \in 1 .. Len(queue[t]) /\ queue'[t][i] = queue[t][i]
        BY <2>2, <3>1, <3>2
      <4>. QED  BY <2>2, <4>1
    <3>3. CASE i > Len(queue[t])
      BY <2>2, <3>1, <3>3
    <3>. QED  BY <2>2, <3>1, <3>2, <3>3
  <2>. QED  BY <2>1, <2>2
<1>. QED  BY <1>1, <1>2

-----------------------------------------------------------------------------
(* Sending *)

\* What the owners sent before stands.
LEMMA SendKeeps ==
    ASSUME TypeOK, NEW t \in Table, Send(t)
    PROVE  \E s \in Snapshot :
              /\ Follows(t, s)
              /\ sent' = [sent EXCEPT ![t] = Append(@, s)]
              /\ Len(sent'[t]) = Len(sent[t]) + 1
              /\ sent'[t][Len(sent[t]) + 1] = s
              /\ \A n \in 1 .. Len(sent[t]) : sent'[t][n] = sent[t][n]
              /\ \A u \in Table \ {t} : sent'[u] = sent[u]
<1>1. PICK s \in Snapshot : Follows(t, s) /\ sent' = [sent EXCEPT ![t] = Append(@, s)]
  BY DEF Send
<1>2. sent[t] \in Seq(Snapshot) /\ sent'[t] = Append(sent[t], s)
  BY <1>1 DEF TypeOK
<1>3. /\ Len(sent'[t]) = Len(sent[t]) + 1
      /\ sent'[t][Len(sent[t]) + 1] = s
      /\ \A n \in 1 .. Len(sent[t]) : sent'[t][n] = sent[t][n]
  BY <1>2
<1>4. \A u \in Table \ {t} : sent'[u] = sent[u]
  BY <1>1 DEF TypeOK
<1>. QED  BY <1>1, <1>3, <1>4

LEMMA SendRevision ==
    ASSUME TypeOK, NEW t \in Table, Send(t)
    PROVE  Len(sent[t]) + 1 \in Revision /\ Len(sent[t]) + 1 <= MaxRevision[t]
<1>1. Len(sent[t]) \in Nat /\ MaxRevision[t] \in Nat /\ Len(sent[t]) < MaxRevision[t]
  BY Sequences, ProjectionBounds DEF Send
<1>2. Len(sent[t]) + 1 \in 1 .. MaxRevision[t]
  BY <1>1
<1>. QED  BY <1>1, <1>2 DEF Revision

LEMMA SendTyped ==
    ASSUME TypeOK, NEW t \in Table, Send(t)
    PROVE  TypeOK'
<1>1. PICK s \in Snapshot : sent' = [sent EXCEPT ![t] = Append(@, s)]
  BY DEF Send
<1>2. sent' \in [Table -> Seq(Snapshot)]
  BY <1>1 DEF TypeOK
<1>3. queue' \in [Table -> Seq(Revision)]
  BY SendRevision, Queued DEF Send
<1>. QED  BY <1>2, <1>3 DEF TypeOK, Send, sql

LEMMA SendKnown ==
    ASSUME TypeOK, Known, NEW t \in Table, Send(t)
    PROVE  Known'
<1>1. Len(sent'[t]) = Len(sent[t]) + 1 /\ \A u \in Table \ {t} : sent'[u] = sent[u]
  BY SendKeeps
<1>2. \A u \in Table : /\ Len(sent[u]) <= Len(sent'[u]) /\ Len(sent[u]) \in Nat
                       /\ Len(sent'[u]) \in Nat
  <2>1. \A u \in Table : Len(sent[u]) \in Nat
    BY Sequences
  <2>. QED  BY <1>1, <2>1
<1>3. ASSUME NEW u \in Table, NEW i \in 1 .. Len(queue'[u])
      PROVE  queue'[u][i] <= Len(sent'[u])
  <2>1. \A j \in 1 .. Len(queue[u]) : queue[u][j] \in Nat
    BY Sequences, RevisionNat
  <2>2. \/ \E j \in 1 .. Len(queue[u]) : queue'[u][i] = queue[u][j]
        \/ u = t /\ queue'[u][i] = Len(sent[t]) + 1
    BY SendRevision, Queued DEF Send
  <2>3. CASE \E j \in 1 .. Len(queue[u]) : queue'[u][i] = queue[u][j]
    <3>1. PICK j \in 1 .. Len(queue[u]) : queue'[u][i] = queue[u][j]
      BY <2>3
    <3>2. queue[u][j] \in Nat /\ queue[u][j] <= Len(sent[u])
      BY <2>1 DEF Known
    <3>. QED  BY <1>2, <3>1, <3>2
  <2>4. CASE u = t /\ queue'[u][i] = Len(sent[t]) + 1
    BY <1>1, <1>2, <2>4
  <2>. QED  BY <2>2, <2>3, <2>4
<1>4. \A u \in Table, n \in Revision : <<u, n>> \in late' => n <= Len(sent'[u])
  <2>1. \A n \in Revision : n \in Nat
    BY RevisionNat
  <2>. QED  BY <1>2, <2>1 DEF Known, Send
<1>5. \A u \in Table : row'[u] <= Len(sent'[u]) /\ Len(sent'[u]) <= MaxRevision[u]
  <2>1. \A u \in Table : row'[u] = row[u] /\ row[u] \in Nat /\ row[u] <= Len(sent[u])
    BY DEF Known, Send, sql, TypeOK
  <2>2. \A u \in Table : Len(sent'[u]) <= MaxRevision[u]
    BY <1>1, SendRevision DEF Known
  <2>. QED  BY <1>2, <2>1, <2>2
<1>. QED  BY <1>3, <1>4, <1>5 DEF Known

\* A new snapshot of the delivery keeps what the last one had.
LEMMA SendHistory ==
    ASSUME TypeOK, History, NEW t \in Table, Send(t)
    PROVE  History'
<1>. DEFINE d == sent["delivery"]
<1>1. PICK s \in Snapshot :
          /\ Follows(t, s)
          /\ Len(sent'[t]) = Len(sent[t]) + 1
          /\ sent'[t][Len(sent[t]) + 1] = s
          /\ \A n \in 1 .. Len(sent[t]) : sent'[t][n] = sent[t][n]
          /\ \A u \in Table \ {t} : sent'[u] = sent[u]
  BY SendKeeps
<1>2. CASE t # "delivery"
  <2>1. sent'["delivery"] = d
    BY <1>1, <1>2 DEF Table
  <2>. QED  BY <2>1 DEF History
<1>3. CASE t = "delivery"
  <2>1. Len(d) \in Nat /\ Len(sent'["delivery"]) = Len(d) + 1
    BY <1>1, <1>3 DEF TypeOK
  <2>2. ASSUME NEW m \in 1 .. Len(d)
        PROVE  /\ d[m].outcome \in Confirmed => s.outcome = d[m].outcome
               /\ d[m].settlement # "none" => s.settlement = d[m].settlement
    <3>1. Len(d) \in 1 .. Len(d) /\ m <= Len(d)
      BY <2>1
    <3>2. \/ d[Len(d)].outcome = "waiting"
          \/ /\ d[Len(d)].outcome = "created" /\ d[Len(d)].settlement = "none"
             /\ s.outcome = "created"
      BY <1>1, <1>3, <2>1, <3>1 DEF Follows, DeliveryFollows, Latest
    <3>3. /\ d[m].outcome \in Confirmed => d[Len(d)].outcome = d[m].outcome
          /\ d[m].settlement # "none" => d[Len(d)].settlement = d[m].settlement
      BY <3>1 DEF History
    <3>4. d[Len(d)] \in Snapshot
      BY <3>1, <1>3 DEF TypeOK
    <3>. QED  BY <3>2, <3>3, <3>4 DEF Confirmed, Snapshot
  <2>3. ASSUME NEW m \in 1 .. Len(d) + 1, NEW n \in 1 .. Len(d) + 1, m <= n
        PROVE  /\ sent'["delivery"][m].outcome \in Confirmed =>
                     sent'["delivery"][n].outcome = sent'["delivery"][m].outcome
               /\ sent'["delivery"][m].settlement # "none" =>
                     sent'["delivery"][n].settlement = sent'["delivery"][m].settlement
    <3>1. CASE n <= Len(d)
      <4>1. m \in 1 .. Len(d) /\ n \in 1 .. Len(d)
        BY <2>1, <2>3, <3>1
      <4>2. sent'["delivery"][m] = d[m] /\ sent'["delivery"][n] = d[n]
        BY <1>1, <1>3, <4>1
      <4>. QED  BY <2>3, <4>1, <4>2 DEF History
    <3>2. CASE n = Len(d) + 1 /\ m <= Len(d)
      BY <1>1, <1>3, <2>1, <2>2, <3>2
    <3>3. CASE n = Len(d) + 1 /\ m = Len(d) + 1
      BY <3>3
    <3>. QED  BY <2>1, <2>3, <3>1, <3>2, <3>3
  <2>. QED  BY <2>1, <2>3 DEF History
<1>. QED  BY <1>2, <1>3

LEMMA SendIInv ==
    ASSUME IInv, NEW t \in Table, Send(t)
    PROVE  IInv'
<1>1. TypeOK' /\ Known' /\ History'
  BY SendTyped, SendKnown, SendHistory DEF IInv
<1>2. UNCHANGED <<row, invitation, audit>>
  BY DEF Send, sql
<1>3. \A u \in Table : row[u] # 0 => sent'[u][row[u]] = sent[u][row[u]]
  <2>1. \A u \in Table : row[u] # 0 => row[u] \in 1 .. Len(sent[u])
    BY DEF IInv, Known, TypeOK
  <2>. QED  BY <2>1, SendKeeps DEF IInv
<1>4. HasParents'
  BY <1>2 DEF IInv, HasParents
<1>5. Follow'
  BY <1>2, <1>3 DEF IInv, Follow, Table, Promise!StateOf
<1>6. Recorded'
  BY <1>2, <1>3 DEF IInv, Recorded
<1>. QED  BY <1>1, <1>4, <1>5, <1>6 DEF IInv

-----------------------------------------------------------------------------
(* A transaction *)

\* A transaction of the delivery leaves the invitation in the state of the
\* snapshot that is stored then.
LEMMA DeliveryWrites ==
    ASSUME IInv, NEW n \in 1 .. Len(sent["delivery"]), Write("delivery", n),
           UNCHANGED sent
    PROVE  Follow' /\ invitation' \in InvitationState
<1>. DEFINE d == sent["delivery"]
            r == row["delivery"]
<1>1. /\ Len(d) \in Nat /\ r \in Nat /\ r <= Len(d)
      /\ n \in Nat /\ n # 0 /\ n <= Len(d)
      /\ \A k \in 1 .. Len(d) : d[k] \in Snapshot
  <2>1. d \in Seq(Snapshot) /\ r \in Nat
    BY Sequences DEF IInv, Table
  <2>. QED  BY <2>1 DEF IInv, Known, Table
<1>2. /\ row'["delivery"] = Newest(r, n)
      /\ invitation' = Settled(Received(n), n)
  BY DEF Write, IInv, TypeOK, Table
<1>3. CASE n < r
  <2>1. Newest(r, n) = r /\ r # n /\ r # 0
    BY <1>1, <1>3 DEF Newest
  <2>2. invitation = Promise!StateOf(d[r]) /\ invitation # "absent"
    <3>1. invitation = Promise!StateOf(d[r]) /\ d[r] \in Snapshot
      BY <1>1, <2>1 DEF IInv, Follow
    <3>. QED  BY <3>1 DEF Promise!StateOf, Snapshot, Settlement, Terminal
  <2>3. invitation' = invitation
    BY <1>2, <2>1, <2>2 DEF Settled, Received
  <2>4. invitation \in InvitationState
    BY DEF IInv, TypeOK
  <2>. QED  BY <1>2, <2>1, <2>2, <2>3, <2>4 DEF Follow
<1>4. CASE n >= r
  <2>1. Newest(r, n) = n
    BY <1>4 DEF Newest
  <2>2. d[n] \in Snapshot
    BY <1>1
  <2>3. Promise!StateOf(d[n]) \in InvitationState
    BY <2>2 DEF Promise!StateOf, Snapshot, Settlement, Terminal, InvitationState
  <2>4. invitation' = Promise!StateOf(d[n])
    <3>1. CASE d[n].settlement # "none"
      BY <1>2, <2>1, <3>1 DEF Settled, Promise!StateOf
    <3>2. CASE d[n].settlement = "none" /\ r = 0
      <4>1. invitation = "absent"
        BY <3>2 DEF IInv, Follow
      <4>. QED  BY <1>2, <2>1, <3>2, <4>1
                DEF Settled, Received, Started, OutcomeState, Promise!StateOf
    <3>3. CASE d[n].settlement = "none" /\ r # 0
      <4>1. r \in 1 .. Len(d) /\ d[r] \in Snapshot
        BY <1>1, <3>3
      <4>2. invitation = Promise!StateOf(d[r])
        BY <3>3 DEF IInv, Follow
      <4>3. /\ d[r].settlement = "none"
            /\ d[r].outcome \in Confirmed => d[n].outcome = d[r].outcome
        BY <1>4, <3>3, <4>1 DEF IInv, History
      <4>. QED  BY <1>2, <2>1, <3>3, <4>1, <4>2, <4>3
                DEF Settled, Received, Started, OutcomeState, Promise!StateOf, Confirmed
    <3>. QED  BY <3>1, <3>2, <3>3
  <2>. QED  BY <1>1, <1>2, <2>1, <2>3, <2>4 DEF Follow
<1>. QED  BY <1>1, <1>3, <1>4

\* What every transaction does to the tables.
LEMMA Writes ==
    ASSUME IInv, NEW t \in Table, NEW n \in 1 .. Len(sent[t]), Write(t, n),
           UNCHANGED sent
    PROVE  /\ row' \in [Table -> Nat]
           /\ audit' \in [Table -> SUBSET Revision]
           /\ invitation' \in InvitationState
           /\ \A u \in Table : row'[u] \in row[u] .. Len(sent[u])
           /\ \A u \in Table : /\ audit[u] \subseteq audit'[u]
                               /\ \A k \in audit'[u] \ audit[u] :
                                     \E m \in 1 .. Len(sent[u]) : k \in sent[u][m].events
           /\ HasParents' /\ Follow' /\ Recorded'
<1>. USE DEF IInv
<1>1. /\ \A u \in Table : row[u] \in Nat /\ Len(sent[u]) \in Nat /\ row[u] <= Len(sent[u])
      /\ n \in Nat /\ n # 0 /\ n <= Len(sent[t])
      /\ sent[t][n] \in Snapshot
  <2>1. \A u \in Table : sent[u] \in Seq(Snapshot) /\ row[u] \in Nat /\ Len(sent[u]) \in Nat
    BY Sequences
  <2>. QED  BY <2>1 DEF Known
<1>2. /\ row' = [row EXCEPT ![t] = Newest(row[t], n)]
      /\ audit' = [audit EXCEPT ![t] = audit[t] \cup sent[t][n].events]
      /\ row \in [Table -> Nat] /\ audit \in [Table -> SUBSET Revision]
  BY DEF Write, TypeOK
<1>3. /\ Newest(row[t], n) \in Nat /\ Newest(row[t], n) # 0
      /\ row[t] <= Newest(row[t], n) /\ Newest(row[t], n) <= Len(sent[t])
      /\ Newest(row[t], n) \in {n, row[t]}
  BY <1>1 DEF Newest
<1>4. row' \in [Table -> Nat] /\ \A u \in Table : row'[u] \in row[u] .. Len(sent[u])
  BY <1>1, <1>2, <1>3
<1>5. audit' \in [Table -> SUBSET Revision]
  <2>1. sent[t][n].events \subseteq Revision
    BY <1>1 DEF Snapshot
  <2>. QED  BY <1>2, <2>1
<1>6. \A u \in Table : /\ audit[u] \subseteq audit'[u]
                       /\ \A k \in audit'[u] \ audit[u] :
                              \E m \in 1 .. Len(sent[u]) : k \in sent[u][m].events
  <2>1. audit'[t] = audit[t] \cup sent[t][n].events
    BY <1>2
  <2>2. \A u \in Table \ {t} : audit'[u] = audit[u]
    BY <1>2
  <2>. QED  BY <2>1, <2>2
<1>7. HasParents'
  <2>1. \A u \in Table : u # t => row'[u] = row[u]
    BY <1>2
  <2>2. row'[t] # 0
    BY <1>2, <1>3
  <2>3. t \in DOMAIN Parent => row[Parent[t]] # 0
    BY DEF Write, Commits, HasParent
  <2>. QED  BY <2>1, <2>2, <2>3 DEF HasParents, Parent, Table
<1>8. Recorded'
  <2>1. ASSUME NEW u \in Table, row'[u] # 0
        PROVE  sent[u][row'[u]].events \subseteq audit'[u]
    <3>1. CASE u # t
      BY <1>2, <2>1, <3>1 DEF Recorded
    <3>2. CASE u = t
      <4>1. row'[t] \in {n, row[t]} /\ audit'[t] = audit[t] \cup sent[t][n].events
        BY <1>2, <1>3
      <4>. QED  BY <2>1, <3>2, <4>1 DEF Recorded
    <3>. QED  BY <3>1, <3>2
  <2>. QED  BY <2>1 DEF Recorded
<1>9. Follow' /\ invitation' \in InvitationState
  <2>1. CASE t = "delivery"
    BY <2>1, DeliveryWrites
  <2>2. CASE t # "delivery"
    <3>1. row'["delivery"] = row["delivery"] /\ invitation' = invitation
      BY <1>2, <2>2 DEF Write, Table
    <3>. QED  BY <3>1 DEF Follow, TypeOK
  <2>. QED  BY <2>1, <2>2
<1>. QED  BY <1>4, <1>5, <1>6, <1>7, <1>8, <1>9

LEMMA WriteIInv ==
    ASSUME IInv, NEW t \in Table, NEW n \in 1 .. Len(sent[t]), Write(t, n),
           UNCHANGED sent,
           queue' \in [Table -> Seq(Revision)], late' \subseteq late, faults' \in Nat,
           \A u \in Table : \A i \in 1 .. Len(queue'[u]) :
               \E j \in 1 .. Len(queue[u]) : queue'[u][i] = queue[u][j]
    PROVE  IInv'
<1>1. TypeOK'
  BY Writes DEF IInv, TypeOK
<1>2. Known'
  <2>1. \A u \in Table : row'[u] <= Len(sent[u])
    <3>1. \A u \in Table : row'[u] \in row[u] .. Len(sent[u])
      BY Writes
    <3>. QED  BY <3>1
  <2>. QED  BY <2>1 DEF IInv, Known
<1>3. History'
  BY DEF IInv, History
<1>. QED  BY <1>1, <1>2, <1>3, Writes DEF IInv

-----------------------------------------------------------------------------
(* The other actions *)

\* The head of a queue was sent.
LEMMA HeadKnown ==
    ASSUME IInv, NEW t \in Table, queue[t] # <<>>
    PROVE  Head(queue[t]) \in Revision /\ Head(queue[t]) \in 1 .. Len(sent[t])
<1>1. /\ queue[t] \in Seq(Revision) /\ Len(queue[t]) \in Nat
      /\ \A i \in 1 .. Len(queue[t]) : queue[t][i] \in Revision
  BY Sequences DEF IInv
<1>2. 1 \in 1 .. Len(queue[t]) /\ Head(queue[t]) = queue[t][1]
  BY <1>1
<1>3. Head(queue[t]) \in Revision /\ Head(queue[t]) <= Len(sent[t])
  BY <1>1, <1>2 DEF IInv, Known
<1>4. \A n \in Revision : n \in Nat /\ n # 0
  <2>1. \A u \in Table : \A n \in 1 .. MaxRevision[u] : n \in Nat /\ n # 0
    BY ProjectionBounds
  <2>. QED  BY <2>1 DEF Revision
<1>5. Len(sent[t]) \in Nat
  BY Sequences DEF IInv
<1>. QED  BY <1>3, <1>4, <1>5

LEMMA ApplyWrites ==
    ASSUME IInv, NEW t \in Table, Apply(t)
    PROVE  \E n \in 1 .. Len(sent[t]) : Write(t, n) /\ UNCHANGED sent
BY HeadKnown DEF Apply

LEMMA ApplyIInv ==
    ASSUME IInv, NEW t \in Table, Apply(t)
    PROVE  IInv'
<1>1. PICK n \in 1 .. Len(sent[t]) : Write(t, n) /\ UNCHANGED sent
  BY ApplyWrites
<1>2. queue[t] \in Seq(Revision) /\ queue[t] # <<>> /\ queue \in [Table -> Seq(Revision)]
  BY DEF Apply, IInv, TypeOK
<1>3. queue' = [queue EXCEPT ![t] = Tail(queue[t])] \/ queue' = queue
  BY DEF Apply
<1>4. queue' \in [Table -> Seq(Revision)]
  <2>1. Tail(queue[t]) \in Seq(Revision)
    BY <1>2
  <2>. QED  BY <1>2, <1>3, <2>1
<1>5. ASSUME NEW u \in Table, NEW i \in 1 .. Len(queue'[u])
      PROVE  \E j \in 1 .. Len(queue[u]) : queue'[u][i] = queue[u][j]
  <2>1. CASE queue'[u] = queue[u]
    BY <2>1
  <2>2. CASE u = t /\ queue'[t] = Tail(queue[t])
    <3>1. i \in 1 .. Len(Tail(queue[t]))
      BY <2>2
    <3>2. i + 1 \in 1 .. Len(queue[t]) /\ Tail(queue[t])[i] = queue[t][i + 1]
      BY <1>2, <3>1
    <3>. QED  BY <2>2, <3>2
  <2>. QED  BY <1>2, <1>3, <2>1, <2>2
<1>6. late' = late /\ faults' \in Nat
  BY DEF Apply, Disturbance, IInv, TypeOK
<1>. QED  BY <1>1, <1>4, <1>5, <1>6, WriteIInv

LEMMA LateKnown ==
    ASSUME IInv, NEW t \in Table, NEW n \in Revision, CommitLate(t, n)
    PROVE  n \in 1 .. Len(sent[t])
<1>1. n <= Len(sent[t])
  BY DEF CommitLate, IInv, Known
<1>2. n \in Nat /\ n # 0
  <2>1. \A u \in Table : \A k \in 1 .. MaxRevision[u] : k \in Nat /\ k # 0
    BY ProjectionBounds
  <2>. QED  BY <2>1 DEF Revision
<1>3. Len(sent[t]) \in Nat
  BY Sequences DEF IInv
<1>. QED  BY <1>1, <1>2, <1>3

LEMMA CommitLateIInv ==
    ASSUME IInv, NEW t \in Table, NEW n \in Revision, CommitLate(t, n)
    PROVE  IInv'
<1>1. n \in 1 .. Len(sent[t])
  BY LateKnown
<1>2. UNCHANGED <<sent, queue, faults>> /\ late' \subseteq late
  BY DEF CommitLate
<1>3. CASE Write(t, n)
  <2>1. queue' \in [Table -> Seq(Revision)] /\ faults' \in Nat
    BY <1>2 DEF IInv, TypeOK
  <2>. QED  BY <1>1, <1>2, <1>3, <2>1, WriteIInv
<1>4. CASE UNCHANGED sql
  <2>1. TypeOK'
    BY <1>2, <1>4 DEF IInv, TypeOK, sql
  <2>2. Known'
    BY <1>2, <1>4 DEF IInv, Known, sql
  <2>. QED  BY <1>2, <1>4, <2>1, <2>2
            DEF IInv, History, HasParents, Follow, Recorded, sql, Promise!StateOf
<1>. QED  BY <1>3, <1>4 DEF CommitLate

LEMMA AbandonIInv ==
    ASSUME IInv, NEW t \in Table, Abandon(t)
    PROVE  IInv'
<1>1. /\ UNCHANGED <<sent, queue, row, invitation, audit>>
      /\ late' = late \cup {<<t, Head(queue[t])>>}
      /\ faults' \in Nat
  BY DEF Abandon, sql, Disturbance, IInv, TypeOK
<1>2. Head(queue[t]) \in Revision /\ Head(queue[t]) <= Len(sent[t])
  <2>1. Len(sent[t]) \in Nat
    BY Sequences DEF IInv
  <2>. QED  BY <2>1, HeadKnown DEF Abandon
<1>3. TypeOK'
  BY <1>1, <1>2 DEF IInv, TypeOK
<1>4. Known'
  BY <1>1, <1>2 DEF IInv, Known
<1>. QED  BY <1>1, <1>3, <1>4
          DEF IInv, History, HasParents, Follow, Recorded, Promise!StateOf

LEMMA ResendIInv ==
    ASSUME IInv, NEW t \in Table, Resend(t)
    PROVE  IInv'
<1>1. /\ UNCHANGED <<sent, late, row, invitation, audit>>
      /\ queue' = [queue EXCEPT ![t] = Append(queue[t], Len(sent[t]))]
      /\ faults' \in Nat
  BY DEF Resend, sql, Disturbance, IInv, TypeOK
<1>2. Len(sent[t]) \in Revision
  <2>1. sent[t] \in Seq(Snapshot) /\ sent[t] # <<>>
    BY Sequences DEF IInv, Resend
  <2>2. Len(sent[t]) <= MaxRevision[t] /\ MaxRevision[t] \in Nat
    BY ProjectionBounds DEF IInv, Known
  <2>3. Len(sent[t]) \in 1 .. MaxRevision[t]
    BY <2>1, <2>2
  <2>. QED  BY <2>3 DEF Revision
<1>3. /\ queue' \in [Table -> Seq(Revision)]
      /\ \A u \in Table : \A i \in 1 .. Len(queue'[u]) :
             \/ \E j \in 1 .. Len(queue[u]) : queue'[u][i] = queue[u][j]
             \/ u = t /\ queue'[u][i] = Len(sent[t])
  BY <1>1, <1>2, Queued DEF IInv
<1>4. TypeOK'
  BY <1>1, <1>3 DEF IInv, TypeOK
<1>5. Known'
  <2>1. Len(sent[t]) \in Nat
    BY Sequences DEF IInv
  <2>2. \A u \in Table : \A i \in 1 .. Len(queue'[u]) : queue'[u][i] <= Len(sent[u])
    BY <1>3, <2>1 DEF IInv, Known
  <2>. QED  BY <1>1, <2>2 DEF IInv, Known
<1>. QED  BY <1>1, <1>4, <1>5
          DEF IInv, History, HasParents, Follow, Recorded, Promise!StateOf

LEMMA NextIInv == IInv /\ [Next]_vars => IInv'
<1>. SUFFICES ASSUME IInv, [Next]_vars PROVE IInv'
  OBVIOUS
<1>1. ASSUME NEW t \in Table, Send(t) PROVE IInv'
  BY <1>1, SendIInv
<1>2. ASSUME NEW t \in Table, Resend(t) PROVE IInv'
  BY <1>2, ResendIInv
<1>3. ASSUME NEW t \in Table, Apply(t) PROVE IInv'
  BY <1>3, ApplyIInv
<1>4. ASSUME NEW t \in Table, Abandon(t) PROVE IInv'
  BY <1>4, AbandonIInv
<1>5. ASSUME NEW t \in Table, NEW n \in Revision, CommitLate(t, n) PROVE IInv'
  BY <1>5, CommitLateIInv
<1>6. CASE UNCHANGED vars
  BY <1>6 DEF IInv, TypeOK, Known, History, HasParents, Follow, Recorded,
              Promise!StateOf, vars, sql
<1>. QED  BY <1>1, <1>2, <1>3, <1>4, <1>5, <1>6 DEF Next

LEMMA Invariant == Spec => []IInv
BY InitIInv, NextIInv, PTL DEF Spec

-----------------------------------------------------------------------------
(* The promise *)

LEMMA InitPromise == Init => Promise!PromiseInit
BY DEF Init, Promise!PromiseInit, Table, Promise!Table

LEMMA SendTells ==
    ASSUME IInv, NEW t \in Table, Send(t)
    PROVE  Promise!Tell
<1>1. PICK s \in Snapshot :
          /\ sent' = [sent EXCEPT ![t] = Append(@, s)]
          /\ Len(sent'[t]) = Len(sent[t]) + 1
          /\ sent'[t][Len(sent[t]) + 1] = s
  BY SendKeeps DEF IInv
<1>2. sent[t] \in Seq(Snapshot) /\ Len(sent[t]) \in Nat
  BY Sequences DEF IInv
<1>3. sent'[t] # <<>>
  BY <1>1, <1>2
<1>4. sent' = [sent EXCEPT ![t] = Append(@, sent'[t][Len(sent'[t])])]
  BY <1>1
<1>. QED  BY <1>3, <1>4 DEF Promise!Tell, Promise!Table, Table, Send, sql

LEMMA WriteShows ==
    ASSUME IInv, NEW t \in Table, NEW n \in 1 .. Len(sent[t]), Write(t, n),
           UNCHANGED sent
    PROVE  Promise!Show
<1>1. \A u \in Table :
          /\ row'[u] \in row[u] .. Len(sent[u])
          /\ audit[u] \subseteq audit'[u]
          /\ \A k \in audit'[u] \ audit[u] :
                \E m \in 1 .. Len(sent[u]) : k \in sent[u][m].events
  BY Writes
<1>2. HasParents' /\ Follow' /\ Recorded'
  BY Writes
<1>3. \A u \in Table : row'[u] # 0 => Promise!Shown(sent, row', u).events \subseteq audit'[u]
  BY <1>2 DEF Recorded, Promise!Shown
<1>4. \A u \in DOMAIN Parent : row'[u] # 0 => row'[Parent[u]] # 0
  BY <1>2 DEF HasParents
<1>5. invitation' = IF row'["delivery"] = 0 THEN "absent"
                    ELSE Promise!StateOf(Promise!Shown(sent, row', "delivery"))
  BY <1>2 DEF Follow, Promise!Shown, Promise!StateOf
<1>. QED  BY <1>1, <1>3, <1>4, <1>5
          DEF Promise!Show, Promise!Table, Table, Promise!Parent, Parent

LEMMA NextPromise ==
    IInv /\ [Next]_vars => [Promise!PromiseNext]_(Promise!promiseVars)
<1>. SUFFICES ASSUME IInv, [Next]_vars
              PROVE  Promise!PromiseNext \/ UNCHANGED Promise!promiseVars
  OBVIOUS
<1>. USE DEF Promise!PromiseNext, Promise!promiseVars
<1>1. ASSUME NEW t \in Table, Send(t) PROVE Promise!Tell
  BY <1>1, SendTells
<1>2. ASSUME NEW t \in Table, Resend(t) \/ Abandon(t)
      PROVE  UNCHANGED Promise!promiseVars
  BY <1>2 DEF Resend, Abandon, sql
<1>3. ASSUME NEW t \in Table, Apply(t) PROVE Promise!Show
  BY <1>3, ApplyWrites, WriteShows
<1>4. ASSUME NEW t \in Table, NEW n \in Revision, CommitLate(t, n)
      PROVE  Promise!Show \/ UNCHANGED Promise!promiseVars
  <2>1. UNCHANGED sent
    BY <1>4 DEF CommitLate
  <2>2. CASE Write(t, n)
    BY <1>4, <2>1, <2>2, LateKnown, WriteShows
  <2>3. CASE UNCHANGED sql
    BY <2>1, <2>3 DEF sql
  <2>. QED  BY <1>4, <2>2, <2>3 DEF CommitLate
<1>5. CASE UNCHANGED vars
  BY <1>5 DEF vars, sql
<1>. QED  BY <1>1, <1>2, <1>3, <1>4, <1>5 DEF Next

-----------------------------------------------------------------------------
(* Theorems *)

\* Every state is well typed; in particular the invitation is only ever in one
\* of the states that the code reads back (delivery_created, SETTLED).
THEOREM ProjectionTypeOK == Spec => []TypeOK
<1>1. IInv => TypeOK
  BY DEF IInv
<1>. QED  BY <1>1, Invariant, PTL

\* The invitation in SQL is always in the state of the delivery snapshot that is
\* stored beside it, whichever transactions were repeated or late.
THEOREM ProjectionStateFollowsReceipt == Spec => []Follow
<1>1. IInv => Follow
  BY DEF IInv
<1>. QED  BY <1>1, Invariant, PTL

\* SQL keeps its promise: rows only move forward along what was sent, never
\* without their parent, with the facts of what they show recorded for good.
THEOREM ProjectionKeepsPromise == Spec => KeepsPromise
<1>. QED  BY Invariant, InitPromise, NextPromise, PTL
          DEF Spec, KeepsPromise, Promise!PromiseSpec
-----------------------------------------------------------------------------
(***************************************************************************)
(* Member webhooks, which read what the projectors have written: the       *)
(* proofs about MemberWebhook, for every set of invitations, links,        *)
(* payloads and handlers. SQL knows nothing that the owners do not, so     *)
(* that a query which finds the uses of a link complete finds its requests *)
(* complete, and with them their deliveries.                               *)
(***************************************************************************)

\* The invitations that were sent, by whatever name their delivery goes now.
SentOnes == {i \in Invitation : delivery[i] # "none"}

SqlFollows ==
    \A i \in Invitation :
        /\ sqlRequest[i] # "none" => request[i] # "none"
        /\ sqlRequest[i] = "approved" => request[i] = "approved"
        /\ sqlDelivery[i] # "none" => delivery[i] # "none"
        /\ delivery[i] # "none" => request[i] = "approved"
        /\ upstream[i] # "none" => delivery[i] # "none"

CausesWereSent == \A e \in events : e.cause \in SentOnes \cup {Nothing}

IsItsOwn(match) ==
    match.invitation # Nothing /\ ~match.hidden =>
        match.causes \subseteq {match.invitation, Nothing}

\* What a webhook request carries from one step to the next.
Handled ==
    \A h \in Handler :
        /\ handler[h].step # "idle" => handler[h].payload \in Payload
        /\ handler[h].step = "bind" =>
              /\ handler[h].match.invitation \in SentOnes \cup {Nothing}
              /\ IsItsOwn(handler[h].match)
        /\ handler[h].step = "dispatch" =>
              /\ handler[h].match.invitation \in Invitation
              /\ receipts[handler[h].payload] = handler[h].match.invitation

Receipted == \A p \in Payload : receipts[p] \in Invitation => receipts[p] \in first[p].sent

WebhookInv ==
    /\ WebhookTypeOK
    /\ SqlFollows
    /\ CausesWereSent
    /\ Handled
    /\ Receipted
    /\ RedeliveryStays
    /\ EventIsOfItsInvitation
    /\ PendingIsNotSettled

LEMMA WebhookStarts == WebhookInit => WebhookInv
<1> SUFFICES ASSUME WebhookInit PROVE WebhookInv
    OBVIOUS
<1>1. WebhookTypeOK
    BY DEF WebhookInit, WebhookTypeOK, RequestState, DeliveryState, Event, Route, Match,
           NoMatch, Idle, NotYet
<1>2. SqlFollows /\ CausesWereSent /\ PendingIsNotSettled
    BY DEF WebhookInit, SqlFollows, CausesWereSent, PendingIsNotSettled
<1>3. Handled /\ Receipted /\ RedeliveryStays
    BY LinksAssumption DEF WebhookInit, Handled, Receipted, RedeliveryStays, Idle
<1>4. EventIsOfItsInvitation
    BY DEF WebhookInit, EventIsOfItsInvitation, NotYet, NoMatch
<1> QED
    BY <1>1, <1>2, <1>3, <1>4 DEF WebhookInv

LEMMA UsesAreCounted ==
    ASSUME NEW state, NEW l
    PROVE  /\ IsFiniteSet({i \in Invitation : LinkOf[i] = l /\ state[i] # "none"})
           /\ Uses(state, l) \in Nat
<1>1. IsFiniteSet({i \in Invitation : LinkOf[i] = l /\ state[i] # "none"})
    BY LinksAssumption, FS_Subset
<1> QED
    BY <1>1, FS_CardinalityType DEF Uses

\* A link whose uses are all in SQL has all its requests there.
LEMMA UsesTellRequests ==
    ASSUME NEW i \in Invitation, NEW l, l = LinkOf[i],
           \A j \in Invitation : sqlRequest[j] # "none" => request[j] # "none",
           Uses(request, l) <= Uses(sqlRequest, l), request[i] # "none"
    PROVE  sqlRequest[i] # "none"
<1> DEFINE Of(state) == {j \in Invitation : LinkOf[j] = l /\ state[j] # "none"}
<1>1. Of(sqlRequest) \subseteq Of(request)
    OBVIOUS
<1>2. IsFiniteSet(Of(request)) /\ Uses(request, l) \in Nat /\ Uses(sqlRequest, l) \in Nat
    BY UsesAreCounted
<1>3. /\ Cardinality(Of(sqlRequest)) <= Cardinality(Of(request))
      /\ Cardinality(Of(request)) = Cardinality(Of(sqlRequest)) =>
             Of(request) = Of(sqlRequest)
    BY <1>1, <1>2, FS_Subset
<1>4. Of(request) = Of(sqlRequest)
    BY <1>2, <1>3 DEF Uses
<1>5. i \in Of(request)
    OBVIOUS
<1> QED
    BY <1>4, <1>5

\* The query's answer: of all invitations that were sent, none is another's.
LEMMA CandidateIsOnlyOne ==
    ASSUME WebhookTypeOK, SqlFollows, Candidate # Nothing, ~Hidden
    PROVE  SentOnes \subseteq {Candidate}
<1>1. PICK i \in Candidates : Candidates = {i} /\ sqlDelivery[i] = "sent"
    BY DEF Candidate
<1>2. Candidate = i
    BY <1>1 DEF Candidate
<1>3. ~RequestIsMissing /\ ~DeliveryIsMissing /\ Rows = {i}
    BY <1>1 DEF Candidates
<1>4. SUFFICES ASSUME NEW j \in SentOnes PROVE j = i
    BY <1>2
<1>5. j \in Invitation /\ request[j] = "approved"
    BY DEF SentOnes, SqlFollows
<1>6. LinkOf[j] \in Link
    BY <1>5, LinksAssumption
<1>7. Uses(request, LinkOf[j]) <= Uses(sqlRequest, LinkOf[j])
    <2>1. /\ sqlUses[LinkOf[j]] \in Nat
          /\ Uses(request, LinkOf[j]) \in Nat /\ Uses(sqlRequest, LinkOf[j]) \in Nat
        BY <1>6, UsesAreCounted DEF WebhookTypeOK
    <2> QED
        BY <2>1, <1>3, <1>6 DEF RequestIsMissing, Hidden
<1>8. sqlRequest[j] # "none"
    BY <1>5, <1>7, UsesTellRequests DEF SqlFollows
<1>9. sqlRequest[j] = "approved"
    BY <1>5, <1>8 DEF Hidden, WebhookTypeOK, RequestState
<1> QED
    BY <1>3, <1>5, <1>9 DEF DeliveryIsMissing, Rows

LEMMA CandidateWasSent ==
    ASSUME SqlFollows
    PROVE  Candidate \in SentOnes \cup {Nothing}
<1>1. CASE \E i \in Candidates : Candidates = {i} /\ sqlDelivery[i] = "sent"
    <2>1. PICK i \in Candidates : Candidates = {i} /\ sqlDelivery[i] = "sent"
        BY <1>1
    <2>2. Candidate = i /\ i \in Invitation
        BY <2>1 DEF Candidate, Candidates, Rows
    <2> QED
        BY <2>1, <2>2 DEF SqlFollows, SentOnes
<1> QED
    BY <1>1 DEF Candidate

LEMMA ReceiveKeeps ==
    ASSUME WebhookInv, NEW h \in Handler, NEW p \in Payload, Receive(h, p)
    PROVE  WebhookInv'
<1> USE DEF WebhookInv
<1> DEFINE causes == {e.cause : e \in {x \in events : x.payload = p}}
           Matched(found) == [invitation |-> found, hidden |-> Hidden, causes |-> causes]
<1>1. PICK found \in {Candidate, Nothing} :
          handler' = [handler EXCEPT ![h].step = "bind", ![h].payload = p,
                                     ![h].match = Matched(found)]
    BY DEF Receive
<1> DEFINE match == Matched(found)
<1>2. causes \subseteq SentOnes \cup {Nothing}
    BY DEF CausesWereSent
<1>3. found \in SentOnes \cup {Nothing}
    BY CandidateWasSent
<1>4. IsItsOwn(match)
    BY <1>2, CandidateIsOnlyOne DEF IsItsOwn
<1>5. Hidden \in BOOLEAN
    BY DEF Hidden
<1>6. match \in Match /\ match.invitation = found
    BY <1>2, <1>3, <1>5 DEF Match, SentOnes
<1> HIDE DEF match, Matched, causes
<1>7. /\ handler' \in [Handler -> [step : {"idle", "bind", "dispatch"},
                                   payload : Payload \cup {Nothing}, match : Match]]
      /\ handler'[h].step = "bind" /\ handler'[h].payload = p /\ handler'[h].match = match
      /\ \A g \in Handler \ {h} : handler'[g] = handler[g]
    BY <1>1, <1>6 DEF match, WebhookTypeOK
<1>8. UNCHANGED <<request, delivery, sqlUses, sqlRequest, sqlDelivery, receipts,
                  upstream, member, events, routed, observing, first>>
    BY DEF Receive, owners, stored, github
<1>9. WebhookTypeOK'
    BY <1>6, <1>7, <1>8 DEF WebhookTypeOK
<1>10. Handled'
    BY <1>3, <1>4, <1>6, <1>7, <1>8 DEF Handled, SentOnes, IsItsOwn, WebhookTypeOK
<1>11. SqlFollows' /\ CausesWereSent' /\ Receipted' /\ RedeliveryStays'
    BY <1>8 DEF SqlFollows, CausesWereSent, SentOnes, Receipted, RedeliveryStays
<1>12. EventIsOfItsInvitation' /\ PendingIsNotSettled'
    BY <1>8 DEF EventIsOfItsInvitation, PendingIsNotSettled
<1> QED
    BY <1>9, <1>10, <1>11, <1>12

LEMMA BindKeeps ==
    ASSUME WebhookInv, NEW h \in Handler, Bind(h)
    PROVE  WebhookInv'
<1> USE DEF WebhookInv
<1> DEFINE p == handler[h].payload
           match == handler[h].match
           bound == Retain(p, match.invitation)
           Matched(i) == [Idle EXCEPT !.step = "dispatch", !.payload = p,
                                      !.match.invitation = i]
<1>1. /\ handler[h].step = "bind" /\ p \in Payload /\ match \in Match
      /\ match.invitation \in SentOnes \cup {Nothing} /\ IsItsOwn(match)
    BY DEF Bind, Handled, WebhookTypeOK
<1>2. bound \in Invitation \cup {Nothing}
    BY <1>1 DEF Retain, WebhookTypeOK, SentOnes
<1>3. /\ receipts' = [receipts EXCEPT ![p] = bound]
      /\ first' = IF receipts[p] # Unbound THEN first
                  ELSE [first EXCEPT ![p] = [sent |-> SentOnes, match |-> match]]
      /\ handler' = [handler EXCEPT ![h] =
             IF receipts'[p] = Nothing THEN Idle ELSE Matched(receipts'[p])]
      /\ UNCHANGED <<request, delivery, sqlUses, sqlRequest, sqlDelivery, upstream,
                     member, events, routed, observing>>
    BY DEF Bind, SentOnes, owners, stored, github
<1>4. receipts'[p] = bound /\ \A q \in Payload : receipts[q] # Unbound => receipts'[q] = receipts[q]
    BY <1>1, <1>3 DEF Retain, WebhookTypeOK
<1>5. \A i \in Invitation :
          /\ Matched(i) \in [step : {"idle", "bind", "dispatch"},
                             payload : Payload \cup {Nothing}, match : Match]
          /\ Matched(i).step = "dispatch" /\ Matched(i).payload = p
          /\ Matched(i).match.invitation = i
    BY <1>1 DEF Idle, NoMatch, Match
<1> HIDE DEF p, match, bound, Matched
<1>6. WebhookTypeOK'
    <2>1. receipts' \in [Payload -> Invitation \cup {Nothing, Unbound}]
        BY <1>1, <1>2, <1>3 DEF WebhookTypeOK
    <2>2. first' \in [Payload -> [sent : SUBSET Invitation, match : Match]]
        BY <1>1, <1>3 DEF WebhookTypeOK, SentOnes
    <2>3. handler' \in [Handler -> [step : {"idle", "bind", "dispatch"},
                                    payload : Payload \cup {Nothing}, match : Match]]
        <3>1. Idle \in [step : {"idle", "bind", "dispatch"},
                        payload : Payload \cup {Nothing}, match : Match]
            BY DEF Idle, NoMatch, Match
        <3> QED
            BY <1>1, <1>2, <1>3, <1>4, <1>5, <3>1 DEF WebhookTypeOK
    <2> QED
        BY <1>3, <2>1, <2>2, <2>3 DEF WebhookTypeOK
<1>7. Handled'
    <2> SUFFICES ASSUME NEW g \in Handler
                 PROVE  /\ handler'[g].step # "idle" => handler'[g].payload \in Payload
                        /\ handler'[g].step = "bind" =>
                              /\ handler'[g].match.invitation \in SentOnes \cup {Nothing}
                              /\ IsItsOwn(handler'[g].match)
                        /\ handler'[g].step = "dispatch" =>
                              /\ handler'[g].match.invitation \in Invitation
                              /\ receipts'[handler'[g].payload] =
                                     handler'[g].match.invitation
        BY <1>3 DEF Handled, SentOnes, IsItsOwn
    <2>1. CASE g = h
        BY <1>1, <1>2, <1>3, <1>4, <1>5, <2>1 DEF Idle, WebhookTypeOK
    <2>2. CASE g # h
        <3>1. handler'[g] = handler[g]
            BY <1>3, <2>2 DEF WebhookTypeOK
        <3> QED
            BY <1>4, <3>1, LinksAssumption DEF Handled
    <2> QED
        BY <2>1, <2>2
<1>8. Receipted'
    BY <1>1, <1>3, <1>4, LinksAssumption DEF Receipted, WebhookTypeOK, Retain, SentOnes, bound
<1>9. RedeliveryStays'
    BY <1>1, <1>3, <1>4, LinksAssumption DEF RedeliveryStays, WebhookTypeOK, Route
<1>10. EventIsOfItsInvitation'
    BY <1>1, <1>3 DEF EventIsOfItsInvitation, WebhookTypeOK, IsItsOwn
<1>11. SqlFollows' /\ CausesWereSent' /\ PendingIsNotSettled'
    BY <1>3 DEF SqlFollows, CausesWereSent, SentOnes, PendingIsNotSettled
<1> QED
    BY <1>6, <1>7, <1>8, <1>9, <1>10, <1>11

LEMMA DispatchKeeps ==
    ASSUME WebhookInv, NEW h \in Handler, Dispatch(h) \/ Fail(h)
    PROVE  WebhookInv'
<1> USE DEF WebhookInv
<1>1. handler' = [handler EXCEPT ![h] = Idle]
    BY DEF Dispatch, Fail
<1>2. UNCHANGED <<request, delivery, sqlUses, sqlRequest, sqlDelivery, receipts,
                  upstream, member, events, observing, first>>
    BY DEF Dispatch, Fail, owners, stored, github
<1>3. Handled'
    BY <1>1, <1>2 DEF Handled, SentOnes, IsItsOwn, WebhookTypeOK, Idle
<1>4. /\ routed' \subseteq Route
      /\ RedeliveryStays'
    <2>1. CASE Dispatch(h)
        <3>1. PICK r \in Route :
                  /\ routed' = routed \cup {r}
                  /\ r.invitation = receipts[r.payload]
            <4>1. [payload |-> handler[h].payload,
                   invitation |-> handler[h].match.invitation] \in Route
                BY <2>1 DEF Dispatch, Handled, Route
            <4> QED
                BY <2>1, <4>1 DEF Dispatch, Handled
        <3> QED
            BY <1>2, <3>1 DEF WebhookTypeOK, Route, RedeliveryStays, Receipted
    <2>2. CASE Fail(h)
        BY <1>2, <2>2 DEF Fail, WebhookTypeOK, RedeliveryStays
    <2> QED
        BY <2>1, <2>2
<1>5. WebhookTypeOK'
    BY <1>1, <1>2, <1>4 DEF WebhookTypeOK, Idle, NoMatch, Match
<1>6. SqlFollows' /\ CausesWereSent' /\ Receipted'
    BY <1>2 DEF SqlFollows, CausesWereSent, SentOnes, Receipted
<1>7. EventIsOfItsInvitation' /\ PendingIsNotSettled'
    BY <1>2 DEF EventIsOfItsInvitation, PendingIsNotSettled
<1> QED
    BY <1>3, <1>4, <1>5, <1>6, <1>7

\* What happens outside the webhook requests leaves what they carry true, as
\* long as no delivery is forgotten.
LEMMA RequestsAreUntouched ==
    ASSUME WebhookInv, UNCHANGED <<receipts, handler, routed, first>>,
           \A i \in Invitation : delivery[i] # "none" => delivery'[i] # "none"
    PROVE  Handled' /\ Receipted' /\ RedeliveryStays' /\ EventIsOfItsInvitation'
<1>1. SentOnes \subseteq SentOnes'
    BY DEF SentOnes
<1>2. Handled'
    BY <1>1 DEF WebhookInv, Handled, IsItsOwn
<1> QED
    BY <1>2 DEF WebhookInv, Receipted, RedeliveryStays, EventIsOfItsInvitation

LEMMA OwnersKeep ==
    ASSUME WebhookInv, NEW i \in Invitation, Admit(i) \/ Create(i)
    PROVE  WebhookInv'
<1> USE DEF WebhookInv
<1>1. UNCHANGED <<sqlUses, sqlRequest, sqlDelivery, receipts, member, events, handler,
                  routed, observing, first>>
    BY DEF Admit, Create, owners, stored, github
<1>2. WebhookTypeOK' /\ SqlFollows' /\ PendingIsNotSettled'
      /\ \A j \in Invitation : delivery[j] # "none" => delivery'[j] # "none"
    <2>1. CASE Admit(i)
        BY <1>1, <2>1 DEF Admit, github, WebhookTypeOK, RequestState, SqlFollows,
                          PendingIsNotSettled
    <2>2. CASE Create(i)
        <3>1. CASE ~member /\ (\A j \in Invitation : upstream[j] # "pending")
                   /\ delivery' = [delivery EXCEPT ![i] = "sent"]
                   /\ upstream' = [upstream EXCEPT ![i] = "pending"]
            BY <1>1, <2>2, <3>1 DEF Create, WebhookTypeOK, DeliveryState, SqlFollows,
                                    PendingIsNotSettled
        <3>2. CASE delivery' = [delivery EXCEPT ![i] = "other"] /\ UNCHANGED upstream
            BY <1>1, <2>2, <3>2 DEF Create, WebhookTypeOK, DeliveryState, SqlFollows,
                                    PendingIsNotSettled
        <3> QED
            BY <2>2, <3>1, <3>2 DEF Create
    <2> QED
        BY <2>1, <2>2
<1>3. CausesWereSent'
    BY <1>1, <1>2 DEF CausesWereSent, SentOnes
<1> QED
    BY <1>1, <1>2, <1>3, RequestsAreUntouched

LEMMA ProjectorsKeep ==
    ASSUME WebhookInv,
           \/ \E l \in Link : ProjectLink(l)
           \/ \E i \in Invitation : ProjectRequest(i) \/ ProjectDelivery(i)
    PROVE  WebhookInv'
<1> USE DEF WebhookInv
<1>1. UNCHANGED <<request, delivery, receipts, upstream, member, events, handler,
                  routed, observing, first>>
    BY DEF ProjectLink, ProjectRequest, ProjectDelivery, owners, github
<1>2. WebhookTypeOK' /\ SqlFollows'
    <2>1. ASSUME NEW l \in Link, ProjectLink(l)
          PROVE  WebhookTypeOK' /\ SqlFollows'
        <3>1. Uses(request, l) \in Nat
            BY UsesAreCounted
        <3> QED
            BY <1>1, <2>1, <3>1 DEF ProjectLink, WebhookTypeOK, SqlFollows
    <2>2. ASSUME NEW i \in Invitation, ProjectRequest(i)
          PROVE  WebhookTypeOK' /\ SqlFollows'
        BY <1>1, <2>2 DEF ProjectRequest, WebhookTypeOK, SqlFollows
    <2>3. ASSUME NEW i \in Invitation, ProjectDelivery(i)
          PROVE  WebhookTypeOK' /\ SqlFollows'
        BY <1>1, <2>3 DEF ProjectDelivery, WebhookTypeOK, SqlFollows
    <2> QED
        BY <2>1, <2>2, <2>3
<1>3. CausesWereSent' /\ PendingIsNotSettled'
    BY <1>1 DEF CausesWereSent, SentOnes, PendingIsNotSettled
<1> QED
    BY <1>1, <1>2, <1>3, RequestsAreUntouched

\* An invitation that was sent is observed, and settled when it is over.
LEMMA ObservationsKeep ==
    ASSUME WebhookInv,
           \/ \E r \in routed : OnWebhook(r)
           \/ \E i \in Invitation : Observe(i) \/ Named(i)
    PROVE  WebhookInv'
<1> USE DEF WebhookInv
<1>1. UNCHANGED <<request, sqlUses, sqlRequest, sqlDelivery, receipts, upstream, member,
                  events, handler, routed, first>>
    BY DEF OnWebhook, Observe, Named, owners, stored, github
<1>2. observing' \subseteq Invitation
    BY DEF OnWebhook, Observe, Named, WebhookTypeOK, Route
<1>3. \/ delivery' = delivery
      \/ \E i \in Invitation :
             /\ delivery[i] = "sent" /\ upstream[i] # "pending"
             /\ delivery' = [delivery EXCEPT ![i] = "settled"]
    BY DEF OnWebhook, Observe, Named, Settle, owners
<1>4. WebhookTypeOK' /\ SqlFollows' /\ PendingIsNotSettled'
      /\ \A j \in Invitation : delivery[j] # "none" => delivery'[j] # "none"
    <2>1. CASE delivery' = delivery
        BY <1>1, <1>2, <2>1 DEF WebhookTypeOK, SqlFollows, PendingIsNotSettled
    <2>2. ASSUME NEW i \in Invitation, delivery[i] = "sent", upstream[i] # "pending",
                 delivery' = [delivery EXCEPT ![i] = "settled"]
          PROVE  WebhookTypeOK' /\ SqlFollows' /\ PendingIsNotSettled'
                 /\ \A j \in Invitation : delivery[j] # "none" => delivery'[j] # "none"
        BY <1>1, <1>2, <2>2 DEF WebhookTypeOK, DeliveryState, SqlFollows,
                                PendingIsNotSettled
    <2> QED
        BY <1>3, <2>1, <2>2
<1>5. CausesWereSent'
    BY <1>1, <1>4 DEF CausesWereSent, SentOnes
<1> QED
    BY <1>1, <1>4, <1>5, RequestsAreUntouched

\* GitHub's events name nobody's invitation or one that was pending.
LEMMA GitHubKeeps ==
    ASSUME WebhookInv,
           (\E i \in Invitation : Answer(i)) \/ AddDirectly \/ Remove
    PROVE  WebhookInv'
<1> USE DEF WebhookInv
<1>1. UNCHANGED <<request, delivery, sqlUses, sqlRequest, sqlDelivery, receipts, handler,
                  routed, observing, first>>
    BY DEF Answer, AddDirectly, Remove, owners, stored
<1>2. \/ upstream' = upstream
      \/ \E i \in Invitation, a \in {"accepted", "gone"} :
             upstream[i] = "pending" /\ upstream' = [upstream EXCEPT ![i] = a]
    BY DEF Answer, AddDirectly, Remove
<1>3. member' \in BOOLEAN
    BY DEF Answer, AddDirectly, Remove, WebhookTypeOK
<1>4. /\ events' \subseteq Event
      /\ \A e \in events' : e \in events \/ e.cause = Nothing \/ upstream[e.cause] = "pending"
    BY DEF Answer, AddDirectly, Remove, WebhookTypeOK, Event
<1>5. WebhookTypeOK' /\ SqlFollows' /\ PendingIsNotSettled'
    <2>1. CASE upstream' = upstream
        BY <1>1, <1>3, <1>4, <2>1 DEF WebhookTypeOK, SqlFollows, PendingIsNotSettled
    <2>2. ASSUME NEW i \in Invitation, NEW a \in {"accepted", "gone"},
                 upstream[i] = "pending", upstream' = [upstream EXCEPT ![i] = a]
          PROVE  WebhookTypeOK' /\ SqlFollows' /\ PendingIsNotSettled'
        BY <1>1, <1>3, <1>4, <2>2 DEF WebhookTypeOK, SqlFollows, PendingIsNotSettled
    <2> QED
        BY <1>2, <2>1, <2>2
<1>6. CausesWereSent'
    BY <1>1, <1>4 DEF CausesWereSent, SentOnes, PendingIsNotSettled, Event
<1> QED
    BY <1>1, <1>5, <1>6, RequestsAreUntouched

LEMMA WebhookSteps ==
    ASSUME WebhookInv, [WebhookNext]_webhookVars
    PROVE  WebhookInv'
<1>1. CASE UNCHANGED webhookVars
    BY <1>1 DEF WebhookInv, webhookVars, owners, stored, github, WebhookTypeOK, SqlFollows,
                CausesWereSent, SentOnes, Handled, IsItsOwn, Receipted, RedeliveryStays,
                EventIsOfItsInvitation, PendingIsNotSettled
<1>2. ASSUME NEW i \in Invitation,
             \/ Admit(i) \/ Create(i) \/ ProjectRequest(i) \/ ProjectDelivery(i)
             \/ Observe(i) \/ Named(i) \/ Answer(i)
      PROVE  WebhookInv'
    BY <1>2, OwnersKeep, ProjectorsKeep, ObservationsKeep, GitHubKeeps
<1>3. ASSUME NEW l \in Link, ProjectLink(l)
      PROVE  WebhookInv'
    BY <1>3, ProjectorsKeep
<1>4. ASSUME NEW h \in Handler,
             (\E p \in Payload : Receive(h, p)) \/ Bind(h) \/ Dispatch(h) \/ Fail(h)
      PROVE  WebhookInv'
    BY <1>4, ReceiveKeeps, BindKeeps, DispatchKeeps
<1>5. CASE \E r \in routed : OnWebhook(r)
    BY <1>5, ObservationsKeep
<1>6. CASE AddDirectly \/ Remove
    BY <1>6, GitHubKeeps
<1> QED
    BY <1>1, <1>2, <1>3, <1>4, <1>5, <1>6 DEF WebhookNext

LEMMA WebhookHolds == WebhookSpec => []WebhookInv
<1>1. WebhookInv /\ [WebhookNext]_webhookVars => WebhookInv'
    BY WebhookSteps
<1> QED
    BY WebhookStarts, <1>1, PTL DEF WebhookSpec

\* The variables of MemberWebhook stay in their types.
THEOREM WebhookTyped == WebhookSpec => []WebhookTypeOK
<1>1. WebhookInv => WebhookTypeOK
    BY DEF WebhookInv
<1> QED
    BY <1>1, WebhookHolds, PTL

\* However many requests, links and handlers, and however late SQL: an event is
\* taken for the invitation behind it or for nobody's, unless a link's counter
\* or an approval was missing from SQL (MEMBER_CANDIDATES, github_invitations.rs:33).
THEOREM WebhookTellsInvitations == WebhookSpec => []EventIsOfItsInvitation
<1>1. WebhookInv => EventIsOfItsInvitation
    BY DEF WebhookInv
<1> QED
    BY <1>1, WebhookHolds, PTL

\* All deliveries of one payload go to one invitation, sent before the payload
\* was first recorded (BIND_MEMBER_WEBHOOK, github_invitations.rs:53).
THEOREM WebhookRedelivered == WebhookSpec => []RedeliveryStays
<1>1. WebhookInv => RedeliveryStays
    BY DEF WebhookInv
<1> QED
    BY <1>1, WebhookHolds, PTL

\* No event, taken for whichever invitation, settles one that GitHub has pending
\* (on_webhook and observe, settlement.rs:219).
THEOREM WebhookIsHarmless == WebhookSpec => []PendingIsNotSettled
<1>1. WebhookInv => PendingIsNotSettled
    BY DEF WebhookInv
<1> QED
    BY <1>1, WebhookHolds, PTL
=============================================================================
