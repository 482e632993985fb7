--------------------------- MODULE AttemptsProofs ---------------------------
(***************************************************************************)
(* For every set of inputs, identities and tabs, and for any number of      *)
(* submissions and disturbances: Attempts is well typed, what the browser   *)
(* is told is so, one decision is sent, and what took effect stays          *)
(* recoverable. The argument turns on creations that can never succeed      *)
(* again: their expiry passed while their object retained nothing of them.  *)
(***************************************************************************)
EXTENDS Attempts, FiniteSetTheorems, TLAPS

-----------------------------------------------------------------------------
(* The inductive invariant *)

\* This creation never takes effect.
Dead(c) ==
    /\ c.kind = "create"
    /\ late
    /\ c.input \in Expiring
    /\ authority[c.id].input # c.input

Backed(c) == \E r \in rows : r.id = c.id /\ Input(r) = Input(c)

\* What is owed to a command that is or was on its way to its object.
Kept(c) ==
    /\ c.kind = "decide" => c \in rows
    /\ Backed(c) \/ c \in stray \/ Dead(c)

TypeInv ==
    /\ TypeOK
    /\ \A t \in Tab : pc[t] # "idle" => command[t] \in Command

\* A call whose answer is awaited is the tab's only one.
CallInv ==
    /\ \A call \in calls :
          /\ call.tab # None => pc[call.tab] = "await"
          /\ call.tab # None => command[call.tab] = call.command
          /\ call.prepare => call.command.kind = "admit"
    /\ \A x, y \in calls : x.tab = y.tab /\ x.tab # None => x = y

RowInv ==
    \A r, s \in rows : r.id = s.id \/ r.binding = s.binding => r = s

SentInv ==
    /\ \A t \in Tab : pc[t] \in {"send", "await"} => Kept(command[t])
    /\ \A t \in Tab : pc[t] = "release" => Dead(command[t])
    /\ \A c \in sent : Kept(c)

ToldInv ==
    \A x \in told :
        IF x.outcome = "invalid"
        THEN Dead(x.command)
        ELSE /\ x.outcome \in Outcome \ {"prepared"}
             /\ authority[x.command.id] =
                   [input |-> Input(x.command), outcome |-> x.outcome]

IInv == TypeInv /\ CallInv /\ RowInv /\ SentInv /\ ToldInv

-----------------------------------------------------------------------------
(* Commands *)

\* An identity tells the kind, and with the input the whole command.
LEMMA CommandShape ==
    ASSUME NEW c \in Command
    PROVE  /\ c.id \in Id
           /\ c.kind \in {"create", "revoke", "decide", "admit"}
           /\ c.kind = "create" <=> c.id = "creation"
           /\ c.kind = "create" => c.binding = "creation" /\ c.input \in Value
           /\ c.kind = "revoke" <=> c.id = "revocation"
           /\ c.kind = "revoke" => c.input = None
           /\ c.kind = "decide" <=> c.id \in Operation
           /\ c.kind = "decide" => c.binding = "request" /\ c.input \in Action
           /\ c.kind = "admit" <=> c.id \in Attempt
           /\ c.kind = "admit" => c.binding = c.id /\ c.input \in Text
           /\ Input(c) \in Value \cup Action \cup Text \cup {None}
<1>1. CASE c \in Creation
  BY <1>1, AttemptsBounds DEF Creation, Id, Input
<1>2. CASE c \in Revocation
  BY <1>2, AttemptsBounds DEF Revocation, Id, Input
<1>3. CASE c \in Decision
  BY <1>3, AttemptsBounds DEF Decision, Id, Input, Binding
<1>4. CASE c \in Admission
  BY <1>4, AttemptsBounds DEF Admission, Id, Input
<1> QED  BY <1>1, <1>2, <1>3, <1>4 DEF Command

LEMMA CommandIsItsInput ==
    ASSUME NEW c \in Command, NEW d \in Command,
           c.kind = "create", c.id = d.id, Input(c) = Input(d)
    PROVE  c = d
<1>1. c \in Creation /\ d \in Creation
  BY CommandShape, AttemptsBounds
     DEF Command, Creation, Revocation, Decision, Admission
<1> QED  BY <1>1 DEF Creation, Input

LEMMA DecisionKind ==
    ASSUME NEW c \in Decision
    PROVE  c \in Command /\ c.kind = "decide" /\ c.binding = "request"
BY DEF Decision, Command, Binding

-----------------------------------------------------------------------------
(* Steps *)

LEMMA NextCases ==
    ASSUME [Next]_vars
    PROVE  \/ \E t \in Tab, c \in Command : Submit(t, c)
           \/ \E t \in Tab, c \in Command : Retry(t, c)
           \/ \E t \in Tab : Recover(t)
           \/ \E t \in Tab : RetainInsert(t)
           \/ \E t \in Tab : RetainFind(t)
           \/ \E t \in Tab : Send(t)
           \/ \E t \in Tab : Release(t)
           \/ \E t \in Tab : TimeOut(t)
           \/ \E t \in Tab : CutOff(t)
           \/ \E c \in Command : Look(c)
           \/ \E call \in calls : Handle(call)
           \/ DecidedElsewhere
           \/ ExpiryPasses
           \/ SessionEnds
           \/ UNCHANGED vars
BY DEF Next, Step

\* What an object makes of a call.
Refused(call) ==
    /\ authority[call.command.id] # Nothing
    /\ Reply(call, "conflict")
    /\ UNCHANGED objectVars

Replayed(call) ==
    LET known == authority[call.command.id] IN
    /\ known # Nothing
    /\ known.input = Input(call.command)
    /\ known.outcome # "prepared" \/ call.prepare
    /\ Reply(call, known.outcome)
    /\ UNCHANGED objectVars

Expired(call) ==
    /\ authority[call.command.id] = Nothing
    /\ call.command.kind = "create"
    /\ late
    /\ call.command.input \in Expiring
    /\ Reply(call, "invalid")
    /\ UNCHANGED objectVars

Prepared(call) ==
    /\ authority[call.command.id] = Nothing
    /\ call.prepare
    /\ Retain(call.command, "prepared")
    /\ Reply(call, "prepared")
    /\ UNCHANGED request

Completed(call, outcome) ==
    LET c == call.command
        known == authority[c.id] IN
    /\ ~call.prepare
    /\ known = Nothing \/ known = [input |-> Input(c), outcome |-> "prepared"]
    /\ ~(c.kind = "create" /\ late /\ c.input \in Expiring)
    /\ Retain(c, outcome)
    /\ Reply(call, outcome)
    /\ request' = IF c.kind = "decide" /\ request = "pending"
                  THEN Done(c) ELSE request

LEMMA HandleCases ==
    ASSUME NEW call \in calls, Handle(call)
    PROVE  /\ \/ Refused(call)
              \/ Replayed(call)
              \/ Expired(call)
              \/ Prepared(call)
              \/ \E outcome \in Possible(call.command) : Completed(call, outcome)
           /\ UNCHANGED <<rows, late, ended, sent, stray, submissions, faults>>
BY DEF Handle, Refused, Replayed, Expired, Prepared, Completed

LEMMA PossibleIsFinal ==
    ASSUME NEW c \in Command
    PROVE  Possible(c) \subseteq Outcome \ {"prepared"}
<1>1. DecisionOutcome(c) \in {"applied", "already", "incompatible"}
  BY DEF DecisionOutcome
<1> QED  BY <1>1, CommandShape DEF Possible, Outcome

\* What a web request makes of an answer.
LEMMA ReplyCases ==
    ASSUME NEW call \in calls, NEW outcome, Reply(call, outcome)
    PROVE  LET t == call.tab
               c == call.command IN
           \/ /\ t = None
              /\ calls' = calls \ {call}
              /\ UNCHANGED <<pc, command, told>>
           \/ /\ t # None
              /\ outcome = "prepared"
              /\ calls' = (calls \ {Call(t, c, TRUE)}) \cup {Call(t, c, FALSE)}
              /\ UNCHANGED <<pc, command, told>>
           \/ /\ t # None
              /\ outcome = "invalid"
              /\ calls' = calls \ {Call(t, c, FALSE)}
              /\ Goto(t, "release")
              /\ UNCHANGED <<command, told>>
           \/ /\ t # None
              /\ outcome = "conflict"
              /\ calls' = {x \in calls : x.tab # t}
              /\ Respond(t)
              /\ UNCHANGED told
           \/ /\ t # None
              /\ outcome \notin {"prepared", "invalid", "conflict"}
              /\ calls' = {x \in calls : x.tab # t}
              /\ Respond(t)
              /\ told' = told \cup {[command |-> c, outcome |-> outcome]}
<1>1. CASE call.tab = None
  BY <1>1 DEF Reply, webVars
<1>2. CASE call.tab # None
  <2>1. Triage(call.tab, call.command, outcome)
    BY <1>2 DEF Reply
  <2> QED  BY <1>2, <2>1 DEF Triage, Tell, webVars
<1> QED  BY <1>1, <1>2

-----------------------------------------------------------------------------
(* Types *)

CallRecord == [tab : Tab \cup {None}, command : Command, prepare : BOOLEAN]

LEMMA CallTyped ==
    ASSUME NEW t \in Tab, NEW c \in Command, NEW prepare \in BOOLEAN
    PROVE  Call(t, c, prepare) \in CallRecord
BY DEF Call, CallRecord

\* A web request that ends or moves on stays well typed.
WebTyped ==
    /\ pc \in [Tab -> PC]
    /\ command \in [Tab -> Command \cup {None}]
    /\ \A t \in Tab : pc[t] # "idle" => command[t] \in Command

LEMMA RespondTyped ==
    ASSUME WebTyped, NEW t \in Tab, Respond(t)
    PROVE  WebTyped'
BY DEF WebTyped, Respond, Goto, PC

LEMMA GotoTyped ==
    ASSUME WebTyped, NEW t \in Tab, NEW place \in PC, pc[t] # "idle",
           Goto(t, place), UNCHANGED command
    PROVE  WebTyped'
BY DEF WebTyped, Goto, PC

LEMMA ReplyTyped ==
    ASSUME TypeInv, CallInv, NEW call \in calls, NEW outcome \in Answer,
           Reply(call, outcome)
    PROVE  /\ WebTyped'
           /\ calls' \subseteq CallRecord
           /\ told' \subseteq [command : Command, outcome : Answer]
<1>1. /\ WebTyped
      /\ calls \subseteq CallRecord
      /\ told \subseteq [command : Command, outcome : Answer]
      /\ call \in CallRecord
  BY DEF TypeInv, TypeOK, WebTyped, CallRecord
<1>2. /\ call.tab \in Tab \cup {None}
      /\ call.command \in Command
      /\ call.tab # None => pc[call.tab] = "await"
  BY <1>1 DEF CallRecord, CallInv
<1>3. calls' \subseteq CallRecord
  BY <1>1, <1>2, ReplyCases, CallTyped
<1>4. told' \subseteq [command : Command, outcome : Answer]
  <2>1. told' = told \/ told' = told \cup {[command |-> call.command, outcome |-> outcome]}
    BY ReplyCases, Zenon
  <2>2. [command |-> call.command, outcome |-> outcome] \in [command : Command, outcome : Answer]
    BY <1>2
  <2> QED  BY <1>1, <2>1, <2>2
<1>5. WebTyped'
  <2>1. CASE UNCHANGED <<pc, command>>
    BY <1>1, <2>1 DEF WebTyped
  <2>2. CASE call.tab # None /\ Respond(call.tab)
    BY <1>1, <1>2, <2>2, RespondTyped
  <2>3. CASE call.tab # None /\ Goto(call.tab, "release") /\ UNCHANGED command
    <3>1. "release" \in PC
      BY DEF PC
    <3> QED  BY <1>1, <1>2, <2>3, <3>1, GotoTyped
  <2> QED  BY <2>1, <2>2, <2>3, ReplyCases
<1> QED  BY <1>3, <1>4, <1>5

LEMMA RetainTyped ==
    ASSUME TypeOK, NEW c \in Command, NEW outcome \in Outcome, Retain(c, outcome)
    PROVE  authority' \in [Id -> Retained \cup {Nothing}]
<1>1. [input |-> Input(c), outcome |-> outcome] \in Retained
  BY CommandShape DEF Retained
<1> QED  BY <1>1, CommandShape DEF Retain, TypeOK

\* What an object retains can be answered.
LEMMA KnownTyped ==
    ASSUME TypeOK, NEW c \in Command, authority[c.id] # Nothing
    PROVE  authority[c.id] \in Retained /\ authority[c.id].outcome \in Outcome
BY CommandShape DEF TypeOK, Retained

LEMMA TypeStep ==
    ASSUME TypeInv, CallInv, [Next]_vars
    PROVE  TypeInv'
<1> USE DEF objectVars, historyVars, webVars
<1>0. WebTyped /\ TypeOK
  BY DEF TypeInv, TypeOK, WebTyped
<1> SUFFICES TypeOK' /\ WebTyped'
  BY DEF TypeInv, WebTyped
<1>1. ASSUME NEW t \in Tab, NEW c \in Command, Submit(t, c)
      PROVE  TypeOK' /\ WebTyped'
  BY <1>0, <1>1, AttemptsBounds DEF Submit, Goto, TypeOK, WebTyped, PC
<1>2. ASSUME NEW t \in Tab, NEW c \in Command, Retry(t, c)
      PROVE  TypeOK' /\ WebTyped'
  BY <1>0, <1>2 DEF Retry, Goto, TypeOK, WebTyped, PC
<1>3. ASSUME NEW t \in Tab, Recover(t)
      PROVE  TypeOK' /\ WebTyped'
  <2>1. WebTyped'
    BY <1>0, <1>3, RespondTyped, GotoTyped DEF Recover, PC
  <2> QED  BY <1>0, <1>3, <2>1 DEF Recover, TypeOK, WebTyped
<1>4. ASSUME NEW t \in Tab, RetainInsert(t)
      PROVE  TypeOK' /\ WebTyped'
  <2>1. WebTyped'
    BY <1>0, <1>4, GotoTyped DEF RetainInsert, PC
  <2>2. command[t] \in Command
    BY <1>0, <1>4 DEF RetainInsert, WebTyped
  <2> QED  BY <1>0, <1>4, <2>1, <2>2 DEF RetainInsert, Insert, TypeOK, WebTyped
<1>5. ASSUME NEW t \in Tab, RetainFind(t)
      PROVE  TypeOK' /\ WebTyped'
  <2>1. WebTyped'
    BY <1>0, <1>5, RespondTyped, GotoTyped DEF RetainFind, PC
  <2> QED  BY <1>0, <1>5, <2>1 DEF RetainFind, TypeOK, WebTyped
<1>6. ASSUME NEW t \in Tab, Send(t)
      PROVE  TypeOK' /\ WebTyped'
  <2>1. WebTyped'
    BY <1>0, <1>6, GotoTyped DEF Send, PC
  <2>2. command[t] \in Command
    BY <1>0, <1>6 DEF Send, WebTyped
  <2>3. Call(t, command[t], command[t].kind = "admit") \in CallRecord
    BY <2>2, CallTyped
  <2> QED  BY <1>0, <1>6, <2>1, <2>2, <2>3 DEF Send, TypeOK, WebTyped, CallRecord
<1>7. ASSUME NEW t \in Tab, Release(t)
      PROVE  TypeOK' /\ WebTyped'
  <2>1. WebTyped'
    BY <1>0, <1>7, RespondTyped DEF Release
  <2>2. command[t] \in Command
    BY <1>0, <1>7 DEF Release, WebTyped
  <2> QED  BY <1>0, <1>7, <2>1, <2>2, AttemptsBounds
           DEF Release, Tell, Disturbance, TypeOK, WebTyped, Answer
<1>8. ASSUME NEW t \in Tab, TimeOut(t)
      PROVE  TypeOK' /\ WebTyped'
  <2>1. WebTyped'
    BY <1>0, <1>8, RespondTyped DEF TimeOut, Unanswered
  <2>2. calls' \subseteq CallRecord
    BY <1>0, <1>8 DEF TimeOut, TypeOK, CallRecord
  <2> QED  BY <1>0, <1>8, <2>1, <2>2, AttemptsBounds
           DEF TimeOut, Disturbance, TypeOK, WebTyped, CallRecord
<1>9. ASSUME NEW t \in Tab, CutOff(t)
      PROVE  TypeOK' /\ WebTyped'
  <2>1. WebTyped'
    BY <1>0, <1>9, RespondTyped DEF CutOff
  <2> QED  BY <1>0, <1>9, <2>1, AttemptsBounds DEF CutOff, Disturbance, TypeOK, WebTyped
<1>10. ASSUME NEW c \in Command, Look(c)
       PROVE  TypeOK' /\ WebTyped'
  <2>1. authority[c.id].outcome \in Answer
    BY <1>0, <1>10, KnownTyped DEF Look, Recorded, Answer, Nothing
  <2> QED  BY <1>0, <1>10, <2>1 DEF Look, Tell, TypeOK, WebTyped
<1>11. ASSUME NEW call \in calls, Handle(call)
       PROVE  TypeOK' /\ WebTyped'
  <2>1. call.command \in Command /\ call \in CallRecord
    BY <1>0 DEF TypeOK, CallRecord
  <2>2. UNCHANGED <<rows, late, ended, sent, stray, submissions, faults>>
    BY <1>11, HandleCases
  <2>3. \E outcome \in Answer : Reply(call, outcome)
    <3>1. CASE Refused(call) \/ Expired(call) \/ Prepared(call)
      BY <3>1 DEF Refused, Expired, Prepared, Answer, Outcome
    <3>2. CASE Replayed(call)
      BY <1>0, <2>1, <3>2, KnownTyped DEF Replayed, Answer
    <3>3. CASE \E outcome \in Possible(call.command) : Completed(call, outcome)
      BY <2>1, <3>3, PossibleIsFinal DEF Completed, Answer
    <3> QED  BY <1>11, <3>1, <3>2, <3>3, HandleCases
  <2>4. authority' \in [Id -> Retained \cup {Nothing}]
    <3>1. CASE UNCHANGED objectVars
      BY <1>0, <3>1 DEF TypeOK
    <3>2. CASE Prepared(call)
      BY <1>0, <2>1, <3>2, RetainTyped DEF Prepared, Outcome
    <3>3. CASE \E outcome \in Possible(call.command) : Completed(call, outcome)
      BY <1>0, <2>1, <3>3, RetainTyped, PossibleIsFinal DEF Completed
    <3> QED  BY <1>11, <3>1, <3>2, <3>3, HandleCases DEF Refused, Replayed, Expired
  <2>5. request' \in {"pending", "approved", "declined", "expired"}
    BY <1>0, <1>11, HandleCases
       DEF Refused, Replayed, Expired, Prepared, Completed, Done, TypeOK
  <2>6. WebTyped' /\ calls' \subseteq CallRecord
        /\ told' \subseteq [command : Command, outcome : Answer]
    BY <2>3, ReplyTyped
  <2> QED  BY <1>0, <2>2, <2>4, <2>5, <2>6 DEF TypeOK, WebTyped, CallRecord
<1>12. CASE DecidedElsewhere
  BY <1>0, <1>12 DEF DecidedElsewhere, TypeOK, WebTyped
<1>13. CASE ExpiryPasses
  BY <1>0, <1>13 DEF ExpiryPasses, TypeOK, WebTyped
<1>14. CASE SessionEnds
  BY <1>0, <1>14 DEF SessionEnds, TypeOK, WebTyped
<1>15. CASE UNCHANGED vars
  BY <1>0, <1>15 DEF vars, TypeOK, WebTyped
<1> QED
  BY <1>1, <1>2, <1>3, <1>4, <1>5, <1>6, <1>7, <1>8, <1>9, <1>10, <1>11, <1>12,
     <1>13, <1>14, <1>15, NextCases

-----------------------------------------------------------------------------
(* Calls and rows *)

\* The calls that stay, or come back as an admission, are still awaited.
LEMMA CallStep ==
    ASSUME TypeInv, CallInv, [Next]_vars
    PROVE  CallInv'
<1> USE DEF objectVars, historyVars, webVars
<1>0. WebTyped /\ calls \subseteq CallRecord /\ None \notin Tab
  BY AttemptsBounds DEF TypeInv, TypeOK, WebTyped, CallRecord
<1>a. ASSUME NEW t \in Tab, pc[t] # "await", UNCHANGED calls,
             \A u \in Tab \ {t} : pc'[u] = pc[u] /\ command'[u] = command[u]
      PROVE  CallInv'
  BY <1>0, <1>a DEF CallInv, CallRecord
<1>1. ASSUME NEW t \in Tab, NEW c \in Command, Submit(t, c) PROVE CallInv'
  BY <1>0, <1>1, <1>a DEF Submit, Goto, WebTyped
<1>2. ASSUME NEW t \in Tab, NEW c \in Command, Retry(t, c) PROVE CallInv'
  BY <1>0, <1>2, <1>a DEF Retry, Goto, WebTyped
<1>3. ASSUME NEW t \in Tab, Recover(t) PROVE CallInv'
  BY <1>0, <1>3, <1>a DEF Recover, Respond, Goto, WebTyped
<1>4. ASSUME NEW t \in Tab, RetainInsert(t) PROVE CallInv'
  BY <1>0, <1>4, <1>a DEF RetainInsert, Goto, WebTyped
<1>5. ASSUME NEW t \in Tab, RetainFind(t) PROVE CallInv'
  BY <1>0, <1>5, <1>a DEF RetainFind, Respond, Goto, WebTyped
<1>6. ASSUME NEW t \in Tab, Send(t) PROVE CallInv'
  <2>1. \A x \in calls : x.tab # t
    BY <1>0, <1>6 DEF Send, CallInv
  <2> DEFINE new == Call(t, command[t], command[t].kind = "admit")
  <2>2. /\ new.tab = t
        /\ new.command = command[t]
        /\ new.prepare => command[t].kind = "admit"
        /\ calls' = calls \cup {new}
    <3>1. new.tab = t /\ new.command = command[t]
      BY DEF Call
    <3>2. new.prepare = (command[t].kind = "admit")
      BY Zenon DEF Call
    <3>3. calls' = calls \cup {new}
      BY <1>6 DEF Send
    <3> QED  BY <3>1, <3>2, <3>3, Zenon
  <2> HIDE DEF new
  <2>3. /\ command' = command
        /\ pc' = [pc EXCEPT ![t] = "await"]
    BY <1>6 DEF Send, Goto
  <2> QED  BY <1>0, <2>1, <2>2, <2>3 DEF CallInv, WebTyped, CallRecord
<1>7. ASSUME NEW t \in Tab, Release(t) PROVE CallInv'
  BY <1>0, <1>7, <1>a DEF Release, Respond, Goto, WebTyped
<1>8. ASSUME NEW t \in Tab, TimeOut(t) PROVE CallInv'
  <2>1. /\ \A u \in Tab \ {t} : pc'[u] = pc[u] /\ command'[u] = command[u]
        /\ \A y \in calls' : \E x \in calls :
              IF x.tab = t
              THEN y.tab = None /\ y.command = x.command /\ y.prepare = x.prepare
              ELSE y = x
    BY <1>0, <1>8 DEF TimeOut, Unanswered, Respond, Goto, WebTyped, CallRecord
  <2> QED  BY <1>0, <2>1 DEF CallInv, CallRecord
<1>9. ASSUME NEW t \in Tab, CutOff(t) PROVE CallInv'
  BY <1>0, <1>9, <1>a DEF CutOff, Respond, Goto, WebTyped
<1>10. ASSUME NEW call \in calls, NEW outcome, Reply(call, outcome),
              outcome = "prepared" => call.prepare,
              outcome = "invalid" => call.command.kind = "create"
       PROVE  CallInv'
  <2> DEFINE t == call.tab
             c == call.command
  <2>1. /\ call = Call(t, c, call.prepare)
        /\ call.prepare \in BOOLEAN
        /\ t \in Tab \cup {None}
    BY <1>0 DEF CallRecord, Call
  <2>2. /\ t # None => pc[t] = "await" /\ command[t] = c
        /\ call.prepare => c.kind = "admit"
        /\ \A x \in calls : t # None /\ x.tab = t => x = call
    BY DEF CallInv
  <2>3. CASE t = None /\ calls' = calls \ {call} /\ UNCHANGED <<pc, command>>
    BY <2>3 DEF CallInv
  <2>4. CASE /\ t # None
             /\ outcome = "prepared"
             /\ calls' = (calls \ {Call(t, c, TRUE)}) \cup {Call(t, c, FALSE)}
             /\ UNCHANGED <<pc, command>>
    <3>1. call.prepare = TRUE
      BY <1>10, <2>1, <2>4
    <3>2. calls' = (calls \ {call}) \cup {Call(t, c, FALSE)}
      BY <2>1, <2>4, <3>1
    <3> DEFINE new == Call(t, c, FALSE)
    <3>3. /\ new.tab = t
          /\ new.command = c
          /\ new.prepare = FALSE
          /\ calls' = (calls \ {call}) \cup {new}
      BY <3>2 DEF Call
    <3> HIDE DEF new
    <3> QED  BY <2>2, <2>4, <3>3 DEF CallInv
  <2>5. CASE /\ t # None
             /\ outcome = "invalid"
             /\ calls' = calls \ {Call(t, c, FALSE)}
             /\ Goto(t, "release")
             /\ UNCHANGED command
    <3>1. call.prepare = FALSE
      BY <1>10, <2>1, <2>2, <2>5
    <3>2. calls' = calls \ {call}
      BY <2>1, <2>5, <3>1
    <3>3. \A u \in Tab \ {t} : pc'[u] = pc[u]
      BY <1>0, <2>5 DEF Goto, WebTyped
    <3> QED  BY <1>0, <2>2, <2>5, <3>2, <3>3 DEF CallInv, CallRecord
  <2>6. CASE t # None /\ calls' = {x \in calls : x.tab # t} /\ Respond(t)
    <3>1. \A u \in Tab \ {t} : pc'[u] = pc[u] /\ command'[u] = command[u]
      BY <1>0, <2>6 DEF Respond, Goto, WebTyped
    <3> QED  BY <1>0, <2>6, <3>1 DEF CallInv, CallRecord
  <2> QED  BY <1>10, <2>3, <2>4, <2>5, <2>6, ReplyCases, Zenon
<1>11. ASSUME NEW call \in calls, Handle(call) PROVE CallInv'
  <2>1. call.command \in Command
    BY <1>0 DEF CallRecord
  <2>2. CASE Refused(call)
    BY <1>10, <2>2 DEF Refused
  <2>3. CASE Replayed(call)
    <3>1. authority[call.command.id].outcome # "invalid"
      BY <2>1, <2>3, KnownTyped DEF Replayed, TypeInv, Outcome
    <3> QED  BY <1>10, <2>3, <3>1 DEF Replayed
  <2>4. CASE Expired(call)
    BY <1>10, <2>4 DEF Expired
  <2>5. CASE Prepared(call)
    BY <1>10, <2>5 DEF Prepared
  <2>6. CASE \E outcome \in Possible(call.command) : Completed(call, outcome)
    BY <1>10, <2>1, <2>6, PossibleIsFinal DEF Completed, Outcome
  <2> QED  BY <1>11, <2>2, <2>3, <2>4, <2>5, <2>6, HandleCases
<1>12. CASE UNCHANGED <<pc, command, calls>>
  BY <1>12 DEF CallInv
<1> QED
  BY <1>1, <1>2, <1>3, <1>4, <1>5, <1>6, <1>7, <1>8, <1>9, <1>11, <1>12, NextCases
     DEF Look, DecidedElsewhere, ExpiryPasses, SessionEnds, vars

LEMMA RowStep ==
    ASSUME TypeInv, RowInv, [Next]_vars
    PROVE  RowInv'
<1>1. ASSUME NEW t \in Tab, RetainInsert(t) PROVE RowInv'
  BY <1>1 DEF RetainInsert, Insert, RowInv
<1>2. rows' \subseteq rows \/ \E t \in Tab : RetainInsert(t)
  BY NextCases, HandleCases
     DEF Submit, Retry, Recover, RetainFind, Send, Release, TimeOut, CutOff, Look,
         DecidedElsewhere, ExpiryPasses, SessionEnds, vars
<1> QED  BY <1>1, <1>2 DEF RowInv

-----------------------------------------------------------------------------
(* What objects retain *)

\* An object retains one more outcome at a time: of an identity it knew nothing
\* of, or had only prepared, and never of a creation whose expiry has passed.
LEMMA RetainCases ==
    ASSUME TypeInv, CallInv, [Next]_vars
    PROVE  \/ UNCHANGED authority
           \/ \E c \in Command, outcome \in Outcome :
                 /\ Retain(c, outcome)
                 /\ authority[c.id] = Nothing \/ authority[c.id].outcome = "prepared"
                 /\ ~(c.kind = "create" /\ late /\ c.input \in Expiring)
                 /\ UNCHANGED <<rows, late, stray, sent>>
<1>1. ASSUME NEW call \in calls, Handle(call), ~UNCHANGED authority
      PROVE  \E c \in Command, outcome \in Outcome :
                 /\ Retain(c, outcome)
                 /\ authority[c.id] = Nothing \/ authority[c.id].outcome = "prepared"
                 /\ ~(c.kind = "create" /\ late /\ c.input \in Expiring)
                 /\ UNCHANGED <<rows, late, stray, sent>>
  <2>1. call.command \in Command /\ call.prepare => call.command.kind = "admit"
    BY DEF CallInv, TypeInv, TypeOK
  <2>2. call.command \in Command
    BY DEF TypeInv, TypeOK
  <2>3. UNCHANGED <<rows, late, stray, sent>>
    BY <1>1, HandleCases
  <2>4. CASE Prepared(call)
    BY <2>1, <2>2, <2>3, <2>4 DEF Prepared, Outcome
  <2>5. CASE \E outcome \in Possible(call.command) : Completed(call, outcome)
    BY <2>2, <2>3, <2>5, PossibleIsFinal DEF Completed
  <2> QED
    BY <1>1, <2>4, <2>5, HandleCases DEF Refused, Replayed, Expired, objectVars
<1> QED
  BY <1>1, NextCases
     DEF Submit, Retry, Recover, RetainInsert, RetainFind, Send, Release, TimeOut,
         CutOff, Look, DecidedElsewhere, ExpiryPasses, SessionEnds, vars, objectVars

\* What can never succeed never will.
LEMMA DeadStays ==
    ASSUME TypeInv, CallInv, [Next]_vars, NEW c \in Command, Dead(c)
    PROVE  Dead(c)'
<1>1. late => late'
  BY NextCases, HandleCases
     DEF Submit, Retry, Recover, RetainInsert, RetainFind, Send, Release, TimeOut,
         CutOff, Look, DecidedElsewhere, ExpiryPasses, SessionEnds, vars
<1>2. authority'[c.id].input # c.input
  <2>1. CASE UNCHANGED authority
    BY <2>1 DEF Dead
  <2>2. ASSUME NEW d \in Command, NEW outcome \in Outcome, Retain(d, outcome),
               ~(d.kind = "create" /\ late /\ d.input \in Expiring)
        PROVE  authority'[c.id].input # c.input
    <3>1. authority' = [authority EXCEPT ![d.id] = [input |-> Input(d), outcome |-> outcome]]
      BY <2>2 DEF Retain
    <3>2. CASE d.id = c.id
      <4>1. d # c /\ Input(c) = c.input
        BY <2>2 DEF Dead, Input
      <4>2. Input(d) # Input(c)
        BY <3>2, <4>1, CommandIsItsInput DEF Dead
      <4> QED  BY <3>1, <3>2, <4>1, <4>2, CommandShape DEF TypeInv, TypeOK
    <3> QED  BY <3>1, <3>2 DEF Dead, TypeInv, TypeOK
  <2> QED  BY <2>1, <2>2, RetainCases
<1> QED  BY <1>1, <1>2 DEF Dead

\* So does what is done.
LEMMA DoneStays ==
    ASSUME TypeInv, CallInv, [Next]_vars, NEW c \in Command,
           authority[c.id] # Nothing, authority[c.id].outcome # "prepared"
    PROVE  authority'[c.id] = authority[c.id]
<1>1. ASSUME NEW d \in Command, NEW outcome \in Outcome, Retain(d, outcome),
             authority[d.id] = Nothing \/ authority[d.id].outcome = "prepared"
      PROVE  authority'[c.id] = authority[c.id]
  BY <1>1, CommandShape DEF Retain, TypeInv, TypeOK
<1> QED  BY <1>1, RetainCases

\* A refusal of an expired creation is final when it is made.
LEMMA ExpiredIsDead ==
    ASSUME TypeInv, NEW call \in calls, Expired(call)
    PROVE  Dead(call.command)
<1>1. call.command \in Command
  BY DEF TypeInv, TypeOK
<1> QED  BY <1>1, CommandShape, AttemptsBounds DEF Expired, Dead, Nothing

-----------------------------------------------------------------------------
(* What is owed to a command *)

\* Rows go only with a release, and then as that creation can never succeed.
LEMMA KeptStays ==
    ASSUME TypeInv, CallInv, SentInv, [Next]_vars, NEW c \in Command, Kept(c)
    PROVE  Kept(c)'
<1>1. ASSUME NEW t \in Tab, Release(t) PROVE Kept(c)'
  <2> DEFINE d == command[t]
  <2>1. d \in Command /\ Dead(d) /\ d.id = "creation"
    BY <1>1, CommandShape DEF Release, TypeInv, SentInv, Dead
  <2>2. /\ rows' = rows /\ stray' = stray
        \/ /\ rows' = {r \in rows : r.id # d.id}
           /\ stray' = stray \cup {r \in rows : r.id = d.id /\ r # d}
    BY <1>1 DEF Release
  <2>3. c.kind = "decide" => c \in rows'
    BY <2>1, <2>2, CommandShape DEF Kept
  <2>4. Dead(c) => Dead(c)'
    BY DeadStays
  <2>5. ASSUME NEW r \in rows, r.id = c.id, Input(r) = Input(c)
        PROVE  Backed(c)' \/ c \in stray' \/ Dead(c)'
    <3>1. r \in Command
      BY DEF TypeInv, TypeOK
    <3>2. CASE r \in rows'
      BY <2>5, <3>2 DEF Backed, Input
    <3>3. CASE r \notin rows'
      <4>1. r.id = "creation" /\ (r = d \/ r \in stray')
        BY <2>1, <2>2, <3>3
      <4>2. r = c
        BY <2>5, <3>1, <4>1, CommandShape, CommandIsItsInput
      <4> QED  BY <2>1, <2>4, <4>1, <4>2
    <3> QED  BY <3>2, <3>3
  <2> QED  BY <2>2, <2>3, <2>4, <2>5 DEF Kept, Backed
<1>2. ASSUME ~ \E t \in Tab : Release(t) PROVE Kept(c)'
  <2>1. rows \subseteq rows' /\ stray' = stray
    BY <1>2, NextCases, HandleCases
       DEF Submit, Retry, Recover, RetainInsert, RetainFind, Send, TimeOut, Insert,
           CutOff, Look, DecidedElsewhere, ExpiryPasses, SessionEnds, vars, historyVars
  <2>2. Dead(c) => Dead(c)'
    BY DeadStays
  <2> QED  BY <2>1, <2>2 DEF Kept, Backed, Input
<1> QED  BY <1>1, <1>2

\* A command leaves for its object only if its own input is retained.
LEMMA FoundIsKept ==
    ASSUME TypeInv, NEW c \in Command, NEW r \in Found(c), Same(c, r)
    PROVE  Kept(c)
<1>1. r \in rows /\ r \in Command
  BY DEF Found, Load, Live, TypeInv, TypeOK
<1>2. CASE c = r
  BY <1>1, <1>2 DEF Kept, Backed
<1>3. CASE /\ c.kind = "admit"
           /\ r.id = c.id
           /\ Canonical[c.input] = Canonical[r.input]
  <2>1. r.kind = "admit" /\ Input(r) = Input(c)
    BY <1>1, <1>3, CommandShape DEF Input
  <2> QED  BY <1>1, <1>3, <2>1 DEF Kept, Backed
<1> QED  BY <1>2, <1>3 DEF Same

\* How a web request comes to send, to wait and to release.
Sends(t) ==
    /\ command'[t] = command[t]
    /\ \/ pc[t] \in {"send", "await"}
       \/ pc[t] # "idle" /\ \E r \in Found(command[t]) : Same(command[t], r)

Releases(t) ==
    /\ command'[t] = command[t]
    /\ \/ pc[t] = "release"
       \/ \E call \in calls : Expired(call) /\ call.command = command[t]

Places ==
    \A t \in Tab : /\ pc'[t] \in {"send", "await"} => Sends(t)
                   /\ pc'[t] = "release" => Releases(t)

LEMMA PlaceStep ==
    ASSUME TypeInv, CallInv, [Next]_vars
    PROVE  Places
<1> USE DEF objectVars, historyVars, webVars
<1>0. WebTyped
  BY DEF TypeInv, TypeOK, WebTyped
<1>a. ASSUME NEW t \in Tab, NEW place, Goto(t, place), UNCHANGED command,
             place \in {"send", "await"} => Sends(t), place = "release" => Releases(t)
      PROVE  Places
  BY <1>0, <1>a DEF Goto, WebTyped, Places, Sends, Releases
<1>b. ASSUME NEW t \in Tab, Respond(t) PROVE Places
  BY <1>0, <1>b DEF Respond, Goto, WebTyped, Places, Sends, Releases
<1>c. ASSUME UNCHANGED <<pc, command>> PROVE Places
  BY <1>c DEF Places, Sends, Releases
<1>d. ASSUME NEW t \in Tab, NEW c, NEW place \in {"recover", "insert"},
             Goto(t, place), command' = [command EXCEPT ![t] = c]
      PROVE  Places
  BY <1>0, <1>d DEF Goto, WebTyped, Places, Sends, Releases
<1>1. ASSUME NEW t \in Tab, NEW c \in Command, Submit(t, c) PROVE Places
  BY <1>1, <1>d DEF Submit
<1>2. ASSUME NEW t \in Tab, NEW c \in Command, Retry(t, c) PROVE Places
  BY <1>2, <1>d DEF Retry
<1>3. ASSUME NEW t \in Tab, Recover(t) PROVE Places
  BY <1>3, <1>a, <1>b DEF Recover
<1>4. ASSUME NEW t \in Tab, RetainInsert(t) PROVE Places
  BY <1>4, <1>a DEF RetainInsert
<1>5. ASSUME NEW t \in Tab, RetainFind(t) PROVE Places
  <2>1. CASE Respond(t)
    BY <2>1, <1>b
  <2>2. CASE Goto(t, "send") /\ UNCHANGED command
             /\ \E r \in Found(command[t]) : Same(command[t], r)
    <3>1. Sends(t)
      BY <1>5, <2>2 DEF Sends, RetainFind
    <3> QED  BY <2>2, <3>1, <1>a
  <2> QED  BY <1>5, <2>1, <2>2 DEF RetainFind
<1>6. ASSUME NEW t \in Tab, Send(t) PROVE Places
  <2>1. Sends(t)
    BY <1>6 DEF Sends, Send
  <2> QED  BY <1>6, <2>1, <1>a DEF Send
<1>7. ASSUME NEW t \in Tab, Release(t) PROVE Places
  BY <1>7, <1>b DEF Release
<1>8. ASSUME NEW t \in Tab, TimeOut(t) PROVE Places
  BY <1>8, <1>b DEF TimeOut, Unanswered
<1>9. ASSUME NEW t \in Tab, CutOff(t) PROVE Places
  BY <1>9, <1>b DEF CutOff
<1>10. ASSUME NEW call \in calls, NEW outcome, Reply(call, outcome),
              outcome = "invalid" => Expired(call)
       PROVE  Places
  <2>1. call.tab # None => call.tab \in Tab /\ command[call.tab] = call.command
    BY DEF CallInv, TypeInv, TypeOK
  <2>2. CASE call.tab # None /\ outcome = "invalid"
             /\ Goto(call.tab, "release") /\ UNCHANGED command
    <3>1. Releases(call.tab)
      BY <1>10, <2>1, <2>2 DEF Releases
    <3> QED  BY <2>1, <2>2, <3>1, <1>a
  <2>3. CASE call.tab # None /\ Respond(call.tab)
    BY <2>1, <2>3, <1>b
  <2> QED  BY <1>10, <2>2, <2>3, <1>c, ReplyCases, Zenon
<1>11. ASSUME NEW call \in calls, Handle(call) PROVE Places
  <2>1. call.command \in Command
    BY DEF TypeInv, TypeOK
  <2>2. CASE Refused(call)
    BY <1>10, <2>2 DEF Refused
  <2>3. CASE Replayed(call)
    <3>1. authority[call.command.id].outcome # "invalid"
      BY <2>1, <2>3, KnownTyped DEF Replayed, TypeInv, Outcome
    <3> QED  BY <1>10, <2>3, <3>1 DEF Replayed
  <2>4. CASE Expired(call)
    BY <1>10, <2>4 DEF Expired
  <2>5. CASE Prepared(call)
    BY <1>10, <2>5 DEF Prepared
  <2>6. CASE \E outcome \in Possible(call.command) : Completed(call, outcome)
    BY <1>10, <2>1, <2>6, PossibleIsFinal DEF Completed, Outcome
  <2> QED  BY <1>11, <2>2, <2>3, <2>4, <2>5, <2>6, HandleCases
<1> QED
  BY <1>1, <1>2, <1>3, <1>4, <1>5, <1>6, <1>7, <1>8, <1>9, <1>11, <1>c, NextCases
     DEF Look, DecidedElsewhere, ExpiryPasses, SessionEnds, vars

LEMMA SentStep ==
    ASSUME TypeInv, CallInv, SentInv, [Next]_vars
    PROVE  SentInv'
<1>1. ASSUME NEW t \in Tab, pc'[t] \in {"send", "await"}
      PROVE  Kept(command[t])'
  <2>1. Sends(t)
    BY <1>1, PlaceStep DEF Places
  <2>2. command[t] \in Command
    BY <2>1 DEF Sends, TypeInv
  <2>3. Kept(command[t])
    BY <2>1, <2>2, FoundIsKept DEF Sends, SentInv
  <2>4. PICK c \in Command : c = command[t] /\ Kept(c)'
    BY <2>2, <2>3, KeptStays
  <2> QED  BY <2>1, <2>4 DEF Sends, Kept, Backed, Dead
<1>2. ASSUME NEW t \in Tab, pc'[t] = "release"
      PROVE  Dead(command[t])'
  <2>1. Releases(t)
    BY <1>2, PlaceStep DEF Places
  <2>2. command[t] \in Command
    BY <2>1 DEF Releases, TypeInv, TypeOK
  <2>3. Dead(command[t])
    BY <2>1, ExpiredIsDead DEF Releases, SentInv
  <2>4. PICK c \in Command : c = command[t] /\ Dead(c)'
    BY <2>2, <2>3, DeadStays
  <2> QED  BY <2>1, <2>4 DEF Releases, Dead
<1>3. ASSUME NEW c \in sent'
      PROVE  Kept(c)'
  <2>1. c \in sent \/ \E t \in Tab : pc[t] = "send" /\ c = command[t]
    BY <1>3, NextCases, HandleCases
       DEF Submit, Retry, Recover, RetainInsert, RetainFind, Send, Release, TimeOut,
           CutOff, Look, DecidedElsewhere, ExpiryPasses, SessionEnds, vars, historyVars
  <2>2. c \in Command /\ Kept(c)
    BY <2>1 DEF TypeInv, TypeOK, SentInv
  <2> QED  BY <2>2, KeptStays
<1> QED  BY <1>1, <1>2, <1>3 DEF SentInv

-----------------------------------------------------------------------------
(* What the browser is told *)

\* An outcome is told as it is retained, and a refusal of what is dead.
LEMMA Told ==
    ASSUME TypeInv, SentInv, CallInv, [Next]_vars, NEW x \in told', x \notin told
    PROVE  /\ x.command \in Command
           /\ \/ x.outcome = "invalid" /\ Dead(x.command)
              \/ /\ x.outcome \in Outcome \ {"prepared"}
                 /\ authority'[x.command.id] =
                       [input |-> Input(x.command), outcome |-> x.outcome]
<1> USE DEF objectVars, historyVars, webVars
<1>1. ASSUME NEW t \in Tab, Release(t)
      PROVE  x.command \in Command /\ x.outcome = "invalid" /\ Dead(x.command)
  BY <1>1 DEF Release, Tell, TypeInv, TypeOK, SentInv
<1>2. ASSUME NEW c \in Command, Look(c)
      PROVE  /\ x.command \in Command
             /\ x.outcome \in Outcome \ {"prepared"}
             /\ authority'[x.command.id] =
                       [input |-> Input(x.command), outcome |-> x.outcome]
  <2>1. x.command = c /\ x.outcome = authority[c.id].outcome /\ UNCHANGED authority
    BY <1>2 DEF Look, Tell
  <2>2. authority[c.id] \in Retained /\ authority[c.id].outcome \in Outcome
    BY <1>2, KnownTyped DEF Look, Recorded, Nothing, TypeInv
  <2> QED  BY <1>2, <2>1, <2>2 DEF Look, Recorded, Retained
<1>3. ASSUME NEW call \in calls, Handle(call)
      PROVE  /\ x.command \in Command
             /\ x.outcome \in Outcome \ {"prepared"}
             /\ authority'[x.command.id] =
                       [input |-> Input(x.command), outcome |-> x.outcome]
  <2>1. call.command \in Command
    BY DEF TypeInv, TypeOK
  <2>2. ASSUME NEW outcome, Reply(call, outcome)
        PROVE  /\ x.command = call.command /\ x.outcome = outcome
               /\ outcome \notin {"prepared", "invalid", "conflict"}
    <3>1. \/ told' = told
          \/ /\ told' = told \cup {[command |-> call.command, outcome |-> outcome]}
             /\ outcome \notin {"prepared", "invalid", "conflict"}
      BY <2>2, ReplyCases, Zenon
    <3> QED  BY <3>1
  <2>3. CASE Refused(call) \/ Expired(call) \/ Prepared(call)
    BY <2>2, <2>3 DEF Refused, Expired, Prepared
  <2>4. CASE Replayed(call)
    <3>1. /\ authority[call.command.id] \in Retained
          /\ authority[call.command.id].outcome \in Outcome
      BY <2>1, <2>4, KnownTyped DEF Replayed, TypeInv
    <3> QED  BY <2>1, <2>2, <2>4, <3>1 DEF Replayed, Retained
  <2>5. ASSUME NEW outcome \in Possible(call.command), Completed(call, outcome)
        PROVE  /\ x.command \in Command
               /\ x.outcome \in Outcome \ {"prepared"}
               /\ authority'[x.command.id] =
                     [input |-> Input(x.command), outcome |-> x.outcome]
    <3>1. authority'[call.command.id] =
             [input |-> Input(call.command), outcome |-> outcome]
      BY <2>1, <2>5, CommandShape DEF Completed, Retain, TypeInv, TypeOK
    <3> QED  BY <2>1, <2>2, <2>5, <3>1, PossibleIsFinal DEF Completed
  <2> QED  BY <1>3, <2>3, <2>4, <2>5, HandleCases
<1> QED
  BY <1>1, <1>2, <1>3, NextCases
     DEF Submit, Retry, Recover, RetainInsert, RetainFind, Send, TimeOut, CutOff,
         Unanswered, DecidedElsewhere, ExpiryPasses, SessionEnds, vars

LEMMA ToldStep ==
    ASSUME TypeInv, CallInv, SentInv, ToldInv, [Next]_vars
    PROVE  ToldInv'
<1> SUFFICES ASSUME NEW x \in told'
             PROVE  IF x.outcome = "invalid"
                    THEN Dead(x.command)'
                    ELSE /\ x.outcome \in Outcome \ {"prepared"}
                         /\ authority'[x.command.id] =
                               [input |-> Input(x.command), outcome |-> x.outcome]
  BY DEF ToldInv, Input
<1>1. x.command \in Command
  BY Told DEF TypeInv, TypeOK
<1>2. "invalid" \notin Outcome
  BY DEF Outcome
<1>3. CASE x.outcome = "invalid"
  <2>1. Dead(x.command)
    BY <1>2, <1>3, Told DEF ToldInv
  <2> QED  BY <1>1, <1>3, <2>1, DeadStays
<1>4. CASE x.outcome # "invalid" /\ x \in told
  BY <1>1, <1>4, DoneStays DEF ToldInv, Nothing, Outcome
<1>5. CASE x.outcome # "invalid" /\ x \notin told
  BY <1>5, Told
<1> QED  BY <1>3, <1>4, <1>5

-----------------------------------------------------------------------------
(* The theorems *)

LEMMA InvariantHolds == Spec => []IInv
<1>1. Init => IInv
  <2> SUFFICES ASSUME Init PROVE IInv
    OBVIOUS
  <2>1. 0 \in 0 .. MaxSubmissions /\ 0 \in 0 .. MaxFaults
    BY AttemptsBounds
  <2>2. TypeInv
    BY <2>1 DEF Init, TypeInv, TypeOK, PC
  <2>3. CallInv /\ RowInv /\ SentInv /\ ToldInv
    BY DEF Init, CallInv, RowInv, SentInv, ToldInv
  <2> QED  BY <2>2, <2>3 DEF IInv
<1>2. IInv /\ [Next]_vars => IInv'
  BY TypeStep, CallStep, RowStep, SentStep, ToldStep DEF IInv
<1> QED
  BY <1>1, <1>2, PTL DEF Spec

(* The session, its commands and what the objects retain are well typed.   *)
THEOREM AttemptsTypeOK == Spec => []TypeOK
<1>1. IInv => TypeOK
  BY DEF IInv, TypeInv
<1> QED
  BY InvariantHolds, <1>1, PTL

(* What a browser was told of a command is so: an outcome is retained by   *)
(* its object for the very input, and an input that was refused never took *)
(* effect, though calls are lost and come late (unknown and release in     *)
(* routes/console/attempts.rs).                                            *)
THEOREM AttemptsToldIsTrue == Spec => []ToldIsTrue
<1>1. IInv => ToldIsTrue
  <2> SUFFICES ASSUME IInv, NEW x \in told, x.outcome = "invalid"
               PROVE  authority[x.command.id].input # Input(x.command)
    BY DEF IInv, ToldInv, ToldIsTrue
  <2> QED  BY DEF IInv, ToldInv, Dead, Input
<1> QED
  BY InvariantHolds, <1>1, PTL

(* However many tabs decide a request at once, one original decision is    *)
(* sent: its row excludes any other and stays (retain, INSERT).            *)
THEOREM AttemptsOneDecision == Spec => []OneDecision
<1>1. IInv => OneDecision
  <2> SUFFICES ASSUME IInv PROVE Cardinality(sent \cap Decision) <= 1
    BY DEF OneDecision
  <2>1. \A c, d \in sent \cap Decision : c = d
    BY DecisionKind DEF IInv, SentInv, Kept, RowInv
  <2>2. CASE sent \cap Decision = {}
    BY <2>2, FS_EmptySet
  <2>3. ASSUME NEW c \in sent \cap Decision
        PROVE  Cardinality(sent \cap Decision) <= 1
    <3>1. sent \cap Decision = {c}
      BY <2>1
    <3>2. Cardinality({c}) = 1
      BY FS_Singleton
    <3> QED  BY <3>1, <3>2
  <2> QED  BY <2>2, <2>3
<1> QED
  BY InvariantHolds, <1>1, PTL

(* A command that took effect is retained with its input while the session *)
(* lives, but for the row that a late release of another input deletes     *)
(* (release in routes/console/attempts.rs).                                *)
THEOREM AttemptsEffectIsRecoverable == Spec => []EffectIsRecoverable
<1>1. IInv => EffectIsRecoverable
  <2> SUFFICES ASSUME IInv, NEW c \in sent, Recorded(c)
               PROVE  Backed(c) \/ c \in stray
    BY DEF EffectIsRecoverable, Backed
  <2>1. ~Dead(c)
    BY DEF Dead, Recorded, Input
  <2> QED  BY <2>1 DEF IInv, SentInv, Kept
<1> QED
  BY InvariantHolds, <1>1, PTL
=============================================================================
