----------------------- MODULE OperationsRedrive_proofs -----------------------
(***************************************************************************)
(* Theorems about OperationsRedrive, the SQS transport with the operators'  *)
(* re-drives above it, for every set of events, consumers, receivers,       *)
(* requests and calls and every bound.                                      *)
(***************************************************************************)
EXTENDS OperationsRedrive, FiniteSetTheorems, TLAPS

-----------------------------------------------------------------------------
(* Type correctness, with what a receiver and an operator's call may rely   *)
(* on: past the claim there is a receipt at hand, past the dead letter a    *)
(* target; and no guard encloses a receiver without a message.              *)

Loop == [step : PollStep, todo : SUBSET Receipt, at : Receipt \cup {None},
         guard : Guard, heartbeat : BOOLEAN]

Resting == {"receive", "next", "stopped"}

Engaged(p) == IF p.step \in Resting THEN p.guard = "none" ELSE p.at \in Receipt

CallState == [step : {"new", "claim", "publish", "mark", "finish", "fail",
                      "done"}, target : Target \cup {None}]

Aimed(p) == p.step # "new" => p.target \in Target

TypeInv ==
    /\ TypeOK
    /\ \A r \in Receiver : Engaged(poll[r])
    /\ \A o \in Call : Aimed(call[o])

LEMMA LoopFacts ==
  ASSUME TypeInv, NEW r \in Receiver
  PROVE  /\ poll[r] \in Loop /\ Engaged(poll[r])
         /\ poll[r].step \notin Resting =>
               At(r) \in Copy /\ KeyAt(r) \in Key /\ Queue(At(r)) \in Consumer
BY DEF TypeInv, TypeOK, Loop, Engaged, Receipt, At, KeyAt, KeyOf, Queue, Copy, Key

LEMMA IdleType == Idle \in Loop /\ Engaged(Idle)
BY DEF Idle, Loop, Engaged, PollStep, Guard, Resting

\* A receiver that replaces its locals by well-formed ones.
LEMMA LoopUpdate ==
  ASSUME TypeInv, NEW r \in Receiver, NEW p \in Loop, Engaged(p),
         poll' = [poll EXCEPT ![r] = p]
  PROVE  poll' \in [Receiver -> Loop] /\ \A s \in Receiver : Engaged(poll'[s])
BY DEF TypeInv, TypeOK, Loop

LEMMA GotoType ==
  ASSUME TypeInv, NEW r \in Receiver, NEW s \in PollStep \ Resting, Goto(r, s),
         poll[r].step \notin Resting
  PROVE  poll' \in [Receiver -> Loop] /\ \A q \in Receiver : Engaged(poll'[q])
<1> DEFINE p == [poll[r] EXCEPT !.step = s]
<1>1. p \in Loop /\ Engaged(p)
  BY LoopFacts DEF Loop, Engaged
<1>2. poll' = [poll EXCEPT ![r] = p]
  BY DEF Goto
<1> QED
  BY <1>1, <1>2, LoopUpdate

LEMMA ContinueType ==
  ASSUME TypeInv, NEW r \in Receiver, Continue(r)
  PROVE  poll' \in [Receiver -> Loop] /\ \A q \in Receiver : Engaged(poll'[q])
<1> DEFINE p == IF poll[r].guard # "none" /\ ~poll[r].heartbeat
                THEN [Idle EXCEPT !.step = "stopped"]
                ELSE [Idle EXCEPT !.todo = poll[r].todo,
                         !.step = IF poll[r].todo = {} THEN "receive" ELSE "next"]
<1>1. p \in Loop /\ Engaged(p)
  BY LoopFacts DEF Loop, Engaged, Idle, PollStep, Guard, Resting
<1>2. poll' = [poll EXCEPT ![r] = p]
  BY DEF Continue
<1> HIDE DEF p
<1> QED
  BY <1>1, <1>2, LoopUpdate

LEMMA EscapeType ==
  ASSUME TypeInv, NEW r \in Receiver, Escape(r)
  PROVE  poll' \in [Receiver -> Loop] /\ \A q \in Receiver : Engaged(poll'[q])
<1> DEFINE p == IF poll[r].guard = "callback"
                THEN [poll[r] EXCEPT !.step = "release", !.guard = "try"]
                ELSE [Idle EXCEPT !.step = "stopped"]
<1>1. p \in Loop /\ Engaged(p)
  BY LoopFacts DEF Loop, Engaged, Idle, PollStep, Guard, Resting
<1>2. poll' = [poll EXCEPT ![r] = p]
  BY LoopFacts DEF Escape, Loop
<1> HIDE DEF p
<1> QED
  BY <1>1, <1>2, LoopUpdate

LEMMA FaultType ==
  ASSUME TypeInv, NEW kind \in {"call", "lease", "other"}, Fault(kind)
  PROVE  /\ faults' \in [call : Nat, lease : Nat, other : Nat]
         /\ Faults' <= MaxFaults
         /\ faults'[kind] > 0
         /\ \A other \in {"call", "lease", "other"} :
               faults[other] <= faults'[other]
BY SqsAssumption DEF Fault, Faults, TypeInv, TypeOK

\* send_message puts one new copy into the queue and touches no other.
LEMMA SendFacts ==
  ASSUME TypeInv, NEW k \in Key, NEW source \in Request \cup {Outbox},
         Send(k, source)
  PROVE  /\ copy' \in [Copy ->
               [state : {"unsent", "visible", "inflight", "deleted", "native"},
                received : 0 .. MaxDeliveries, holder : Receiver \cup {None},
                via : Request \cup {Outbox}]]
         /\ \E m \in Copy :
               /\ KeyOf(m) = k /\ copy[m].state = "unsent"
               /\ copy'[m].state = "visible" /\ copy'[m].via = source
               /\ \A x \in Copy \ {m} : copy'[x] = copy[x]
<1>1. PICK n \in 1 .. MaxCopies :
         /\ copy[<<k, n>>] = Unsent
         /\ copy' = [copy EXCEPT ![<<k, n>>] =
                        [Unsent EXCEPT !.state = "visible", !.via = source]]
  BY DEF Send
<1> DEFINE m == <<k, n>>
           new == [Unsent EXCEPT !.state = "visible", !.via = source]
<1>2. m \in Copy /\ KeyOf(m) = k
  BY DEF Copy, KeyOf
<1>3. /\ new.state = "visible" /\ new.via = source
      /\ new \in [state : {"unsent", "visible", "inflight", "deleted", "native"},
                  received : 0 .. MaxDeliveries, holder : Receiver \cup {None},
                  via : Request \cup {Outbox}]
  <2>1. Unsent \in [state : {"unsent"}, received : 0 .. MaxDeliveries,
                    holder : Receiver \cup {None}, via : Request \cup {Outbox}]
    BY SqsAssumption DEF Unsent
  <2> QED
    BY <2>1
<1>4. copy[m].state = "unsent"
  BY <1>1 DEF Unsent
<1>5. copy' = [copy EXCEPT ![m] = new]
  BY <1>1
<1> HIDE DEF m, new
<1> QED
  BY <1>2, <1>3, <1>4, <1>5 DEF TypeInv, TypeOK

CopyType ==
    copy \in [Copy ->
          [state : {"unsent", "visible", "inflight", "deleted", "native"},
           received : 0 .. MaxDeliveries, holder : Receiver \cup {None},
           via : Request \cup {Outbox}]]

LoopType == poll \in [Receiver -> Loop] /\ \A r \in Receiver : Engaged(poll[r])

CallType == call \in [Call -> CallState] /\ \A o \in Call : Aimed(call[o])

\* The rest of TypeInv.
StoreType ==
    /\ row \in [Event -> {"pending", "deleted"}]
    /\ sending \in [Event -> SUBSET Consumer]
    /\ claim \in [Key -> {"absent", "processing", "complete"}]
    /\ expired \subseteq {k \in Key : claim[k] = "processing"}
    /\ handled \subseteq Key
    /\ dead \in [Key -> {"absent", "active", "redriven"}]
    /\ redrive \in [Target -> {"absent", "publishing", "published", "failed"}]
    /\ faults \in [call : Nat, lease : Nat, other : Nat] /\ Faults <= MaxFaults

\* A copy that is offered again, if its receiver still has it.
LEMMA VisibleAgain ==
  ASSUME CopyType, NEW c,
         copy' = [copy EXCEPT ![c].state =
                     IF @ = "inflight" THEN "visible" ELSE @]
  PROVE  CopyType'
<1> DEFINE state == IF copy[c].state = "inflight" THEN "visible"
                                                 ELSE copy[c].state
           p     == [copy[c] EXCEPT !.state = state]
<1>1. copy' = [copy EXCEPT ![c] = p]
  OBVIOUS
<1>2. CASE c \in Copy
  <2>1. state \in {"unsent", "visible", "inflight", "deleted", "native"}
    BY <1>2 DEF CopyType
  <2> HIDE DEF state
  <2>2. p \in [state : {"unsent", "visible", "inflight", "deleted", "native"},
               received : 0 .. MaxDeliveries, holder : Receiver \cup {None},
               via : Request \cup {Outbox}]
    BY <1>2, <2>1 DEF CopyType
  <2> HIDE DEF p
  <2> QED
    BY <1>1, <2>2 DEF CopyType
<1>3. CASE c \notin Copy
  BY <1>1, <1>3 DEF CopyType
<1> QED
  BY <1>2, <1>3

LEMMA TypeParts == TypeInv <=> StoreType /\ CopyType /\ LoopType /\ CallType
BY DEF TypeInv, TypeOK, StoreType, CopyType, LoopType, CallType, Loop, CallState

LEMMA InitType == OpsInit => TypeInv
<1> SUFFICES ASSUME OpsInit PROVE StoreType /\ CopyType /\ LoopType /\ CallType
  BY TypeParts
<1>1. StoreType
  BY SqsAssumption DEF OpsInit, Init, StoreType, Faults
<1>2. CopyType
  BY SqsAssumption DEF OpsInit, Init, CopyType, Unsent
<1>3. LoopType
  BY IdleType DEF OpsInit, Init, LoopType
<1>4. CallType
  BY DEF OpsInit, CallType, CallState, Aimed, NoCall
<1> QED
  BY <1>1, <1>2, <1>3, <1>4

LEMMA NextType == TypeInv /\ [Next]_allVars => TypeInv'
<1> SUFFICES ASSUME TypeInv, [Next]_allVars
             PROVE  StoreType' /\ CopyType' /\ LoopType' /\ CallType'
  BY DEF TypeInv, TypeOK, StoreType, CopyType, LoopType, CallType, Loop, CallState
<1> USE TypeParts DEF queues, work, vars, opsVars, allVars
<1>1. ASSUME NEW e \in Event, StartPublish(e), UNCHANGED opsVars
      PROVE  StoreType' /\ CopyType' /\ LoopType' /\ CallType'
  BY <1>1 DEF StartPublish, StoreType, Faults, CopyType, LoopType, CallType
<1>2. ASSUME NEW e \in Event, NEW c \in Consumer, SendTo(e, c), UNCHANGED opsVars
      PROVE  StoreType' /\ CopyType' /\ LoopType' /\ CallType'
  <2>1. CopyType'
    BY <1>2, SendFacts DEF SendTo, CopyType, Key
  <2> QED
    BY <1>2, <2>1 DEF SendTo, StoreType, Faults, LoopType, CallType
<1>3. ASSUME NEW e \in Event, NEW c \in Consumer, PublishRaises(e, c),
             UNCHANGED opsVars
      PROVE  StoreType' /\ CopyType' /\ LoopType' /\ CallType'
  <2>1. CopyType'
    BY <1>3, SendFacts DEF PublishRaises, CopyType, Key
  <2> QED
    BY <1>3, <2>1, FaultType DEF PublishRaises, StoreType, LoopType, CallType
<1>4. ASSUME NEW m \in Copy, MoveToNativeQueue(m), UNCHANGED opsVars
      PROVE  StoreType' /\ CopyType' /\ LoopType' /\ CallType'
  BY <1>4 DEF MoveToNativeQueue, StoreType, Faults, CopyType, LoopType, CallType
<1>5. ASSUME NEW m \in Copy, VisibilityExpires(m), UNCHANGED opsVars
      PROVE  StoreType' /\ CopyType' /\ LoopType' /\ CallType'
  <2>1. CopyType'
    BY <1>5 DEF VisibilityExpires, CopyType
  <2> QED
    BY <1>5, <2>1, FaultType DEF VisibilityExpires, StoreType, Faults, LoopType,
       CallType
<1>6. ASSUME NEW k \in Key, LeaseExpires(k), UNCHANGED opsVars
      PROVE  StoreType' /\ CopyType' /\ LoopType' /\ CallType'
  <2>1. StoreType'
    <3>1. CASE UNCHANGED faults
      BY <1>6, <3>1 DEF LeaseExpires, StoreType, Faults
    <3>2. CASE Fault("lease")
      BY <1>6, <3>2, FaultType DEF LeaseExpires, StoreType
    <3> QED
      BY <1>6, <3>1, <3>2 DEF LeaseExpires
  <2> QED
    BY <1>6, <2>1 DEF LeaseExpires, CopyType, LoopType, CallType
<1>7. ASSUME NEW r \in Receiver, Receive(r), UNCHANGED opsVars
      PROVE  StoreType' /\ CopyType' /\ LoopType' /\ CallType'
  <2>1. PICK taken \in SUBSET {m \in Copy : /\ Queue(m) = Serves[r]
                                            /\ copy[m].state = "visible"
                                            /\ copy[m].received < MaxDeliveries} :
           /\ copy' = [m \in Copy |->
                 IF m \in taken
                 THEN [copy[m] EXCEPT !.state = "inflight", !.holder = r,
                                      !.received = @ + 1]
                 ELSE copy[m]]
           /\ poll' = [poll EXCEPT ![r].step = "next",
                 ![r].todo = {[copy |-> m, attempt |-> copy[m].received + 1] :
                              m \in taken}]
    BY <1>7 DEF Receive
  <2>2. CopyType'
    <3>1. ASSUME NEW m \in taken
          PROVE  [copy[m] EXCEPT !.state = "inflight", !.holder = r,
                                 !.received = @ + 1] \in
                   [state : {"unsent", "visible", "inflight", "deleted", "native"},
                    received : 0 .. MaxDeliveries, holder : Receiver \cup {None},
                    via : Request \cup {Outbox}]
      <4>1. /\ m \in Copy /\ copy[m].received \in 0 .. MaxDeliveries
            /\ copy[m].received < MaxDeliveries
        BY DEF CopyType
      <4>2. copy[m].received + 1 \in 0 .. MaxDeliveries
        BY <4>1, SqsAssumption
      <4> QED
        BY <4>1, <4>2 DEF CopyType
    <3> QED
      BY <2>1, <3>1 DEF CopyType
  <2> DEFINE todo == {[copy |-> m, attempt |-> copy[m].received + 1] : m \in taken}
             p    == [poll[r] EXCEPT !.step = "next", !.todo = todo]
  <2>3. todo \subseteq Receipt
    <3>1. ASSUME NEW m \in taken
          PROVE  m \in Copy /\ copy[m].received + 1 \in 1 .. MaxDeliveries
      <4>1. copy[m].received \in 0 .. MaxDeliveries /\ copy[m].received < MaxDeliveries
        BY DEF CopyType
      <4> QED
        BY <4>1, SqsAssumption
    <3> QED
      BY <3>1 DEF Receipt
  <2>4. poll' = [poll EXCEPT ![r] = p]
    BY <2>1
  <2> HIDE DEF todo
  <2>5. p \in Loop /\ Engaged(p)
    BY <1>7, <2>3, LoopFacts DEF Receive, Loop, Engaged, PollStep, Resting
  <2> HIDE DEF p
  <2>6. LoopType'
    BY <2>4, <2>5, LoopUpdate DEF LoopType
  <2> QED
    BY <1>7, <2>2, <2>6 DEF Receive, StoreType, Faults, CallType
<1>8. ASSUME NEW r \in Receiver, NEW t \in poll[r].todo, Claim(r, t),
             UNCHANGED opsVars
      PROVE  StoreType' /\ CopyType' /\ LoopType' /\ CallType'
  <2>1. t \in Receipt /\ KeyOf(t.copy) \in Key
    BY LoopFacts DEF Loop, Receipt, Copy, KeyOf
  <2> DEFINE k    == KeyOf(t.copy)
             free == claim[k] = "absent" \/ k \in expired
  <2>2. /\ claim' = IF free THEN [claim EXCEPT ![k] = "processing"] ELSE claim
        /\ expired' = expired \ {k}
    BY <1>8 DEF Claim
  <2>3. LoopType'
    <3>1. CASE free
      <4> DEFINE p == [poll[r] EXCEPT !.todo = @ \ {t}, !.at = t,
                         !.step = "callback", !.guard = "callback",
                         !.heartbeat = TRUE]
      <4>1. poll' = [poll EXCEPT ![r] = p]
        BY <1>8, <3>1 DEF Claim
      <4>2. p \in Loop /\ Engaged(p)
        BY <2>1, LoopFacts DEF Loop, Engaged, PollStep, Guard, Resting
      <4> HIDE DEF p
      <4> QED
        BY <4>1, <4>2, LoopUpdate DEF LoopType
    <3>2. CASE ~free
      <4> DEFINE p == [poll[r] EXCEPT !.todo = @ \ {t}, !.at = t,
                         !.step = IF claim[k] = "complete" THEN "complete"
                                                           ELSE "busy",
                         !.guard = "none", !.heartbeat = FALSE]
      <4>1. poll' = [poll EXCEPT ![r] = p]
        BY <1>8, <3>2 DEF Claim
      <4>2. p \in Loop /\ Engaged(p)
        BY <2>1, LoopFacts DEF Loop, Engaged, PollStep, Guard, Resting
      <4> HIDE DEF p
      <4> QED
        BY <4>1, <4>2, LoopUpdate DEF LoopType
    <3> QED
      BY <3>1, <3>2
  <2>4. StoreType'
    <3>1. /\ row' = row /\ sending' = sending /\ handled' = handled
          /\ dead' = dead /\ faults' = faults /\ redrive' = redrive
      BY <1>8 DEF Claim, queues, opsVars
    <3>2. /\ claim' \in [Key -> {"absent", "processing", "complete"}]
          /\ expired' \subseteq {x \in Key : claim'[x] = "processing"}
      BY <2>1, <2>2 DEF StoreType
    <3> QED
      BY <3>1, <3>2 DEF StoreType, Faults
  <2> QED
    BY <1>8, <2>3, <2>4 DEF Claim, CopyType, CallType
<1>9. ASSUME NEW r \in Receiver, ExtendBusy(r), UNCHANGED opsVars
      PROVE  StoreType' /\ CopyType' /\ LoopType' /\ CallType'
  <2>1. CopyType'
    BY <1>9, VisibleAgain DEF ExtendBusy
  <2>2. LoopType'
    BY <1>9, ContinueType DEF ExtendBusy, LoopType
  <2> QED
    BY <1>9, <2>1, <2>2 DEF ExtendBusy, StoreType, Faults, CallType
<1>10. ASSUME NEW r \in Receiver, RunCallback(r), UNCHANGED opsVars
       PROVE  StoreType' /\ CopyType' /\ LoopType' /\ CallType'
  <2>1. LoopType'
    BY <1>10, GotoType DEF RunCallback, RetryOrQuarantine, LoopType, PollStep, Resting
  <2>2. KeyAt(r) \in Key
    BY <1>10, LoopFacts DEF RunCallback, Resting
  <2> QED
    BY <1>10, <2>1, <2>2 DEF RunCallback, StoreType, Faults, CopyType, CallType
<1>11. ASSUME NEW r \in Receiver, HeartbeatFails(r), UNCHANGED opsVars
       PROVE  StoreType' /\ CopyType' /\ LoopType' /\ CallType'
  <2> DEFINE p == [poll[r] EXCEPT !.heartbeat = FALSE]
  <2>1. p \in Loop /\ Engaged(p) /\ poll' = [poll EXCEPT ![r] = p]
    BY <1>11, LoopFacts DEF HeartbeatFails, Loop, Engaged
  <2> HIDE DEF p
  <2>2. LoopType'
    BY <2>1, LoopUpdate DEF LoopType
  <2> QED
    BY <1>11, <2>2, FaultType DEF HeartbeatFails, StoreType, CopyType, CallType
<1>12. ASSUME NEW r \in Receiver, Complete(r), UNCHANGED opsVars
       PROVE  StoreType' /\ CopyType' /\ LoopType' /\ CallType'
  <2>1. LoopType'
    BY <1>12, GotoType DEF Complete, LoopType, PollStep, Resting
  <2>2. KeyAt(r) \in Key
    BY <1>12, LoopFacts DEF Complete, Resting
  <2> QED
    BY <1>12, <2>1, <2>2 DEF Complete, StoreType, Faults, CopyType, CallType
<1>13. ASSUME NEW r \in Receiver, Delete(r), UNCHANGED opsVars
       PROVE  StoreType' /\ CopyType' /\ LoopType' /\ CallType'
  <2>1. CopyType'
    BY <1>13 DEF Delete, CopyType
  <2>2. LoopType'
    BY <1>13, ContinueType DEF Delete, LoopType
  <2> QED
    BY <1>13, <2>1, <2>2 DEF Delete, StoreType, Faults, CallType
<1>14. ASSUME NEW r \in Receiver, PutDeadLetter(r), UNCHANGED opsVars
       PROVE  StoreType' /\ CopyType' /\ LoopType' /\ CallType'
  <2>1. LoopType'
    BY <1>14, GotoType DEF PutDeadLetter, LoopType, PollStep, Resting
  <2> QED
    BY <1>14, <2>1 DEF PutDeadLetter, StoreType, Faults, CopyType, CallType
<1>15. ASSUME NEW r \in Receiver, Release(r), UNCHANGED opsVars
       PROVE  StoreType' /\ CopyType' /\ LoopType' /\ CallType'
  <2>1. LoopType'
    BY <1>15, GotoType, EscapeType DEF Release, LoopType, PollStep, Resting
  <2>2. KeyAt(r) \in Key
    BY <1>15, LoopFacts DEF Release, Resting
  <2> QED
    <3>1. /\ claim' \in [Key -> {"absent", "processing", "complete"}]
          /\ expired' \subseteq {x \in Key : claim'[x] = "processing"}
      BY <1>15, <2>2 DEF Release, StoreType
    <3>2. StoreType'
      BY <1>15, <3>1 DEF Release, StoreType, Faults, queues, opsVars
    <3> QED
      BY <1>15, <2>1, <3>2 DEF Release, CopyType, CallType, queues, opsVars
<1>16. ASSUME NEW r \in Receiver, MakeVisible(r), UNCHANGED opsVars
       PROVE  StoreType' /\ CopyType' /\ LoopType' /\ CallType'
  <2>1. CopyType'
    BY <1>16, VisibleAgain DEF MakeVisible
  <2>2. LoopType'
    BY <1>16, ContinueType DEF MakeVisible, LoopType
  <2> QED
    BY <1>16, <2>1, <2>2 DEF MakeVisible, StoreType, Faults, CallType
<1>17. ASSUME NEW r \in Receiver, CallRaises(r), UNCHANGED opsVars
       PROVE  StoreType' /\ CopyType' /\ LoopType' /\ CallType'
  <2>1. LoopType'
    BY <1>17, GotoType, EscapeType DEF CallRaises, RetryOrQuarantine, LoopType,
       PollStep, Resting
  <2> QED
    BY <1>17, <2>1, FaultType DEF CallRaises, StoreType, CopyType, CallType
<1>18. ASSUME NEW r \in Receiver, Restart(r), UNCHANGED opsVars
       PROVE  StoreType' /\ CopyType' /\ LoopType' /\ CallType'
  <2>1. LoopType'
    BY <1>18, IdleType, LoopUpdate DEF Restart, LoopType
  <2> QED
    BY <1>18, <2>1, FaultType DEF Restart, StoreType, CopyType, CallType
<1>19. ASSUME NEW o \in Call, NEW k \in Key, NEW q \in Request,
              ReadDeadLetter(o, k, q)
       PROVE  StoreType' /\ CopyType' /\ LoopType' /\ CallType'
  BY <1>19 DEF ReadDeadLetter, StoreType, Faults, CopyType, LoopType, CallType,
     CallState, Aimed, Target
<1>20. ASSUME NEW o \in Call, ClaimRedrive(o)
       PROVE  StoreType' /\ CopyType' /\ LoopType' /\ CallType'
  <2>1. CallType'
    BY <1>20 DEF ClaimRedrive, Step, CallType, CallState, Aimed
  <2> QED
    BY <1>20, <2>1 DEF ClaimRedrive, StoreType, Faults, CopyType, LoopType
<1>21. ASSUME NEW o \in Call, PublishRedrive(o)
       PROVE  StoreType' /\ CopyType' /\ LoopType' /\ CallType'
  <2>1. CopyType'
    BY <1>21, SendFacts DEF PublishRedrive, CopyType, CallType, Aimed, KeyOfCall,
       Target
  <2>2. CallType'
    BY <1>21 DEF PublishRedrive, Step, CallType, CallState, Aimed
  <2> QED
    <3>1. /\ faults' \in [call : Nat, lease : Nat, other : Nat]
          /\ Faults' <= MaxFaults
      <4>1. CASE UNCHANGED faults
        BY <4>1 DEF StoreType, Faults
      <4>2. CASE Fault("other")
        BY <4>2, FaultType
      <4> QED
        BY <1>21, <4>1, <4>2 DEF PublishRedrive
    <3>2. StoreType' /\ LoopType'
      BY <1>21, <3>1 DEF PublishRedrive, StoreType, LoopType, work
    <3> QED
      BY <2>1, <2>2, <3>2
<1>22. ASSUME NEW o \in Call, MarkRedriven(o)
       PROVE  StoreType' /\ CopyType' /\ LoopType' /\ CallType'
  <2>1. CallType'
    BY <1>22 DEF MarkRedriven, Step, CallType, CallState, Aimed
  <2>2. dead' \in [Key -> {"absent", "active", "redriven"}]
    BY <1>22 DEF MarkRedriven, StoreType
  <2>3. StoreType'
    BY <1>22, <2>2 DEF MarkRedriven, StoreType, Faults, queues
  <2> QED
    BY <1>22, <2>1, <2>3 DEF MarkRedriven, CopyType, LoopType, queues
<1>23. ASSUME NEW o \in Call, FinishRedrive(o)
       PROVE  StoreType' /\ CopyType' /\ LoopType' /\ CallType'
  BY <1>23 DEF FinishRedrive, Step, StoreType, Faults, CopyType, LoopType,
     CallType, CallState, Aimed
<1>24. ASSUME NEW o \in Call, RedriveRaises(o) \/ OperationsRestart(o)
       PROVE  StoreType' /\ CopyType' /\ LoopType' /\ CallType'
  <2>1. CallType'
    BY <1>24 DEF RedriveRaises, OperationsRestart, Step, CallType, CallState, Aimed
  <2> QED
    BY <1>24, <2>1, FaultType DEF RedriveRaises, OperationsRestart, StoreType,
       CopyType, LoopType
<1>25. CASE UNCHANGED allVars
  BY <1>25 DEF StoreType, Faults, CopyType, LoopType, CallType
<1>26. CASE Transport /\ UNCHANGED opsVars
  BY <1>26, <1>1, <1>2, <1>3, <1>4, <1>5, <1>6, <1>7, <1>8, <1>9, <1>10,
     <1>11, <1>12, <1>13, <1>14, <1>15, <1>16, <1>17, <1>18
  DEF Transport, Publisher, Timers, Poll
<1> QED
  BY <1>19, <1>20, <1>21, <1>22, <1>23, <1>24, <1>25, <1>26 DEF Next, Operate

\* Every state of every instance has the types TypeOK gives.
THEOREM RedriveTypeCorrect == Spec => []TypeOK
<1>1. Spec => []TypeInv
  BY InitType, NextType, PTL DEF Spec
<1>2. TypeInv => TypeOK
  BY DEF TypeInv
<1> QED
  BY <1>1, <1>2, PTL

-----------------------------------------------------------------------------
(* What a step does to the queues: nothing that the properties look at, or  *)
(* one new copy, of the outbox or of an operator's call.                    *)

CopiesKept ==
    \A m \in Copy : /\ copy[m].state # "unsent" => copy'[m].state # "unsent"
                    /\ copy'[m].via = copy[m].via

OneSent(k, source) ==
    \E m \in Copy : /\ KeyOf(m) = k /\ copy[m].state = "unsent"
                    /\ copy'[m].state = "visible" /\ copy'[m].via = source
                    /\ \A x \in Copy \ {m} : copy'[x] = copy[x]

LEMMA PollKeepsCopies ==
  ASSUME TypeInv, NEW r \in Receiver,
         Poll(r) \/ HeartbeatFails(r) \/ CallRaises(r) \/ Restart(r)
  PROVE  CopiesKept
<1> USE TypeParts DEF CopyType, CopiesKept, queues
<1>1. CASE Receive(r)
  <2>1. PICK taken \in SUBSET Copy :
           copy' = [m \in Copy |->
                 IF m \in taken
                 THEN [copy[m] EXCEPT !.state = "inflight", !.holder = r,
                                      !.received = @ + 1]
                 ELSE copy[m]]
    BY <1>1 DEF Receive
  <2>2. ASSUME NEW m \in Copy
        PROVE  /\ copy[m].state # "unsent" => copy'[m].state # "unsent"
               /\ copy'[m].via = copy[m].via
    BY <2>1
  <2> QED
    BY <2>2
<1>2. ASSUME NEW t \in poll[r].todo, Claim(r, t) PROVE CopiesKept
  BY <1>2 DEF Claim
<1>3. CASE ExtendBusy(r) \/ MakeVisible(r) \/ Delete(r)
  <2>1. At(r) \in Copy
    BY <1>3, LoopFacts DEF ExtendBusy, MakeVisible, Delete, Resting
  <2>2. CASE UNCHANGED copy
    BY <2>2
  <2>3. CASE copy' = [copy EXCEPT ![At(r)].state =
                         IF @ = "inflight" THEN "visible" ELSE @]
    BY <2>1, <2>3
  <2>4. CASE copy' = [copy EXCEPT ![At(r)].state = "deleted"]
    BY <2>1, <2>4
  <2> QED
    BY <1>3, <2>2, <2>3, <2>4 DEF ExtendBusy, MakeVisible, Delete
<1>4. CASE RunCallback(r) \/ Complete(r) \/ PutDeadLetter(r) \/ Release(r)
  BY <1>4 DEF RunCallback, Complete, PutDeadLetter, Release
<1>5. CASE HeartbeatFails(r) \/ CallRaises(r) \/ Restart(r)
  BY <1>5 DEF HeartbeatFails, CallRaises, Restart
<1> QED
  BY <1>1, <1>2, <1>3, <1>4, <1>5 DEF Poll

LEMMA TransportCopies ==
  ASSUME TypeInv, Transport
  PROVE  CopiesKept \/ \E k \in Key : OneSent(k, Outbox)
<1>1. ASSUME NEW e \in Event, StartPublish(e)
      PROVE  CopiesKept
  BY <1>1 DEF StartPublish, CopiesKept
<1>2. ASSUME NEW e \in Event, NEW c \in Consumer,
             SendTo(e, c) \/ PublishRaises(e, c)
      PROVE  CopiesKept \/ OneSent(<<c, e>>, Outbox)
  BY <1>2, SendFacts DEF SendTo, PublishRaises, OneSent, Key, CopiesKept
<1>3. ASSUME NEW m \in Copy, MoveToNativeQueue(m) \/ VisibilityExpires(m)
      PROVE  CopiesKept
  BY <1>3, TypeParts DEF MoveToNativeQueue, VisibilityExpires, CopyType, CopiesKept
<1>4. ASSUME NEW k \in Key, LeaseExpires(k)
      PROVE  CopiesKept
  BY <1>4 DEF LeaseExpires, queues, CopiesKept
<1> QED
  BY <1>1, <1>2, <1>3, <1>4, PollKeepsCopies DEF Transport, Publisher, Timers, Key

LEMMA RedriveCopies ==
  ASSUME TypeInv, NEW o \in Call, PublishRedrive(o)
  PROVE  /\ KeyOfCall(o) \in Key /\ call[o].target[2] \in Request
         /\ OneSent(KeyOfCall(o), call[o].target[2])
<1>1. call[o].target \in Target
  BY DEF TypeInv, Aimed, PublishRedrive
<1>2. KeyOfCall(o) \in Key /\ call[o].target[2] \in Request
  BY <1>1 DEF Target, KeyOfCall
<1> QED
  BY <1>2, SendFacts DEF PublishRedrive, OneSent

\* An operator's call that does not publish leaves the queues alone.
LEMMA OtherCopies ==
  ASSUME NEW o \in Call,
         \/ ClaimRedrive(o) \/ MarkRedriven(o) \/ FinishRedrive(o)
         \/ RedriveRaises(o) \/ OperationsRestart(o)
         \/ \E k \in Key, q \in Request : ReadDeadLetter(o, k, q)
  PROVE  UNCHANGED queues
BY DEF ClaimRedrive, MarkRedriven, FinishRedrive, RedriveRaises,
   OperationsRestart, ReadDeadLetter, vars

\* What was sent is never unsent, and keeps its source.
LEMMA SentLasts ==
  ASSUME TypeInv, [Next]_allVars, NEW m \in Copy, copy[m].state # "unsent"
  PROVE  copy'[m].state # "unsent" /\ copy'[m].via = copy[m].via
<1>1. CASE Transport
  BY <1>1, TransportCopies DEF CopiesKept, OneSent
<1>2. ASSUME NEW o \in Call, PublishRedrive(o)
      PROVE  copy'[m].state # "unsent" /\ copy'[m].via = copy[m].via
  BY <1>2, RedriveCopies DEF OneSent
<1>3. CASE UNCHANGED queues
  BY <1>3 DEF queues
<1> QED
  BY <1>1, <1>2, <1>3, OtherCopies DEF Next, Operate, allVars, vars
-----------------------------------------------------------------------------
(* What the ways on through the loop do to a receiver, and that they leave  *)
(* every other receiver where it is.                                        *)

Others(r) == \A s \in Receiver \ {r} : poll'[s] = poll[s]

LEMMA GotoFacts ==
  ASSUME TypeInv, NEW r \in Receiver, NEW s \in PollStep, Goto(r, s)
  PROVE  /\ poll'[r].step = s /\ poll'[r].at = poll[r].at
         /\ poll'[r].guard = poll[r].guard /\ Others(r)
BY DEF Goto, Others, TypeInv, TypeOK

LEMMA RetryFacts ==
  ASSUME TypeInv, NEW r \in Receiver, RetryOrQuarantine(r)
  PROVE  /\ poll'[r].step \in {"quarantine", "release"}
         /\ poll'[r].at = poll[r].at /\ Others(r)
BY GotoFacts DEF RetryOrQuarantine, PollStep

LEMMA ContinueFacts ==
  ASSUME TypeInv, NEW r \in Receiver, Continue(r)
  PROVE  poll'[r].step \in Resting /\ Others(r)
BY DEF Continue, Others, TypeInv, TypeOK, Idle, Resting

LEMMA EscapeFacts ==
  ASSUME TypeInv, NEW r \in Receiver, Escape(r)
  PROVE  /\ Others(r)
         /\ \/ poll'[r].step = "stopped"
            \/ /\ poll[r].guard = "callback" /\ poll'[r].step = "release"
               /\ poll'[r].at = poll[r].at
<1>1. CASE poll[r].guard = "callback"
  BY <1>1 DEF Escape, Others, TypeInv, TypeOK
<1>2. CASE poll[r].guard # "callback"
  BY <1>2 DEF Escape, Others, TypeInv, TypeOK, Idle
<1> QED
  BY <1>1, <1>2

LEMMA ReceiveFacts ==
  ASSUME TypeInv, NEW r \in Receiver, Receive(r)
  PROVE  /\ poll'[r].step = "next" /\ Others(r)
         /\ \A m \in Copy : copy'[m].state \in {copy[m].state, "inflight"}
<1>1. PICK taken \in SUBSET Copy :
        /\ copy' = [m \in Copy |->
              IF m \in taken
              THEN [copy[m] EXCEPT !.state = "inflight", !.holder = r,
                                   !.received = @ + 1]
              ELSE copy[m]]
        /\ poll' = [poll EXCEPT ![r].step = "next",
              ![r].todo = {[copy |-> m, attempt |-> copy[m].received + 1] :
                           m \in taken}]
  BY DEF Receive
<1>2. ASSUME NEW m \in Copy
      PROVE  copy'[m].state \in {copy[m].state, "inflight"}
  <2>1. CASE m \in taken
    <3>1. copy'[m] = [copy[m] EXCEPT !.state = "inflight", !.holder = r,
                                     !.received = @ + 1]
      BY <1>1, <2>1
    <3>2. copy'[m].state = "inflight"
      BY <3>1 DEF TypeInv, TypeOK
    <3> QED
      BY <3>2
  <2>2. CASE m \notin taken
    BY <1>1, <2>2
  <2> QED
    BY <2>1, <2>2
<1> DEFINE todo == {[copy |-> m, attempt |-> copy[m].received + 1] : m \in taken}
<1>3. poll' = [poll EXCEPT ![r].step = "next", ![r].todo = todo]
  BY <1>1
<1> HIDE DEF todo
<1>4. poll'[r].step = "next" /\ Others(r)
  BY <1>3 DEF Others, TypeInv, TypeOK
<1> QED
  BY <1>2, <1>4

LEMMA ClaimFacts ==
  ASSUME TypeInv, NEW r \in Receiver, NEW t \in poll[r].todo, Claim(r, t)
  PROVE  /\ KeyOf(t.copy) \in Key /\ KeyAt(r)' = KeyOf(t.copy) /\ Others(r)
         /\ \/ /\ claim[KeyOf(t.copy)] = "absent" \/ KeyOf(t.copy) \in expired
               /\ claim' = [claim EXCEPT ![KeyOf(t.copy)] = "processing"]
               /\ poll'[r].step = "callback"
            \/ /\ UNCHANGED claim /\ poll'[r].step = "busy"
            \/ /\ UNCHANGED claim /\ poll'[r].step = "complete"
               /\ claim[KeyOf(t.copy)] = "complete" /\ poll'[r].guard = "none"
         /\ expired' = expired \ {KeyOf(t.copy)}
<1>1. t \in Receipt /\ KeyOf(t.copy) \in Key
  BY LoopFacts DEF Loop, Receipt, Copy, KeyOf
<1>2. /\ poll' = [poll EXCEPT ![r] = poll'[r]]
      /\ poll'[r].at = t
  BY DEF Claim, TypeInv, TypeOK
<1>3. KeyAt(r)' = KeyOf(t.copy) /\ Others(r)
  BY <1>1, <1>2 DEF KeyAt, At, Others, TypeInv, TypeOK
<1> QED
  BY <1>1, <1>3 DEF Claim, TypeInv, TypeOK

-----------------------------------------------------------------------------
(* A result is there before anything that lets an event go: before its      *)
(* claim is completed, and before a receiver settles a message of it.       *)

HasResult(k) == k \in handled \/ dead[k] # "absent"

Settling == {"complete", "delete", "term", "term_delete"}

ResultInv ==
    /\ \A m \in Copy : copy[m].state = "deleted" => HasResult(KeyOf(m))
    /\ \A k \in Key : claim[k] = "complete" => HasResult(k)
    /\ \A r \in Receiver : poll[r].step \in Settling => HasResult(KeyAt(r))

\* A result stays.
LEMMA ResultLasts ==
  ASSUME TypeInv, [Next]_allVars, NEW k \in Key, HasResult(k)
  PROVE  HasResult(k)'
<1> USE DEF HasResult, queues, work, vars, opsVars, allVars
<1>1. CASE UNCHANGED <<handled, dead>>
  BY <1>1
<1>2. ASSUME NEW r \in Receiver, RunCallback(r) \/ PutDeadLetter(r)
      PROVE  HasResult(k)'
  BY <1>2 DEF RunCallback, PutDeadLetter, TypeInv, TypeOK
<1>3. ASSUME NEW o \in Call, MarkRedriven(o)
      PROVE  HasResult(k)'
  BY <1>3 DEF MarkRedriven, TypeInv, TypeOK
<1>4. CASE Publisher \/ Timers
  BY <1>1, <1>4 DEF Publisher, Timers, StartPublish, SendTo, MoveToNativeQueue,
     VisibilityExpires, LeaseExpires
<1>5. ASSUME NEW e \in Event, NEW c \in Consumer, PublishRaises(e, c)
      PROVE  HasResult(k)'
  BY <1>1, <1>5 DEF PublishRaises
<1>6. ASSUME NEW r \in Receiver,
             Poll(r) \/ HeartbeatFails(r) \/ CallRaises(r) \/ Restart(r)
      PROVE  HasResult(k)'
  <2>1. CASE RunCallback(r) \/ PutDeadLetter(r)
    BY <2>1, <1>2
  <2>2. CASE ~RunCallback(r) /\ ~PutDeadLetter(r)
    BY <1>1, <1>6, <2>2 DEF Poll, Receive, Claim, ExtendBusy, Complete, Delete,
       Release, MakeVisible, HeartbeatFails, CallRaises, Restart
  <2> QED
    BY <2>1, <2>2
<1>7. ASSUME NEW o \in Call,
             \/ ClaimRedrive(o) \/ PublishRedrive(o) \/ FinishRedrive(o)
             \/ RedriveRaises(o) \/ OperationsRestart(o)
             \/ \E d \in Key, q \in Request : ReadDeadLetter(o, d, q)
      PROVE  HasResult(k)'
  BY <1>1, <1>7 DEF ClaimRedrive, PublishRedrive, FinishRedrive, RedriveRaises,
     OperationsRestart, ReadDeadLetter
<1>8. CASE Transport
  BY <1>4, <1>5, <1>6, <1>8 DEF Transport
<1>9. CASE \E o \in Call : \/ Operate(o) \/ RedriveRaises(o) \/ OperationsRestart(o)
                           \/ \E d \in Key, q \in Request : ReadDeadLetter(o, d, q)
  BY <1>3, <1>7, <1>9 DEF Operate
<1> QED
  BY <1>1, <1>8, <1>9 DEF Next

LEMMA InitResult == OpsInit => ResultInv
BY IdleType DEF OpsInit, Init, ResultInv, Unsent, Idle, Settling

\* The third part of ResultInv, which a step of one receiver may disturb only
\* for that receiver.
LEMMA OneReceiverSettles ==
  ASSUME TypeInv, ResultInv, [Next]_allVars, NEW r \in Receiver, Others(r),
         poll'[r].step \in Settling => HasResult(KeyAt(r))'
  PROVE  \A s \in Receiver : poll'[s].step \in Settling => HasResult(KeyAt(s))'
<1> SUFFICES ASSUME NEW s \in Receiver, s # r, poll'[s].step \in Settling
             PROVE  HasResult(KeyAt(s))'
  OBVIOUS
<1>1. poll'[s] = poll[s]
  BY DEF Others
<1>2. HasResult(KeyAt(s)) /\ KeyAt(s) \in Key /\ KeyAt(s)' = KeyAt(s)
  BY <1>1, LoopFacts DEF ResultInv, Settling, Resting, KeyAt, At
<1> QED
  BY <1>2, ResultLasts DEF HasResult

\* Steps that delete no message, complete no claim and move no receiver.
LEMMA ResultKept ==
  ASSUME TypeInv, ResultInv, [Next]_allVars, UNCHANGED <<claim, poll>>,
         \A m \in Copy : copy'[m].state = "deleted" => copy[m].state = "deleted"
  PROVE  ResultInv'
<1>1. ASSUME NEW m \in Copy, copy'[m].state = "deleted"
      PROVE  HasResult(KeyOf(m))'
  <2>1. HasResult(KeyOf(m)) /\ KeyOf(m) \in Key
    BY <1>1 DEF ResultInv, Copy, KeyOf
  <2> QED
    BY <2>1, ResultLasts DEF HasResult
<1>2. ASSUME NEW k \in Key, claim'[k] = "complete"
      PROVE  HasResult(k)'
  BY <1>2, ResultLasts DEF ResultInv
<1>3. ASSUME NEW s \in Receiver, poll'[s].step \in Settling
      PROVE  HasResult(KeyAt(s))'
  <2>1. HasResult(KeyAt(s)) /\ KeyAt(s) \in Key /\ KeyAt(s)' = KeyAt(s)
    BY <1>3, LoopFacts DEF ResultInv, Settling, Resting, KeyAt, At
  <2> QED
    BY <2>1, ResultLasts DEF HasResult
<1> QED
  BY <1>1, <1>2, <1>3 DEF ResultInv

LEMMA NextResult == TypeInv /\ ResultInv /\ [Next]_allVars => ResultInv'
<1> SUFFICES ASSUME TypeInv, ResultInv, [Next]_allVars
             PROVE  ResultInv'
  OBVIOUS
<1> USE DEF queues, work, vars, opsVars, allVars
<1>1. CASE UNCHANGED <<claim, poll, copy>>
  BY <1>1, ResultKept
<1>2. ASSUME NEW k \in Key, NEW source \in Request \cup {Outbox},
             Send(k, source), UNCHANGED <<claim, poll>>
      PROVE  ResultInv'
  BY <1>2, SendFacts, ResultKept
<1>3. ASSUME NEW m \in Copy, MoveToNativeQueue(m) \/ VisibilityExpires(m)
      PROVE  ResultInv'
  <2>1. \A x \in Copy : copy'[x].state = "deleted" => copy[x].state = "deleted"
    <3>1. CASE copy' = [copy EXCEPT ![m].state = "native"]
      BY <3>1 DEF TypeInv, TypeOK
    <3>2. CASE copy' = [copy EXCEPT ![m].state = "visible"]
      BY <3>2 DEF TypeInv, TypeOK
    <3> QED
      BY <1>3, <3>1, <3>2 DEF MoveToNativeQueue, VisibilityExpires
  <2> QED
    BY <1>3, <2>1, ResultKept DEF MoveToNativeQueue, VisibilityExpires
<1>4. ASSUME NEW r \in Receiver,
             Poll(r) \/ HeartbeatFails(r) \/ CallRaises(r) \/ Restart(r)
      PROVE  ResultInv'
  <2>1. \A m \in Copy : copy'[m].state = "deleted" => HasResult(KeyOf(m))'
    <3> SUFFICES ASSUME NEW m \in Copy, copy'[m].state = "deleted"
                 PROVE  HasResult(KeyOf(m))'
      OBVIOUS
    <3>1. KeyOf(m) \in Key /\ KeyOf(m)' = KeyOf(m)
      BY DEF Copy, KeyOf
    <3>2. CASE copy[m].state = "deleted"
      BY <3>1, <3>2, ResultLasts DEF ResultInv, HasResult
    <3>3. CASE copy[m].state # "deleted"
      <4>1. CASE Receive(r)
        BY <3>3, <4>1, ReceiveFacts
      <4>2. CASE ExtendBusy(r) \/ MakeVisible(r)
        BY <3>3, <4>2 DEF ExtendBusy, MakeVisible, TypeInv, TypeOK
      <4>3. CASE Delete(r)
        <5>1. m = At(r) /\ poll[r].step \in Settling
          BY <3>3, <4>3 DEF Delete, TypeInv, TypeOK, Settling
        <5> QED
          BY <3>1, <5>1, ResultLasts DEF ResultInv, KeyAt, HasResult
      <4> QED
        BY <1>4, <3>3, <4>1, <4>2, <4>3 DEF Poll, Claim, RunCallback, Complete,
           PutDeadLetter, Release, HeartbeatFails, CallRaises, Restart
    <3> QED
      BY <3>2, <3>3
  <2>2. \A k \in Key : claim'[k] = "complete" => HasResult(k)'
    <3> SUFFICES ASSUME NEW k \in Key, claim'[k] = "complete"
                 PROVE  HasResult(k)'
      OBVIOUS
    <3>1. CASE claim[k] = "complete"
      BY <3>1, ResultLasts DEF ResultInv
    <3>2. CASE claim[k] # "complete"
      <4>1. CASE Complete(r)
        <5>1. k = KeyAt(r) /\ poll[r].step \in Settling
          BY <3>2, <4>1 DEF Complete, TypeInv, TypeOK, Settling
        <5> QED
          BY <5>1, ResultLasts DEF ResultInv
      <4>2. CASE Release(r)
        BY <3>2, <4>2 DEF Release, TypeInv, TypeOK
      <4>3. ASSUME NEW t \in poll[r].todo, Claim(r, t) PROVE FALSE
        BY <3>2, <4>3, ClaimFacts DEF TypeInv, TypeOK
      <4> QED
        BY <1>4, <3>2, <4>1, <4>2, <4>3 DEF Poll, Receive, ExtendBusy, RunCallback,
           Delete, PutDeadLetter, MakeVisible, HeartbeatFails, CallRaises, Restart
    <3> QED
      BY <3>1, <3>2
  <2>3. Others(r) /\ (poll'[r].step \in Settling => HasResult(KeyAt(r))')
    <3> USE DEF Settling, Resting
    <3>1. CASE Receive(r) \/ HeartbeatFails(r) \/ Restart(r)
      <4>1. CASE Receive(r) \/ Restart(r)
        BY <4>1, ReceiveFacts DEF Restart, Others, TypeInv, TypeOK, Idle
      <4>2. CASE HeartbeatFails(r)
        <5>1. /\ Others(r) /\ KeyAt(r)' = KeyAt(r)
              /\ poll'[r].step = poll[r].step
          BY <4>2 DEF HeartbeatFails, Others, TypeInv, TypeOK, KeyAt, At
        <5> QED
          BY <5>1, ResultLasts, LoopFacts DEF ResultInv, HasResult
      <4> QED
        BY <3>1, <4>1, <4>2
    <3>2. ASSUME NEW t \in poll[r].todo, Claim(r, t)
          PROVE  Others(r) /\ (poll'[r].step \in Settling => HasResult(KeyAt(r))')
      BY <3>2, ClaimFacts, ResultLasts DEF ResultInv, HasResult
    <3>3. CASE ExtendBusy(r) \/ Delete(r) \/ MakeVisible(r)
      BY <3>3, ContinueFacts DEF ExtendBusy, Delete, MakeVisible
    <3>4. CASE RunCallback(r)
      <4>1. CASE handled' = handled \cup {KeyAt(r)} /\ Goto(r, "complete")
        <5>1. Others(r) /\ KeyAt(r)' = KeyAt(r)
          BY <4>1, GotoFacts DEF PollStep, KeyAt, At
        <5> QED
          BY <4>1, <5>1 DEF HasResult
      <4>2. CASE RetryOrQuarantine(r)
        BY <4>2, RetryFacts
      <4> QED
        BY <3>4, <4>1, <4>2 DEF RunCallback
    <3>5. CASE Complete(r)
      <4>1. /\ Others(r) /\ KeyAt(r)' = KeyAt(r)
            /\ poll[r].step \in Settling
        BY <3>5, GotoFacts DEF Complete, PollStep, KeyAt, At
      <4> QED
        BY <4>1, ResultLasts, LoopFacts DEF ResultInv, HasResult
    <3>6. CASE PutDeadLetter(r)
      <4>1. Others(r) /\ KeyAt(r)' = KeyAt(r) /\ KeyAt(r) \in Key
        BY <3>6, GotoFacts, LoopFacts DEF PutDeadLetter, PollStep, KeyAt, At
      <4> QED
        BY <3>6, <4>1 DEF PutDeadLetter, HasResult, TypeInv, TypeOK
    <3>7. CASE Release(r)
      <4>1. CASE Goto(r, IF poll[r].step = "term" THEN "term_delete" ELSE "extend")
        <5>1. CASE poll[r].step = "term"
          <6>1. Others(r) /\ KeyAt(r)' = KeyAt(r)
            BY <4>1, <5>1, GotoFacts DEF PollStep, KeyAt, At
          <6> QED
            BY <5>1, <6>1, ResultLasts, LoopFacts DEF ResultInv, HasResult
        <5>2. CASE poll[r].step # "term"
          BY <4>1, <5>2, GotoFacts DEF PollStep
        <5> QED
          BY <5>1, <5>2
      <4>2. CASE Escape(r)
        BY <4>2, EscapeFacts
      <4> QED
        BY <3>7, <4>1, <4>2 DEF Release
    <3>8. CASE CallRaises(r)
      BY <3>8, RetryFacts, EscapeFacts DEF CallRaises
    <3> QED
      BY <1>4, <3>1, <3>2, <3>3, <3>4, <3>5, <3>6, <3>7, <3>8 DEF Poll
  <2>4. \A s \in Receiver : poll'[s].step \in Settling => HasResult(KeyAt(s))'
    BY <2>3, OneReceiverSettles
  <2> QED
    BY <2>1, <2>2, <2>4 DEF ResultInv
<1>5. CASE Publisher \/ \E e \in Event, c \in Consumer : PublishRaises(e, c)
  <2>1. ASSUME NEW e \in Event, NEW c \in Consumer, SendTo(e, c) \/ PublishRaises(e, c)
        PROVE  ResultInv'
    BY <2>1, <1>1, <1>2 DEF SendTo, PublishRaises, Key
  <2> QED
    BY <1>1, <1>5, <2>1 DEF Publisher, StartPublish
<1>6. CASE Timers
  BY <1>1, <1>3, <1>6 DEF Timers, LeaseExpires
<1>7. CASE Transport
  BY <1>4, <1>5, <1>6, <1>7 DEF Transport
<1>8. ASSUME NEW o \in Call, PublishRedrive(o)
      PROVE  ResultInv'
  BY <1>2, <1>8, RedriveCopies DEF PublishRedrive
<1>9. ASSUME NEW o \in Call, \/ ClaimRedrive(o) \/ MarkRedriven(o) \/ FinishRedrive(o)
                             \/ RedriveRaises(o) \/ OperationsRestart(o)
                             \/ \E k \in Key, q \in Request : ReadDeadLetter(o, k, q)
      PROVE  ResultInv'
  BY <1>1, <1>9 DEF ClaimRedrive, MarkRedriven, FinishRedrive, RedriveRaises,
     OperationsRestart, ReadDeadLetter
<1> QED
  BY <1>1, <1>7, <1>8, <1>9 DEF Next, Operate

\* Once every copy that a consumer's queue got is deleted, the callback has
\* done its work or the event is a dead letter (event_bus.py, _poll).
THEOREM NoEventLost == Spec => []DeletedOnlyWithResult
<1>1. TypeInv /\ ResultInv => DeletedOnlyWithResult
  BY DEF ResultInv, DeletedOnlyWithResult, Sent, HasResult
<1> QED
  BY <1>1, InitType, NextType, InitResult, NextResult, PTL DEF Spec

-----------------------------------------------------------------------------
(* What the publisher no longer has to send was sent.                       *)

FanOutInv ==
    \A e \in Event, c \in Consumer :
        row[e] = "deleted" \/ (sending[e] # {} /\ c \notin sending[e])
            => Sent(<<c, e>>) # {}

LEMMA SentStays ==
  ASSUME TypeInv, [Next]_allVars, NEW k \in Key, Sent(k) # {}
  PROVE  Sent(k)' # {}
BY SentLasts DEF Sent

\* A copy that is sent is there.
LEMMA SentArrives ==
  ASSUME TypeInv, NEW k \in Key, NEW source \in Request \cup {Outbox},
         Send(k, source)
  PROVE  \E m \in Sent(k)' : copy'[m].via = source
BY SendFacts DEF Sent

LEMMA InitFanOut == OpsInit => FanOutInv
BY DEF OpsInit, Init, FanOutInv

LEMMA NextFanOut == TypeInv /\ FanOutInv /\ [Next]_allVars => FanOutInv'
<1> SUFFICES ASSUME TypeInv, FanOutInv, [Next]_allVars,
                    NEW d \in Event, NEW b \in Consumer,
                    row'[d] = "deleted" \/ (sending'[d] # {} /\ b \notin sending'[d])
             PROVE  Sent(<<b, d>>)' # {}
  BY DEF FanOutInv
<1> <<b, d>> \in Key
  BY DEF Key
<1> USE DEF TypeInv, TypeOK
<1>1. CASE UNCHANGED <<row, sending>>
  BY <1>1, SentStays DEF FanOutInv
<1>2. ASSUME NEW e \in Event, StartPublish(e)
      PROVE  Sent(<<b, d>>)' # {}
  <2>1. d # e \/ row'[d] = "deleted"
    BY <1>2 DEF StartPublish
  <2> QED
    BY <1>2, <2>1, SentStays DEF FanOutInv, StartPublish
<1>3. ASSUME NEW e \in Event, NEW c \in Consumer, SendTo(e, c)
      PROVE  Sent(<<b, d>>)' # {}
  <2>1. CASE d # e
    BY <1>3, <2>1, SentStays DEF FanOutInv, SendTo
  <2>2. CASE d = e /\ b = c
    BY <1>3, <2>2, SentArrives DEF SendTo
  <2>3. CASE d = e /\ b # c
    <3>1. row[d] = "deleted" \/ (sending[d] # {} /\ b \notin sending[d])
      BY <1>3, <2>3 DEF SendTo
    <3> QED
      BY <3>1, SentStays DEF FanOutInv
  <2> QED
    BY <2>1, <2>2, <2>3
<1>4. ASSUME NEW e \in Event, NEW c \in Consumer, PublishRaises(e, c)
      PROVE  Sent(<<b, d>>)' # {}
  BY <1>4, SentStays DEF FanOutInv, PublishRaises
<1>5. CASE Timers
  BY <1>1, <1>5 DEF Timers, MoveToNativeQueue, VisibilityExpires, LeaseExpires, queues
<1>6. ASSUME NEW r \in Receiver,
             Poll(r) \/ HeartbeatFails(r) \/ CallRaises(r) \/ Restart(r)
      PROVE  UNCHANGED <<row, sending>>
  BY <1>6 DEF queues, Poll, Receive, ExtendBusy, RunCallback, Complete, Delete,
     PutDeadLetter, Release, MakeVisible, Claim, HeartbeatFails, CallRaises, Restart
<1>7. CASE Transport
  BY <1>1, <1>2, <1>3, <1>4, <1>5, <1>6, <1>7 DEF Transport, Publisher
<1>8. ASSUME NEW o \in Call, PublishRedrive(o)
      PROVE  UNCHANGED <<row, sending>>
  BY <1>8 DEF PublishRedrive
<1> QED
  BY <1>1, <1>7, <1>8, OtherCopies DEF Next, Operate, queues, allVars, vars

\* The outbox row is gone only when every consumer's queue got the event
\* (event_bus.py, publish; the row is deleted after it).
THEOREM FanOut == Spec => []FanOutComplete
<1>1. FanOutInv => FanOutComplete
  BY DEF FanOutInv, FanOutComplete
<1> QED
  BY <1>1, InitType, NextType, InitFanOut, NextFanOut, PTL DEF Spec

-----------------------------------------------------------------------------
(* A call that is past its publication has one to show.                     *)

Redriven(k) == \E m \in Sent(k) : copy[m].via # Outbox

MarkInv ==
    /\ \A k \in Key : dead[k] = "redriven" => Redriven(k)
    /\ \A o \in Call : call[o].step \in {"mark", "finish"} => Redriven(KeyOfCall(o))

LEMMA RedrivenLasts ==
  ASSUME TypeInv, [Next]_allVars, NEW k \in Key, Redriven(k)
  PROVE  Redriven(k)'
BY SentLasts DEF Redriven, Sent

LEMMA InitMark == OpsInit => MarkInv
BY DEF OpsInit, Init, MarkInv, NoCall

LEMMA NextMark == TypeInv /\ MarkInv /\ [Next]_allVars => MarkInv'
<1> SUFFICES ASSUME TypeInv, MarkInv, [Next]_allVars
             PROVE  /\ \A k \in Key : dead'[k] = "redriven" => Redriven(k)'
                    /\ \A o \in Call : call'[o].step \in {"mark", "finish"} =>
                          Redriven(KeyOfCall(o))'
  BY DEF MarkInv
<1> USE DEF queues, work, vars, opsVars, allVars
<1>1. ASSUME NEW o \in Call, call'[o] = call[o], call'[o].step \in {"mark", "finish"}
      PROVE  Redriven(KeyOfCall(o))'
  <2>1. /\ Redriven(KeyOfCall(o)) /\ KeyOfCall(o) \in Key
        /\ KeyOfCall(o)' = KeyOfCall(o)
    BY <1>1 DEF MarkInv, KeyOfCall, TypeInv, Aimed, Target
  <2> QED
    BY <2>1, RedrivenLasts DEF Redriven, Sent
<1>2. ASSUME NEW k \in Key, dead'[k] = dead[k], dead'[k] = "redriven"
      PROVE  Redriven(k)'
  BY <1>2, RedrivenLasts DEF MarkInv
<1>3. CASE UNCHANGED <<dead, call>>
  BY <1>1, <1>2, <1>3
<1>4. ASSUME NEW o \in Call, UNCHANGED dead,
             \A p \in Call \ {o} : call'[p] = call[p],
             call'[o].step \notin {"mark", "finish"}
      PROVE  /\ \A k \in Key : dead'[k] = "redriven" => Redriven(k)'
             /\ \A p \in Call : call'[p].step \in {"mark", "finish"} =>
                   Redriven(KeyOfCall(p))'
  BY <1>1, <1>2, <1>4
<1>5. ASSUME NEW r \in Receiver, PutDeadLetter(r)
      PROVE  \A k \in Key : dead'[k] = "redriven" => Redriven(k)'
  BY <1>2, <1>5 DEF PutDeadLetter, TypeInv, TypeOK
<1>6. CASE Transport /\ UNCHANGED opsVars
  <2>1. CASE UNCHANGED dead
    BY <1>3, <1>6, <2>1
  <2>2. ASSUME NEW r \in Receiver,
               Poll(r) \/ HeartbeatFails(r) \/ CallRaises(r) \/ Restart(r)
        PROVE  PutDeadLetter(r) \/ UNCHANGED dead
    BY <2>2 DEF Poll, Receive, ExtendBusy, RunCallback, Complete, Delete,
       Release, MakeVisible, Claim, HeartbeatFails, CallRaises, Restart
  <2>3. CASE Publisher \/ Timers \/ \E e \in Event, c \in Consumer : PublishRaises(e, c)
    BY <2>1, <2>3 DEF Publisher, Timers, PublishRaises, StartPublish, SendTo,
       MoveToNativeQueue, VisibilityExpires, LeaseExpires
  <2> QED
    BY <1>1, <1>5, <1>6, <2>1, <2>2, <2>3 DEF Transport
<1>7. ASSUME NEW o \in Call, PublishRedrive(o)
      PROVE  /\ \A k \in Key : dead'[k] = "redriven" => Redriven(k)'
             /\ \A p \in Call : call'[p].step \in {"mark", "finish"} =>
                   Redriven(KeyOfCall(p))'
  <2>1. /\ UNCHANGED dead /\ \A p \in Call \ {o} : call'[p] = call[p]
        /\ KeyOfCall(o)' = KeyOfCall(o)
    BY <1>7 DEF PublishRedrive, Step, TypeInv, TypeOK, KeyOfCall
  <2>2. Redriven(KeyOfCall(o))'
    <3>1. \E m \in Sent(KeyOfCall(o))' : copy'[m].via = call[o].target[2]
      BY <1>7, <2>1, RedriveCopies DEF OneSent, Sent
    <3> QED
      BY <1>7, <3>1, RedriveCopies, SqsAssumption DEF Redriven
  <2> QED
    BY <1>1, <1>2, <2>1, <2>2
<1>8. ASSUME NEW o \in Call, MarkRedriven(o)
      PROVE  /\ \A k \in Key : dead'[k] = "redriven" => Redriven(k)'
             /\ \A p \in Call : call'[p].step \in {"mark", "finish"} =>
                   Redriven(KeyOfCall(p))'
  <2>1. /\ KeyOfCall(o) \in Key /\ KeyOfCall(o)' = KeyOfCall(o)
        /\ \A p \in Call \ {o} : call'[p] = call[p]
        /\ \A k \in Key \ {KeyOfCall(o)} : dead'[k] = dead[k]
    BY <1>8 DEF MarkRedriven, Step, TypeInv, TypeOK, KeyOfCall, Aimed, Target
  <2>2. PICK d \in Key : d = KeyOfCall(o)
    BY <2>1
  <2>3. Redriven(d)'
    BY <1>8, <2>2, RedrivenLasts DEF MarkInv, MarkRedriven
  <2>4. Redriven(KeyOfCall(o))'
    BY <2>1, <2>2, <2>3 DEF Redriven, Sent
  <2> QED
    BY <1>1, <1>2, <2>1, <2>2, <2>3, <2>4
<1>9. ASSUME NEW o \in Call, \/ ClaimRedrive(o) \/ FinishRedrive(o)
                             \/ RedriveRaises(o) \/ OperationsRestart(o)
                             \/ \E k \in Key, q \in Request : ReadDeadLetter(o, k, q)
      PROVE  /\ \A k \in Key : dead'[k] = "redriven" => Redriven(k)'
             /\ \A p \in Call : call'[p].step \in {"mark", "finish"} =>
                   Redriven(KeyOfCall(p))'
  <2>1. UNCHANGED dead /\ \A p \in Call \ {o} : call'[p] = call[p]
    BY <1>9 DEF ClaimRedrive, FinishRedrive, RedriveRaises, OperationsRestart,
       ReadDeadLetter, Step, TypeInv, TypeOK
  <2>2. call'[o].step \notin {"mark", "finish"}
    BY <1>9 DEF ClaimRedrive, FinishRedrive, RedriveRaises, OperationsRestart,
       ReadDeadLetter, Step, TypeInv, TypeOK
  <2> QED
    BY <1>4, <2>1, <2>2
<1> QED
  BY <1>3, <1>6, <1>7, <1>8, <1>9 DEF Next, Operate

\* A dead letter counts as re-driven only after a re-drive of it was sent
\* (operations_service.py, redrive_dead_letter).
THEOREM MarkedAfter == Spec => []MarkedAfterPublication
<1>1. MarkInv => MarkedAfterPublication
  BY DEF MarkInv, MarkedAfterPublication, Redriven
<1> QED
  BY <1>1, InitType, NextType, InitMark, NextMark, PTL DEF Spec

-----------------------------------------------------------------------------
(* The claim of a request is a ticket for one publication: it is handed to  *)
(* one call, and spent when the call has sent its copy.                     *)

OnceInv ==
    /\ \A m \in Copy : copy[m].via # Outbox =>
          redrive[<<KeyOf(m), copy[m].via>>] # "absent"
    /\ \A o \in Call : call[o].step = "publish" =>
          /\ redrive[call[o].target] # "absent"
          /\ \A m \in Copy : <<KeyOf(m), copy[m].via>> # call[o].target
    /\ \A o, p \in Call :
          /\ call[o].step = "publish" /\ call[p].step = "publish"
          /\ call[o].target = call[p].target
          => o = p
    /\ \A m, x \in Copy :
          /\ copy[m].via # Outbox
          /\ KeyOf(m) = KeyOf(x) /\ copy[m].via = copy[x].via
          => m = x

LEMMA AtMostOne ==
  ASSUME NEW S, \A x, y \in S : x = y
  PROVE  Cardinality(S) <= 1
<1>1. CASE S = {}
  BY <1>1, FS_EmptySet
<1>2. CASE S # {}
  <2>1. PICK x : S = {x}
    BY <1>2
  <2> QED
    BY <2>1, FS_Singleton
<1> QED
  BY <1>1, <1>2

LEMMA InitOnce == OpsInit => OnceInv
BY DEF OpsInit, Init, OnceInv, NoCall, Unsent

LEMMA NextOnce == TypeInv /\ OnceInv /\ [Next]_allVars => OnceInv'
<1> SUFFICES ASSUME TypeInv, OnceInv, [Next]_allVars
             PROVE  OnceInv'
  OBVIOUS
<1> DEFINE Ticket(m) == <<KeyOf(m), copy[m].via>>
<1> USE DEF queues, work, vars, opsVars, allVars
<1>1. ASSUME \A m \in Copy : copy'[m].via = copy[m].via,
             \A x \in Target : redrive[x] # "absent" => redrive'[x] # "absent",
             \A o \in Call : call'[o].step = "publish" => call'[o] = call[o]
      PROVE  OnceInv'
  <2>1. \A m \in Copy : copy[m].via # Outbox => <<KeyOf(m), copy[m].via>> \in Target
    BY DEF TypeInv, TypeOK, Copy, KeyOf, Target
  <2>2. \A m \in Copy : copy'[m].via # Outbox =>
            redrive'[<<KeyOf(m), copy'[m].via>>] # "absent"
    BY <1>1, <2>1 DEF OnceInv
  <2>3. \A o \in Call : call'[o].step = "publish" =>
          /\ redrive'[call'[o].target] # "absent"
          /\ \A m \in Copy : <<KeyOf(m), copy'[m].via>> # call'[o].target
    BY <1>1 DEF OnceInv, TypeInv, Aimed
  <2>4. \A o, p \in Call :
          /\ call'[o].step = "publish" /\ call'[p].step = "publish"
          /\ call'[o].target = call'[p].target
          => o = p
    BY <1>1 DEF OnceInv
  <2>5. \A m, x \in Copy :
          /\ copy'[m].via # Outbox
          /\ KeyOf(m) = KeyOf(x) /\ copy'[m].via = copy'[x].via
          => m = x
    BY <1>1 DEF OnceInv
  <2> QED
    BY <2>2, <2>3, <2>4, <2>5 DEF OnceInv, KeyOf
<1>2. CASE Transport /\ UNCHANGED opsVars
  <2>1. CASE CopiesKept
    BY <1>1, <1>2, <2>1 DEF CopiesKept
  <2>2. ASSUME NEW k \in Key, OneSent(k, Outbox)
        PROVE  OnceInv'
    <3>1. \A m \in Copy : copy'[m].via # Outbox => copy'[m].via = copy[m].via
      BY <2>2 DEF OneSent
    <3>2. \A m \in Copy : copy'[m].via # Outbox =>
            redrive'[<<KeyOf(m), copy'[m].via>>] # "absent"
      BY <1>2, <3>1 DEF OnceInv
    <3>3. \A o \in Call : call'[o].step = "publish" =>
            /\ redrive'[call'[o].target] # "absent"
            /\ \A m \in Copy : <<KeyOf(m), copy'[m].via>> # call'[o].target
      <4> SUFFICES ASSUME NEW o \in Call, call[o].step = "publish", NEW m \in Copy
                   PROVE  <<KeyOf(m), copy'[m].via>> # call[o].target
        BY <1>2 DEF OnceInv
      <4>1. call[o].target[2] # Outbox
        BY SqsAssumption DEF TypeInv, Aimed, Target
      <4> QED
        BY <3>1, <4>1 DEF OnceInv
    <3>4. \A m, x \in Copy :
            /\ copy'[m].via # Outbox
            /\ KeyOf(m) = KeyOf(x) /\ copy'[m].via = copy'[x].via
            => m = x
      BY <3>1 DEF OnceInv
    <3> QED
      BY <1>2, <3>2, <3>3, <3>4 DEF OnceInv, KeyOf
  <2> QED
    BY <1>2, <2>1, <2>2, TransportCopies
<1>3. ASSUME NEW o \in Call, PublishRedrive(o)
      PROVE  OnceInv'
  <2>1. PICK k \in Key, q \in Request :
           call[o].target = <<k, q>> /\ OneSent(k, q)
    <3>1. call[o].target \in Target
      BY <1>3 DEF TypeInv, Aimed, PublishRedrive
    <3> QED
      BY <1>3, <3>1, RedriveCopies DEF KeyOfCall, Target
  <2>2. PICK n \in Copy : /\ KeyOf(n) = k /\ copy'[n].via = q
                          /\ \A x \in Copy \ {n} : copy'[x] = copy[x]
    BY <2>1 DEF OneSent
  <2>3. /\ \A p \in Call \ {o} : call'[p] = call[p]
        /\ call'[o].step # "publish" /\ UNCHANGED redrive
    BY <1>3 DEF PublishRedrive, Step, TypeInv, TypeOK
  <2>4. /\ redrive[<<k, q>>] # "absent"
        /\ \A m \in Copy : <<KeyOf(m), copy[m].via>> # <<k, q>>
        /\ \A p \in Call \ {o} : call[p].step = "publish" => call[p].target # <<k, q>>
    BY <1>3, <2>1 DEF OnceInv, PublishRedrive
  <2>5. \A m \in Copy : copy'[m].via # Outbox =>
            redrive'[<<KeyOf(m), copy'[m].via>>] # "absent"
    BY <2>2, <2>3, <2>4 DEF OnceInv
  <2>6. \A p \in Call : call'[p].step = "publish" =>
          /\ redrive'[call'[p].target] # "absent"
          /\ \A m \in Copy : <<KeyOf(m), copy'[m].via>> # call'[p].target
    BY <2>2, <2>3, <2>4 DEF OnceInv
  <2>7. \A p, x \in Call :
          /\ call'[p].step = "publish" /\ call'[x].step = "publish"
          /\ call'[p].target = call'[x].target
          => p = x
    BY <2>3 DEF OnceInv
  <2>8. \A m, x \in Copy :
          /\ copy'[m].via # Outbox
          /\ KeyOf(m) = KeyOf(x) /\ copy'[m].via = copy'[x].via
          => m = x
    BY <2>2, <2>4 DEF OnceInv
  <2> QED
    BY <2>5, <2>6, <2>7, <2>8 DEF OnceInv, KeyOf
<1>4. ASSUME NEW o \in Call, ClaimRedrive(o)
      PROVE  OnceInv'
  <2>1. /\ \A m \in Copy : copy'[m].via = copy[m].via
        /\ \A p \in Call \ {o} : call'[p] = call[p]
        /\ call[o].target \in Target /\ call'[o].target = call[o].target
        /\ \A x \in Target : redrive[x] # "absent" => redrive'[x] # "absent"
    BY <1>4 DEF ClaimRedrive, Step, TypeInv, TypeOK, Aimed
  <2>2. CASE redrive[call[o].target] # "absent"
    <3>1. call'[o].step = "done"
      BY <1>4, <2>2 DEF ClaimRedrive, Step, TypeInv, TypeOK
    <3> QED
      BY <1>1, <2>1, <3>1
  <2>3. CASE redrive[call[o].target] = "absent"
    <3>1. call'[o].step = "publish" /\ redrive'[call[o].target] = "publishing"
      BY <1>4, <2>1, <2>3 DEF ClaimRedrive, Step, TypeInv, TypeOK
    <3>2. \A m \in Copy : <<KeyOf(m), copy[m].via>> # call[o].target
      <4> SUFFICES ASSUME NEW m \in Copy, <<KeyOf(m), copy[m].via>> = call[o].target
                   PROVE  FALSE
        OBVIOUS
      <4>1. copy[m].via # Outbox
        BY <2>1, SqsAssumption DEF Target
      <4> QED
        BY <2>3, <4>1 DEF OnceInv
    <3>3. \A m \in Copy : copy'[m].via # Outbox =>
              redrive'[<<KeyOf(m), copy'[m].via>>] # "absent"
      <4>1. \A m \in Copy : copy[m].via # Outbox => <<KeyOf(m), copy[m].via>> \in Target
        BY DEF TypeInv, TypeOK, Copy, KeyOf, Target
      <4> QED
        BY <2>1, <4>1 DEF OnceInv
    <3>4. \A p \in Call : call'[p].step = "publish" =>
            /\ redrive'[call'[p].target] # "absent"
            /\ \A m \in Copy : <<KeyOf(m), copy'[m].via>> # call'[p].target
      BY <2>1, <3>1, <3>2 DEF OnceInv, TypeInv, Aimed
    <3>5. \A p, x \in Call :
            /\ call'[p].step = "publish" /\ call'[x].step = "publish"
            /\ call'[p].target = call'[x].target
            => p = x
      BY <2>1, <2>3, <3>1 DEF OnceInv
    <3>6. \A m, x \in Copy :
            /\ copy'[m].via # Outbox
            /\ KeyOf(m) = KeyOf(x) /\ copy'[m].via = copy'[x].via
            => m = x
      BY <2>1 DEF OnceInv
    <3> QED
      BY <3>3, <3>4, <3>5, <3>6 DEF OnceInv, KeyOf
  <2> QED
    BY <2>2, <2>3
<1>5. ASSUME NEW o \in Call, \/ MarkRedriven(o) \/ FinishRedrive(o)
                             \/ RedriveRaises(o) \/ OperationsRestart(o)
                             \/ \E k \in Key, q \in Request : ReadDeadLetter(o, k, q)
      PROVE  OnceInv'
  <2>1. UNCHANGED copy
    BY <1>5, OtherCopies
  <2>2. \A x \in Target : redrive[x] # "absent" => redrive'[x] # "absent"
    BY <1>5 DEF MarkRedriven, FinishRedrive, RedriveRaises, OperationsRestart,
       ReadDeadLetter, TypeInv, TypeOK
  <2>3. \A p \in Call : call'[p].step = "publish" => call'[p] = call[p]
    BY <1>5 DEF MarkRedriven, FinishRedrive, RedriveRaises, OperationsRestart,
       ReadDeadLetter, Step, TypeInv, TypeOK
  <2> QED
    BY <1>1, <2>1, <2>2, <2>3
<1>6. CASE UNCHANGED allVars
  BY <1>1, <1>6
<1> QED
  BY <1>2, <1>3, <1>4, <1>5, <1>6 DEF Next, Operate

\* A request id re-drives an event at most once, whoever repeats the call
\* (operations_service.py, redrive_dead_letter; monitoring_store.py,
\* claim_redrive).
THEOREM RedrivenOnce == Spec => []RedrivenOncePerRequest
<1>1. TypeInv /\ OnceInv => RedrivenOncePerRequest
  <2> SUFFICES ASSUME TypeInv, OnceInv, NEW k \in Key, NEW q \in Request
               PROVE  Cardinality({m \in Sent(k) : copy[m].via = q}) <= 1
    BY DEF RedrivenOncePerRequest
  <2>1. \A m, x \in {m \in Sent(k) : copy[m].via = q} : m = x
    BY SqsAssumption DEF OnceInv, Sent
  <2> QED
    BY <2>1, AtMostOne
<1> QED
  BY <1>1, InitType, NextType, InitOnce, NextOnce, PTL DEF Spec

-----------------------------------------------------------------------------
(* While no lease ran out under a receiver and no call of one raised, a     *)
(* receiver between its claim and its settlement holds the claim alone.     *)

Owner(p) == \/ p.step \in {"callback", "quarantine", "release", "term"}
            \/ p.step = "complete" /\ p.guard # "none"

KeyIn(p) == KeyOf(p.at.copy)

Covered(p) ==
    /\ Owner(p) => claim[KeyIn(p)] = "processing" /\ KeyIn(p) \notin expired
    /\ p.step = "complete" /\ ~Owner(p) => claim[KeyIn(p)] = "complete"
    /\ p.step = "callback" => p.guard # "none"

Apart(p, other) == Owner(p) /\ Owner(other) => KeyIn(p) # KeyIn(other)

OwnerInv ==
    faults.lease = 0 /\ faults.call = 0 =>
        /\ \A r \in Receiver : Covered(poll[r])
        /\ \A r, s \in Receiver : r # s => Apart(poll[r], poll[s])

LEMMA InitOwner == OpsInit => OwnerInv
BY DEF OpsInit, Init, OwnerInv, Covered, Apart, Owner, Idle

\* The faults that the property excludes are counted and never forgotten.
LEMMA FaultsStay ==
  ASSUME TypeInv, [Next]_allVars, faults'.lease = 0, faults'.call = 0
  PROVE  faults.lease = 0 /\ faults.call = 0
<1> USE DEF queues, work, vars, opsVars, allVars
<1>1. CASE UNCHANGED faults
  BY <1>1
<1>2. ASSUME NEW kind \in {"call", "lease", "other"}, Fault(kind)
      PROVE  faults.lease = 0 /\ faults.call = 0
  BY <1>2 DEF Fault, TypeInv, TypeOK
<1>3. ASSUME NEW r \in Receiver,
             Poll(r) \/ HeartbeatFails(r) \/ CallRaises(r) \/ Restart(r)
      PROVE  faults.lease = 0 /\ faults.call = 0
  BY <1>1, <1>2, <1>3 DEF Poll, Receive, ExtendBusy, RunCallback, Complete, Delete,
     PutDeadLetter, Release, MakeVisible, Claim, HeartbeatFails, CallRaises, Restart
<1>4. CASE Publisher \/ Timers \/ \E e \in Event, c \in Consumer : PublishRaises(e, c)
  BY <1>1, <1>2, <1>4 DEF Publisher, Timers, PublishRaises, StartPublish, SendTo,
     MoveToNativeQueue, VisibilityExpires, LeaseExpires
<1>5. CASE Transport
  BY <1>3, <1>4, <1>5 DEF Transport
<1>6. ASSUME NEW o \in Call, \/ Operate(o) \/ RedriveRaises(o) \/ OperationsRestart(o)
                             \/ \E k \in Key, q \in Request : ReadDeadLetter(o, k, q)
      PROVE  faults.lease = 0 /\ faults.call = 0
  BY <1>1, <1>2, <1>6 DEF Operate, ClaimRedrive, PublishRedrive, MarkRedriven,
     FinishRedrive, RedriveRaises, OperationsRestart, ReadDeadLetter
<1> QED
  BY <1>1, <1>5, <1>6 DEF Next

\* A step of receiver r keeps the claims exclusive when it does for r, and
\* takes no other receiver's claim.
LEMMA OwnerUpdate ==
  ASSUME NEW r \in Receiver, Others(r),
         \A s \in Receiver \ {r} : Covered(poll[s])' /\ Apart(poll[r], poll[s])',
         \A s, x \in Receiver : s # x => Apart(poll[s], poll[x]),
         Covered(poll[r])'
  PROVE  OwnerInv'
<1>1. ASSUME NEW s \in Receiver, NEW x \in Receiver, s # x
      PROVE  Apart(poll[s], poll[x])'
  <2>1. CASE s # r /\ x # r
    BY <1>1, <2>1 DEF Others, Apart, Owner, KeyIn
  <2>2. CASE s = r
    BY <1>1, <2>2
  <2>3. CASE x = r
    BY <1>1, <2>3 DEF Apart
  <2> QED
    BY <2>1, <2>2, <2>3
<1> QED
  BY <1>1 DEF OwnerInv

LEMMA NextOwner == TypeInv /\ OwnerInv /\ [Next]_allVars => OwnerInv'
<1> SUFFICES ASSUME TypeInv, [Next]_allVars, faults'.lease = 0, faults'.call = 0,
                    \A r \in Receiver : Covered(poll[r]),
                    \A r, s \in Receiver : r # s => Apart(poll[r], poll[s])
             PROVE  OwnerInv'
  BY FaultsStay DEF OwnerInv
<1> USE DEF queues, work, vars, opsVars, allVars
<1>1. CASE UNCHANGED <<claim, expired, poll>>
  BY <1>1 DEF OwnerInv, Covered, Apart, Owner, KeyIn
<1>2. ASSUME NEW k \in Key, LeaseExpires(k)
      PROVE  OwnerInv'
  <2>1. CASE Fault("lease")
    BY <2>1 DEF Fault, TypeInv, TypeOK
  <2>2. CASE ~\E r \in Receiver : poll[r].at # None /\ KeyAt(r) = k
    <3>1. ASSUME NEW r \in Receiver
          PROVE  Covered(poll[r])'
      <4>1. CASE poll[r].step \in Resting
        BY <1>2, <4>1 DEF LeaseExpires, Covered, Owner, Resting
      <4>2. CASE poll[r].step \notin Resting
        <5>1. KeyIn(poll[r]) # k
          BY <2>2, <4>2, LoopFacts, SqsAssumption DEF Engaged, KeyIn, KeyAt, At
        <5> QED
          BY <1>2, <5>1 DEF LeaseExpires, Covered, Owner, KeyIn
      <4> QED
        BY <4>1, <4>2
    <3> QED
      BY <1>2, <3>1 DEF LeaseExpires, OwnerInv, Apart, Owner, KeyIn
  <2> QED
    BY <1>2, <2>1, <2>2 DEF LeaseExpires
<1>3. ASSUME NEW r \in Receiver, Others(r), UNCHANGED <<claim, expired>>,
             Covered(poll[r])', Owner(poll'[r]) => Owner(poll[r]) /\ poll'[r].at = poll[r].at
      PROVE  OwnerInv'
  <2>1. \A s \in Receiver \ {r} : Covered(poll[s])' /\ Apart(poll[r], poll[s])'
    BY <1>3 DEF Others, Covered, Apart, Owner, KeyIn
  <2> QED
    BY <1>3, <2>1, OwnerUpdate
<1>4. ASSUME NEW r \in Receiver, NEW t \in poll[r].todo, Claim(r, t)
      PROVE  OwnerInv'
  <2> DEFINE k == KeyOf(t.copy)
  <2>1. /\ Others(r) /\ KeyIn(poll'[r]) = k /\ k \in Key
        /\ expired \subseteq {d \in Key : claim[d] = "processing"}
        /\ claim \in [Key -> {"absent", "processing", "complete"}]
    BY <1>4, ClaimFacts DEF KeyIn, KeyAt, At, TypeInv, TypeOK
  <2>2. CASE /\ claim[k] = "absent" \/ k \in expired
             /\ claim' = [claim EXCEPT ![k] = "processing"]
             /\ poll'[r].step = "callback"
    <3>1. poll'[r].guard # "none" /\ expired' = expired \ {k}
      BY <1>4, <2>2 DEF Claim, TypeInv, TypeOK
    <3>2. Covered(poll[r])'
      BY <2>1, <2>2, <3>1 DEF Covered, Owner, KeyIn
    <3>3. ASSUME NEW s \in Receiver \ {r}
          PROVE  Covered(poll[s])' /\ Apart(poll[r], poll[s])'
      <4>1. Covered(poll[s]) /\ poll'[s] = poll[s]
        BY <2>1 DEF Others
      <4>2. Owner(poll[s]) => KeyIn(poll[s]) # k
        BY <2>1, <2>2, <4>1 DEF Covered
      <4>3. poll[s].step = "complete" /\ ~Owner(poll[s]) => KeyIn(poll[s]) # k
        BY <2>1, <2>2, <4>1 DEF Covered
      <4>4. Covered(poll[s])'
        BY <2>1, <2>2, <3>1, <4>1, <4>2, <4>3 DEF Covered, Owner, KeyIn
      <4> QED
        BY <2>1, <4>1, <4>2, <4>4 DEF Apart, Owner, KeyIn
    <3> QED
      BY <2>1, <3>2, <3>3, OwnerUpdate
  <2>3. CASE /\ UNCHANGED claim /\ expired' = expired \ {k}
             /\ \/ poll'[r].step = "busy"
                \/ /\ poll'[r].step = "complete" /\ poll'[r].guard = "none"
                   /\ claim[k] = "complete"
    <3>1. Covered(poll[r])' /\ ~Owner(poll'[r])
      BY <2>1, <2>3 DEF Covered, Owner, KeyIn
    <3>2. \A s \in Receiver \ {r} : Covered(poll[s])' /\ Apart(poll[r], poll[s])'
      BY <2>1, <2>3, <3>1 DEF Others, Covered, Apart, Owner, KeyIn
    <3> QED
      BY <2>1, <3>1, <3>2, OwnerUpdate
  <2> QED
    BY <1>4, <2>2, <2>3, ClaimFacts
<1>5. ASSUME NEW r \in Receiver, ExtendBusy(r) \/ Delete(r) \/ MakeVisible(r)
      PROVE  OwnerInv'
  <2>1. poll'[r].step \in Resting /\ Others(r) /\ UNCHANGED <<claim, expired>>
    BY <1>5, ContinueFacts DEF ExtendBusy, Delete, MakeVisible
  <2> QED
    BY <1>3, <2>1 DEF Resting, Covered, Owner
<1>6. ASSUME NEW r \in Receiver, Receive(r) \/ Restart(r)
      PROVE  OwnerInv'
  <2>1. poll'[r].step \in Resting /\ Others(r) /\ UNCHANGED <<claim, expired>>
    <3>1. CASE Receive(r)
      BY <3>1, ReceiveFacts DEF Receive, Resting
    <3>2. CASE Restart(r)
      BY <3>2 DEF Restart, Others, Idle, Resting, TypeInv, TypeOK
    <3> QED
      BY <1>6, <3>1, <3>2
  <2> QED
    BY <1>3, <2>1 DEF Resting, Covered, Owner
<1>7. ASSUME NEW r \in Receiver, RunCallback(r) \/ HeartbeatFails(r) \/ PutDeadLetter(r)
      PROVE  OwnerInv'
  <2>1. UNCHANGED <<claim, expired>>
    BY <1>7 DEF RunCallback, HeartbeatFails, PutDeadLetter
  <2>2. CASE HeartbeatFails(r)
    <3>1. /\ Others(r) /\ poll'[r].step = poll[r].step
          /\ poll'[r].at = poll[r].at /\ poll'[r].guard = poll[r].guard
      BY <2>2 DEF HeartbeatFails, Others, TypeInv, TypeOK
    <3> QED
      BY <1>3, <2>1, <3>1 DEF Covered, Owner, KeyIn
  <2>3. CASE RunCallback(r) \/ PutDeadLetter(r)
    <3>1. Owner(poll[r]) /\ Covered(poll[r])
      BY <2>3 DEF RunCallback, PutDeadLetter, Owner
    <3>2. /\ Others(r) /\ poll'[r].at = poll[r].at
          /\ \/ poll'[r].step \in {"quarantine", "release", "term"}
             \/ poll'[r].step = "complete" /\ poll'[r].guard # "none"
      <4>1. CASE RunCallback(r)
        BY <3>1, <4>1, GotoFacts, RetryFacts DEF RunCallback, Covered, PollStep
      <4>2. CASE PutDeadLetter(r)
        BY <4>2, GotoFacts DEF PutDeadLetter, PollStep
      <4> QED
        BY <2>3, <4>1, <4>2
    <3> QED
      BY <1>3, <2>1, <3>1, <3>2 DEF Covered, Owner, KeyIn
  <2> QED
    BY <1>7, <2>2, <2>3
<1>8. ASSUME NEW r \in Receiver, Complete(r)
      PROVE  OwnerInv'
  <2> DEFINE k == KeyAt(r)
  <2>1. /\ poll'[r].step = "delete" /\ Others(r)
        /\ k \in Key /\ KeyIn(poll[r]) = k
        /\ claim' = [claim EXCEPT ![k] = "complete"] /\ expired' \subseteq expired
        /\ claim \in [Key -> {"absent", "processing", "complete"}]
    BY <1>8, GotoFacts, LoopFacts
    DEF Complete, PollStep, Resting, KeyIn, KeyAt, At, TypeInv, TypeOK
  <2>2. ASSUME NEW s \in Receiver \ {r}
        PROVE  Covered(poll[s])' /\ Apart(poll[r], poll[s])'
    <3>1. Covered(poll[s]) /\ poll'[s] = poll[s]
      BY <2>1 DEF Others
    <3>2. Owner(poll[s]) => KeyIn(poll[s]) # k
      BY <1>8, <2>1, <3>1 DEF Complete, Covered, Apart
    <3>3. KeyIn(poll[s]) = k => claim'[KeyIn(poll[s])] = "complete"
      BY <2>1
    <3>4. KeyIn(poll[s]) # k => claim'[KeyIn(poll[s])] = claim[KeyIn(poll[s])]
      BY <2>1
    <3>5. Covered(poll[s])'
      BY <2>1, <3>1, <3>2, <3>3, <3>4 DEF Covered, Owner, KeyIn
    <3> QED
      BY <2>1, <3>5 DEF Apart, Owner
  <2>3. Covered(poll[r])'
    BY <2>1 DEF Covered, Owner
  <2> QED
    BY <2>1, <2>2, <2>3, OwnerUpdate
<1>9. ASSUME NEW r \in Receiver, Release(r)
      PROVE  OwnerInv'
  <2> DEFINE k == KeyAt(r)
  <2>1. /\ k \in Key /\ KeyIn(poll[r]) = k /\ Owner(poll[r])
        /\ claim[k] = "processing"
    BY <1>9, LoopFacts DEF Release, Resting, KeyIn, KeyAt, At, Owner, Covered
  <2>2. /\ poll'[r].step \in {"term_delete", "extend"} /\ Others(r)
        /\ claim' = [claim EXCEPT ![k] = "absent"] /\ expired' \subseteq expired
        /\ claim \in [Key -> {"absent", "processing", "complete"}]
    BY <1>9, <2>1, GotoFacts DEF Release, PollStep, TypeInv, TypeOK
  <2>3. ASSUME NEW s \in Receiver \ {r}
        PROVE  Covered(poll[s])' /\ Apart(poll[r], poll[s])'
    <3>1. Covered(poll[s]) /\ poll'[s] = poll[s]
      BY <2>2 DEF Others
    <3>2. Owner(poll[s]) => KeyIn(poll[s]) # k
      BY <2>1 DEF Apart
    <3>3. poll[s].step = "complete" /\ ~Owner(poll[s]) => KeyIn(poll[s]) # k
      BY <2>1, <3>1 DEF Covered
    <3>4. KeyIn(poll[s]) # k => claim'[KeyIn(poll[s])] = claim[KeyIn(poll[s])]
      BY <2>2
    <3>5. Covered(poll[s])'
      BY <2>2, <3>1, <3>2, <3>3, <3>4 DEF Covered, Owner, KeyIn
    <3> QED
      BY <2>2, <3>5 DEF Apart, Owner
  <2>4. Covered(poll[r])'
    BY <2>2 DEF Covered, Owner
  <2> QED
    BY <2>2, <2>3, <2>4, OwnerUpdate
<1>10. ASSUME NEW r \in Receiver, CallRaises(r)
       PROVE  OwnerInv'
  BY <1>10 DEF CallRaises, Fault, TypeInv, TypeOK
<1>11. CASE Publisher \/ Timers \/ \E e \in Event, c \in Consumer : PublishRaises(e, c)
  BY <1>1, <1>2, <1>11 DEF Publisher, Timers, PublishRaises, StartPublish, SendTo,
     MoveToNativeQueue, VisibilityExpires
<1>12. CASE Transport
  BY <1>4, <1>5, <1>6, <1>7, <1>8, <1>9, <1>10, <1>11, <1>12 DEF Transport, Poll
<1>13. ASSUME NEW o \in Call, \/ Operate(o) \/ RedriveRaises(o) \/ OperationsRestart(o)
                              \/ \E k \in Key, q \in Request : ReadDeadLetter(o, k, q)
       PROVE  OwnerInv'
  BY <1>1, <1>13 DEF Operate, ClaimRedrive, PublishRedrive, MarkRedriven,
     FinishRedrive, RedriveRaises, OperationsRestart, ReadDeadLetter
<1> QED
  BY <1>1, <1>12, <1>13 DEF Next

\* Two receivers run the callback of one event at once only after a lease ran
\* out under one of them or a call of its settlement raised (event_bus.py,
\* SqsEventBus._poll over the claims of its idempotency table).
THEOREM OneRun == Spec => []OneRunAtATime
<1>1. OwnerInv => OneRunAtATime
  <2> SUFFICES ASSUME OwnerInv, faults.lease = 0, faults.call = 0, NEW k \in Key
               PROVE  Cardinality(Running(k)) <= 1
    BY DEF OneRunAtATime
  <2>1. \A r, s \in Running(k) : r = s
    BY DEF OwnerInv, Apart, Owner, Running, KeyAt, At, KeyIn
  <2> QED
    BY <2>1, AtMostOne
<1> QED
  BY <1>1, InitType, NextType, InitOwner, NextOwner, PTL DEF Spec
=============================================================================
