----------------------- MODULE FlightSearchAction_proofs -----------------------
(***************************************************************************)
(* Theorems about FlightSearchAction for every set of decisions, messages,  *)
(* answers and replicas and every bound.                                    *)
(***************************************************************************)
EXTENDS FlightSearchAction, FiniteSetTheorems, WellFoundedInduction, TLAPS

-----------------------------------------------------------------------------
(* Type correctness, with what a callback may rely on: the message it holds *)
(* carries a decision once decoded, and one to search for once the verdict  *)
(* has been looked at.                                                      *)

\* The steps behind the check of the verdict.
Checked == {"lookup", "verify", "context", "search", "put"}

Holding(p) ==
    /\ p.step # "idle" => p.message \in Message
    /\ p.step \in Checked \cup {"decoded", "ack"}
          => Body[p.message] \in DecisionId
    /\ p.step \in Checked => Body[p.message] \in Searches

CallInv == \A r \in Replica : Holding(call[r])

CallType == call \in [Replica -> Call] /\ CallInv

\* The rest of TypeOK; and what keeps the delivery counts in range: a message
\* the broker may still deliver has deliveries left.
StoreType ==
    /\ approved \subseteq Searches /\ context \subseteq Searches
    /\ record \in [DecisionId -> Outcomes \cup {NoRecord, Failed}]
    /\ overlapped \subseteq DecisionId \cup {Unreadable}
    /\ message \in [Message -> MessageState]
    /\ deliveries \in [Message -> 0 .. MaxDeliveries]
    /\ deadLetters \subseteq DecisionId \cup {Unreadable}
    /\ faults \in 0 .. MaxFaults
    /\ \A m \in Message : message[m] \in {"unpublished", "available"}
                            => deliveries[m] < MaxDeliveries

LEMMA IdleType == Idle \in Call /\ Holding(Idle)
<1>1. Idle \in Call
  BY SearchAssumption DEF Idle, Call, Step
<1>2. Holding(Idle)
  BY DEF Idle, Holding, Checked
<1> QED
  BY <1>1, <1>2

\* A callback that replaces its locals by well-formed ones.
LEMMA CallUpdate ==
  ASSUME CallType, NEW r \in Replica, NEW p \in Call, Holding(p),
         call' = [call EXCEPT ![r] = p]
  PROVE  CallType'
<1>1. call' \in [Replica -> Call]
  BY DEF CallType
<1>2. ASSUME NEW q \in Replica PROVE Holding(call'[q])
  <2>1. CASE q = r
    BY <2>1 DEF CallType
  <2>2. CASE q # r
    BY <2>2 DEF CallType, CallInv
  <2> QED
    BY <2>1, <2>2
<1> QED
  BY <1>1, <1>2 DEF CallType, CallInv, Holding

LEMMA ReturnType ==
  ASSUME CallType, NEW r \in Replica, Return(r)
  PROVE  CallType'
BY IdleType, CallUpdate DEF Return

\* What a callback holds, by the step it is at.
LEMMA CallFacts ==
  ASSUME CallType, NEW r \in Replica, call[r].step # "idle"
  PROVE  /\ call[r] \in Call
         /\ call[r].message \in Message
         /\ Subject(r) = Body[call[r].message]
         /\ Subject(r) \in DecisionId \cup {Unreadable}
         /\ call[r].step \in Checked \cup {"decoded", "ack"}
               => Subject(r) \in DecisionId
         /\ call[r].step \in Checked => Subject(r) \in Searches
BY SearchAssumption DEF CallType, CallInv, Holding, Subject

\* A callback that moves on, keeping its message, needs what the next step
\* relies on.
LEMMA MoveType ==
  ASSUME CallType, NEW r \in Replica, call[r].step # "idle", NEW p \in Call,
         call' = [call EXCEPT ![r] = p], p.message = call[r].message,
         p.step \in Checked \cup {"decoded", "ack"} => Subject(r) \in DecisionId,
         p.step \in Checked => Subject(r) \in Searches
  PROVE  CallType'
<1>1. Holding(p)
  BY CallFacts DEF Holding
<1> QED
  BY <1>1, CallUpdate

LEMMA GotoType ==
  ASSUME CallType, NEW r \in Replica, NEW s \in Step, Goto(r, s),
         call[r].step # "idle",
         s \in Checked \cup {"decoded", "ack"} => Subject(r) \in DecisionId,
         s \in Checked => Subject(r) \in Searches
  PROVE  CallType'
<1> DEFINE p == [call[r] EXCEPT !.step = s]
<1>1. p \in Call /\ p.step = s /\ p.message = call[r].message
  BY CallFacts DEF Call
<1>2. call' = [call EXCEPT ![r] = p]
  BY DEF Goto
<1> HIDE DEF p
<1> QED
  BY <1>1, <1>2, MoveType

\* Settlement in the try block, which sets the callback's guard.
LEMMA SettleType ==
  ASSUME CallType, NEW r \in Replica, Settle(r, "ack") \/ Settle(r, "failed")
                                       \/ Settle(r, "quarantine"),
         call[r].step \in Checked
  PROVE  CallType'
<1>1. PICK s \in {"ack", "failed", "quarantine"} : Settle(r, s)
  OBVIOUS
<1> DEFINE g == s # "ack"
           d == [call[r] EXCEPT !.step = s]
           p == [d EXCEPT !.guarded = g]
<1>2. call[r] \in Call /\ call[r].step # "idle" /\ Subject(r) \in DecisionId
  BY CallFacts DEF Checked
<1>3. d \in Call /\ d.step = s /\ d.message = call[r].message
  BY <1>2 DEF Call, Step
<1>4. g \in BOOLEAN
  OBVIOUS
<1>5. call' = [call EXCEPT ![r] = p]
  BY <1>1 DEF Settle
<1> HIDE DEF d, g
<1>6. p \in Call /\ p.step = s /\ p.message = call[r].message
  BY <1>3, <1>4 DEF Call
<1> HIDE DEF p
<1> QED
  BY <1>1, <1>2, <1>5, <1>6, MoveType DEF Checked

\* The outcome a callback carries to put_search.
LEMMA HoldType ==
  ASSUME CallType, NEW r \in Replica,
         NEW result \in Outcomes \cup {NoRecord, Failed}, Hold(r, result),
         call[r].step \in Checked
  PROVE  CallType'
<1> DEFINE d == [call[r] EXCEPT !.step = "put"]
           p == [d EXCEPT !.result = result]
<1>2. /\ call[r] \in Call /\ call[r].step # "idle" /\ Subject(r) \in DecisionId
      /\ Subject(r) \in Searches
  BY CallFacts DEF Checked
<1>3. d \in Call /\ d.step = "put" /\ d.message = call[r].message
  BY <1>2 DEF Call, Step
<1>5. call' = [call EXCEPT ![r] = p]
  BY DEF Hold
<1> HIDE DEF d
<1>6. p \in Call /\ p.step = "put" /\ p.message = call[r].message
  BY <1>3 DEF Call
<1> HIDE DEF p
<1> QED
  BY <1>2, <1>5, <1>6, MoveType

\* The locals a callback starts with.
LEMMA ReceivedCall ==
  ASSUME StoreType, NEW r \in Replica, NEW m \in Message, Receive(r, m)
  PROVE  \E p \in Call :
            /\ call' = [call EXCEPT ![r] = p]
            /\ p.step \in {"decoded", "quarantine"} /\ p.message = m
            /\ p.step = "quarantine" => Body[m] = Unreadable
            /\ Holding(p)
<1> DEFINE s == IF Body[m] = Unreadable THEN "quarantine" ELSE "decoded"
           p == [Idle EXCEPT !.step = s, !.message = m,
                             !.attempt = deliveries[m] + 1]
<1>1. s \in Step /\ s \in {"decoded", "quarantine"}
  BY DEF Step
<1>2. /\ s = "decoded" => Body[m] \in DecisionId
      /\ s = "quarantine" => Body[m] = Unreadable
  BY SearchAssumption
<1>3. deliveries[m] + 1 \in 0 .. MaxDeliveries
  BY SearchAssumption DEF Receive, StoreType
<1>4. call' = [call EXCEPT ![r] = p]
  BY DEF Receive
<1> HIDE DEF s
<1>5. p \in Call /\ p.step = s /\ p.message = m
  BY <1>1, <1>3, IdleType DEF Call
<1> HIDE DEF p
<1>6. Holding(p)
  BY <1>1, <1>2, <1>5 DEF Holding, Checked
<1> QED
  BY <1>1, <1>2, <1>4, <1>5, <1>6

LEMMA FaultType ==
  ASSUME faults \in 0 .. MaxFaults, Fault
  PROVE  faults' \in 0 .. MaxFaults
BY SearchAssumption DEF Fault

LEMMA InitType == Init => StoreType /\ CallType
<1> SUFFICES ASSUME Init PROVE StoreType /\ CallType
  OBVIOUS
<1>1. StoreType
  BY SearchAssumption DEF Init, StoreType, MessageState
<1>2. CallType
  BY IdleType DEF Init, CallType, CallInv
<1> QED
  BY <1>1, <1>2

\* A step of the handler that leaves the stores and the broker alone, but for
\* the faults it may cost.
LEMMA OnlyCallType ==
  ASSUME StoreType, UNCHANGED <<storage, transport>>,
         overlapped' \subseteq DecisionId \cup {Unreadable},
         UNCHANGED faults \/ Fault
  PROVE  StoreType'
BY FaultType DEF StoreType, storage, transport

LEMMA NextType ==
  StoreType /\ CallType /\ [Next]_vars => StoreType' /\ CallType'
<1> SUFFICES ASSUME StoreType, CallType, [Next]_vars
             PROVE  StoreType' /\ CallType'
  OBVIOUS
<1> USE SearchAssumption
<1>0. overlapped \subseteq DecisionId \cup {Unreadable}
  BY DEF StoreType
<1>1. ASSUME NEW m \in Message, PublishConfirmed(m)
      PROVE  StoreType' /\ CallType'
  <2>1. StoreType'
    BY <1>1 DEF PublishConfirmed, Offer, StoreType, MessageState, storage
  <2>2. CallType'
    BY <1>1 DEF PublishConfirmed, Offer, CallType, CallInv, Holding
  <2> QED
    BY <2>1, <2>2
<1>2. ASSUME NEW m \in Message, LateAck(m)
      PROVE  StoreType' /\ CallType'
  <2>1. StoreType'
    BY <1>2, FaultType DEF LateAck, AckWaitExpires, Requeued, StoreType,
       MessageState, storage
  <2>2. CallType'
    BY <1>2 DEF LateAck, AckWaitExpires, CallType, CallInv, Holding
  <2> QED
    BY <2>1, <2>2
<1>3. ASSUME NEW d \in Searches, Revoke(d)
      PROVE  StoreType' /\ CallType'
  <2>1. StoreType'
    BY <1>3, FaultType DEF Revoke, StoreType, transport
  <2>2. CallType'
    BY <1>3 DEF Revoke, CallType, CallInv, Holding
  <2> QED
    BY <2>1, <2>2
<1>4. ASSUME NEW r \in Replica, NEW m \in Message, Receive(r, m),
             UNCHANGED <<storage, overlapped>>
      PROVE  StoreType' /\ CallType'
  <2>1. StoreType'
    BY <1>4 DEF Receive, StoreType, MessageState, storage
  <2>2. CallType'
    BY <1>4, ReceivedCall, CallUpdate
  <2> QED
    BY <2>1, <2>2
<1>5. ASSUME NEW r \in Replica, Ack(r), UNCHANGED <<storage, overlapped>>
      PROVE  StoreType' /\ CallType'
  <2>1. StoreType'
    BY <1>5, CallFacts, FaultType DEF Ack, Settled, StoreType, MessageState,
       storage
  <2>2. CallType'
    BY <1>5, CallFacts, GotoType, ReturnType DEF Ack, Step, Checked
  <2> QED
    BY <2>1, <2>2
<1>6. ASSUME NEW r \in Replica, RetryOrQuarantine(r),
             UNCHANGED <<storage, overlapped>>
      PROVE  StoreType' /\ CallType'
  <2>1. StoreType'
    BY <1>6, CallFacts DEF RetryOrQuarantine, Nak, Requeued, StoreType,
       MessageState, storage
  <2>2. CallType'
    BY <1>6, CallFacts, GotoType, ReturnType DEF RetryOrQuarantine, Step,
       Checked
  <2> QED
    BY <2>1, <2>2
<1>7. ASSUME NEW r \in Replica, PutDeadLetter(r),
             UNCHANGED <<storage, overlapped>>
      PROVE  StoreType' /\ CallType'
  <2>1. StoreType'
    BY <1>7, CallFacts DEF PutDeadLetter, StoreType, storage
  <2>2. CallType'
    BY <1>7, CallFacts, GotoType DEF PutDeadLetter, Step, Checked
  <2> QED
    BY <2>1, <2>2
<1>8. ASSUME NEW r \in Replica, Term(r), UNCHANGED <<storage, overlapped>>
      PROVE  StoreType' /\ CallType'
  <2>1. StoreType'
    BY <1>8, CallFacts DEF Term, Settled, StoreType, MessageState, storage
  <2>2. CallType'
    BY <1>8, ReturnType DEF Term
  <2> QED
    BY <2>1, <2>2
<1>9. ASSUME NEW r \in Replica, ErrorPathRaises(r) \/ Crash(r),
             UNCHANGED <<storage, overlapped>>
      PROVE  StoreType' /\ CallType'
  BY <1>0, <1>9, OnlyCallType, ReturnType
     DEF ErrorPathRaises, Crash, transport, storage
<1>10. ASSUME NEW r \in Replica, GuardedSettlementRaises(r),
              UNCHANGED <<storage, overlapped>>
       PROVE  StoreType' /\ CallType'
  <2>1. StoreType'
    BY <1>0, <1>10, OnlyCallType
       DEF GuardedSettlementRaises, transport, storage
  <2>2. call[r].step # "idle" /\ call[r] \in Call
    BY <1>10, CallFacts DEF GuardedSettlementRaises
  <2> DEFINE d == [call[r] EXCEPT !.step = "failed"]
             p == [d EXCEPT !.guarded = FALSE]
  <2>3. d \in Call /\ d.step = "failed" /\ d.message = call[r].message
    BY <2>2 DEF Call, Step
  <2>4. call' = [call EXCEPT ![r] = p]
    BY <1>10 DEF GuardedSettlementRaises
  <2> HIDE DEF d
  <2>5. p \in Call /\ p.step = "failed" /\ p.message = call[r].message
    BY <2>3 DEF Call
  <2> HIDE DEF p
  <2>6. CallType'
    BY <2>2, <2>4, <2>5, MoveType DEF Checked
  <2> QED
    BY <2>1, <2>6
<1>11. ASSUME NEW r \in Replica, StepRaises(r)
       PROVE  StoreType' /\ CallType'
  <2>1. StoreType'
    BY <1>0, <1>11, OnlyCallType DEF StepRaises, Raises, transport, storage
  <2>2. CallType'
    BY <1>11, GotoType DEF StepRaises, Raises, Step, Checked
  <2> QED
    BY <2>1, <2>2
<1>12. ASSUME NEW r \in Replica, CheckVerdict(r)
       PROVE  StoreType' /\ CallType'
  <2>1. Subject(r) \in DecisionId /\ call[r].step # "idle"
    BY <1>12, CallFacts DEF CheckVerdict
  <2>2. overlapped' \subseteq DecisionId \cup {Unreadable}
    BY <1>0, <1>12, <2>1 DEF CheckVerdict
  <2>3. StoreType'
    BY <1>12, <2>2, OnlyCallType DEF CheckVerdict, transport, storage
  <2>4. CallType'
    BY <1>12, <2>1, GotoType DEF CheckVerdict, Step, Checked
  <2> QED
    BY <2>3, <2>4
<1>13. ASSUME NEW r \in Replica, LookUpRecord(r)
       PROVE  StoreType' /\ CallType'
  <2>1. /\ Subject(r) \in Searches /\ Subject(r) \in DecisionId
        /\ call[r].step # "idle"
    BY <1>13, CallFacts DEF LookUpRecord, Checked
  <2>2. StoreType'
    BY <1>0, <1>13, OnlyCallType DEF LookUpRecord, transport, storage
  <2>3. CallType'
    BY <1>13, <2>1, GotoType DEF LookUpRecord, Step, Checked
  <2> QED
    BY <2>2, <2>3
<1>14. ASSUME NEW r \in Replica, VerifyDecision(r)
       PROVE  StoreType' /\ CallType'
  <2>1. /\ Subject(r) \in Searches /\ Subject(r) \in DecisionId
        /\ call[r].step # "idle"
    BY <1>14, CallFacts DEF VerifyDecision, Checked
  <2>2. StoreType'
    BY <1>0, <1>14, OnlyCallType DEF VerifyDecision, transport, storage
  <2>3. CASE Subject(r) \in approved
    BY <1>14, <2>1, <2>2, <2>3, GotoType DEF VerifyDecision, Step, Checked
  <2>4. CASE Subject(r) \notin approved
    BY <1>14, <2>2, <2>4, SettleType DEF VerifyDecision, Checked
  <2> QED
    BY <2>2, <2>3, <2>4
<1>15. ASSUME NEW r \in Replica, ReadContext(r)
       PROVE  StoreType' /\ CallType'
  <2>1. /\ Subject(r) \in Searches /\ Subject(r) \in DecisionId
        /\ call[r].step # "idle"
    BY <1>15, CallFacts DEF ReadContext, Checked
  <2>2. StoreType'
    BY <1>0, <1>15, OnlyCallType DEF ReadContext, transport, storage
  <2>3. CASE Subject(r) \in context
    BY <1>15, <2>1, <2>2, <2>3, GotoType DEF ReadContext, Step, Checked
  <2>4. CASE Subject(r) \notin context
    BY <1>15, <2>2, <2>4, HoldType DEF ReadContext, Checked
  <2> QED
    BY <2>2, <2>3, <2>4
<1>16. ASSUME NEW r \in Replica, Search(r)
       PROVE  StoreType' /\ CallType'
  <2>1. StoreType'
    BY <1>0, <1>16, OnlyCallType DEF Search, transport, storage
  <2>2. CallType'
    BY <1>16, HoldType DEF Search, Checked
  <2> QED
    BY <2>1, <2>2
<1>17. ASSUME NEW r \in Replica, PutSearch(r)
       PROVE  StoreType' /\ CallType'
  <2>1. /\ Subject(r) \in Searches /\ Subject(r) \in DecisionId
        /\ call[r].step # "idle"
        /\ call[r].result \in Outcomes \cup {NoRecord, Failed}
    BY <1>17, CallFacts DEF PutSearch, Checked, Call
  <2>2. StoreType'
    BY <1>17, <2>1, FaultType DEF PutSearch, StoreType, transport
  <2>3. Settle(r, "ack") \/ Settle(r, "failed") \/ Goto(r, "failed")
    BY <1>17 DEF PutSearch
  <2>4. CASE Goto(r, "failed")
    BY <2>1, <2>2, <2>4, GotoType DEF Step, Checked
  <2>5. CASE Settle(r, "ack") \/ Settle(r, "failed")
    BY <1>17, <2>2, <2>5, SettleType DEF PutSearch, Checked
  <2> QED
    BY <2>2, <2>3, <2>4, <2>5
<1>18. ASSUME UNCHANGED vars
       PROVE  StoreType' /\ CallType'
  BY <1>18 DEF StoreType, CallType, CallInv, Holding, vars, storage, transport
<1> QED
  BY <1>1, <1>2, <1>3, <1>4, <1>5, <1>6, <1>7, <1>8, <1>9, <1>10, <1>11,
     <1>12, <1>13, <1>14, <1>15, <1>16, <1>17, <1>18
     DEF Next, Handle, Deliver, Consume, Crash

\* Every variable of the search service stays in its type, for every set of
\* decisions, messages, answers and replicas; with it, that a callback looks a
\* search up, verifies and stores it only for a decision to search.
THEOREM SearchTypeCorrect == Spec => []TypeOK
<1>1. StoreType /\ CallType => TypeOK
  BY DEF StoreType, CallType, TypeOK
<1> QED
  BY <1>1, InitType, NextType, PTL DEF Spec
-----------------------------------------------------------------------------
(* What a step can do to one callback, to the records, to the dead letters  *)
(* and to the history.                                                      *)

\* Only a replica's own step changes its callback.
LEMMA OwnCall ==
  ASSUME CallType, [Next]_vars, NEW r \in Replica, call'[r] # call[r]
  PROVE  /\ Handle(r) \/ Crash(r)
         /\ \A q \in Replica \ {r} : call'[q] = call[q]
<1>1. ASSUME NEW q \in Replica, Handle(q) \/ Crash(q), NEW s \in Replica \ {q}
      PROVE  call'[s] = call[s]
  BY <1>1 DEF Handle, Deliver, Consume, Receive, Ack, RetryOrQuarantine,
     PutDeadLetter, Term, ErrorPathRaises, GuardedSettlementRaises, StepRaises,
     Raises, CheckVerdict, LookUpRecord, VerifyDecision, ReadContext, Search,
     PutSearch, Crash, Return, Goto, Settle, Hold, CallType
<1>2. \E q \in Replica : Handle(q) \/ Crash(q)
  BY DEF Next, PublishConfirmed, Offer, LateAck, AckWaitExpires, Revoke, vars
<1> QED
  BY <1>1, <1>2

\* A record changes only where put_search writes it.
LEMMA RecordChange ==
  ASSUME StoreType, CallType, [Next]_vars, NEW d \in DecisionId,
         record'[d] # record[d]
  PROVE  \E r \in Replica : /\ PutSearch(r) /\ Subject(r) = d
                            /\ call[r].step = "put"
<1>1. PICK r \in Replica : PutSearch(r)
  BY DEF Next, Handle, Deliver, StepRaises, CheckVerdict, LookUpRecord,
     VerifyDecision, ReadContext, Search, Crash, PublishConfirmed, LateAck,
     Revoke, vars, storage
<1>2. Subject(r) \in DecisionId
  BY <1>1, CallFacts DEF PutSearch, Checked
<1> QED
  BY <1>1, <1>2 DEF PutSearch, StoreType

\* An overlap, once noticed, stays on record.
LEMMA OverlapsLast ==
  ASSUME [Next]_vars
  PROVE  overlapped \subseteq overlapped'
BY DEF Next, Handle, Deliver, StepRaises, CheckVerdict, LookUpRecord,
   VerifyDecision, ReadContext, Search, PutSearch, Crash, PublishConfirmed,
   LateAck, Revoke, vars

\* The steps behind the check of the verdict are entered by that check, those
\* behind the look-up by a look-up that finds no result.
LEMMA NewStep ==
  ASSUME StoreType, CallType, [Next]_vars, NEW r \in Replica,
         call'[r] # call[r], call'[r].step \in Checked
  PROVE  /\ Subject(r)' = Subject(r)
         /\ \/ call'[r].step = "lookup" /\ CheckVerdict(r)
            \/ /\ call'[r].step # "lookup" /\ call[r].step = "lookup"
               /\ record[Subject(r)].status \notin Done /\ record' = record
            \/ /\ call'[r].step # "lookup"
               /\ call[r].step \in Checked \ {"lookup"}
<1>1. Handle(r)
  <2>1. ~Crash(r)
    BY DEF Crash, Return, Idle, Checked, CallType
  <2> QED
    BY <2>1, OwnCall
<1>2. ~Deliver(r)
  <2>1. ASSUME NEW m \in Message, Receive(r, m), UNCHANGED <<storage, overlapped>>
        PROVE  FALSE
    BY <2>1, ReceivedCall DEF CallType, Checked
  <2>2. ~Ack(r) /\ ~RetryOrQuarantine(r)
    BY DEF Ack, RetryOrQuarantine, Return, Goto, Idle, Checked, CallType, Call
  <2>3. ~PutDeadLetter(r) /\ ~Term(r)
    BY DEF PutDeadLetter, Term, Return, Goto, Idle, Checked, CallType, Call
  <2>4. ~ErrorPathRaises(r) /\ ~GuardedSettlementRaises(r)
    BY DEF ErrorPathRaises, GuardedSettlementRaises, Return, Idle, Checked,
       CallType, Call
  <2> QED
    BY <2>1, <2>2, <2>3, <2>4 DEF Deliver, Consume
<1>3. ~StepRaises(r)
  BY DEF StepRaises, Raises, Goto, Checked, CallType, Call
<1>4. CASE CheckVerdict(r)
  BY <1>4 DEF CheckVerdict, Goto, CallType, Call, Checked, Subject
<1>5. CASE LookUpRecord(r)
  BY <1>5 DEF LookUpRecord, Goto, CallType, Call, Checked, Subject, storage
<1>6. CASE VerifyDecision(r)
  BY <1>6 DEF VerifyDecision, Goto, Settle, CallType, Call, Checked, Subject
<1>7. CASE ReadContext(r)
  BY <1>7 DEF ReadContext, Goto, Hold, CallType, Call, Checked, Subject
<1>8. CASE Search(r)
  BY <1>8 DEF Search, Hold, CallType, Call, Checked, Subject
<1>9. CASE PutSearch(r)
  BY <1>9 DEF PutSearch, Goto, Settle, CallType, Call, Checked, Subject
<1> QED
  BY <1>1, <1>2, <1>3, <1>4, <1>5, <1>6, <1>7, <1>8, <1>9 DEF Handle

-----------------------------------------------------------------------------
(* A decision to notify only leaves no trace.  The strengthening is where    *)
(* its callbacks may be as long as no call has failed: before the check of   *)
(* the verdict, or at the acknowledgement, never on a way to quarantine.     *)

Untroubled ==
    faults = 0 =>
        /\ \A d \in DecisionId \ Searches : d \notin deadLetters
        /\ \A r \in Replica : call[r].step \notin {"idle", "decoded", "ack"}
                                => Subject(r) \notin DecisionId \ Searches

Unrecorded == \A d \in DecisionId \ Searches : record[d] = NoRecord

NotifyInv == Untroubled /\ Unrecorded

\* Past decoding a callback that fails no call is one of a decision to search
\* for, of an unreadable message, or at its end.
LEMMA NextUntroubled ==
  ASSUME StoreType, CallType, [Next]_vars, Untroubled
  PROVE  Untroubled'
<1> DEFINE Other == DecisionId \ Searches
<1> SUFFICES ASSUME faults' = 0
             PROVE  /\ \A d \in Other : d \notin deadLetters'
                    /\ \A r \in Replica :
                          call'[r].step \notin {"idle", "decoded", "ack"}
                             => Subject(r)' \notin Other
  BY DEF Untroubled, Subject
<1>1. faults = 0 /\ ~Fault
  <2>1. faults \in Nat /\ (Fault => faults' = faults + 1)
    BY DEF StoreType, Fault
  <2>2. faults' = faults \/ Fault
    BY DEF Next, Handle, Deliver, Consume, Receive, Ack, RetryOrQuarantine,
       PutDeadLetter, Term, ErrorPathRaises, GuardedSettlementRaises,
       StepRaises, Raises, CheckVerdict, LookUpRecord, VerifyDecision,
       ReadContext, Search, PutSearch, Crash, PublishConfirmed, Offer, LateAck,
       AckWaitExpires, Revoke, vars
  <2> QED
    BY <2>1, <2>2
<1>2. /\ \A d \in Other : d \notin deadLetters
      /\ \A r \in Replica : call[r].step \notin {"idle", "decoded", "ack"}
                              => Subject(r) \notin Other
  BY <1>1 DEF Untroubled
<1>3. ASSUME NEW d \in Other
      PROVE  d \notin deadLetters'
  <2>1. deadLetters' = deadLetters
        \/ \E r \in Replica : PutDeadLetter(r)
    BY DEF Next, Handle, Deliver, Consume, Receive, Ack, RetryOrQuarantine,
       Term, ErrorPathRaises, GuardedSettlementRaises, StepRaises, Raises,
       CheckVerdict, LookUpRecord, VerifyDecision, ReadContext, Search,
       PutSearch, Crash, PublishConfirmed, Offer, LateAck, AckWaitExpires,
       Revoke, vars, transport
  <2> QED
    BY <1>2, <1>3, <2>1 DEF PutDeadLetter
<1>4. ASSUME NEW r \in Replica,
             call'[r].step \notin {"idle", "decoded", "ack"}
      PROVE  Subject(r)' \notin Other
  <2>1. CASE call'[r] = call[r]
    BY <1>2, <1>4, <2>1 DEF Subject
  <2>2. CASE call'[r] # call[r] /\ call'[r].step \in Checked
    <3>1. call[r].step \in Checked \/ CheckVerdict(r)
      BY <2>2, NewStep DEF Checked
    <3>2. Subject(r) \in Searches
      BY <2>2, <3>1, CallFacts
         DEF CheckVerdict, Goto, CallType, Call, Checked
    <3> QED
      BY <2>2, <3>2, NewStep
  <2>3. CASE call'[r] # call[r] /\ call'[r].step \notin Checked
    <3>1. Handle(r) /\ ~Crash(r)
      BY <1>1, <2>3, OwnCall DEF Crash
    <3>2. CASE \E m \in Message : Receive(r, m)
      <4>1. PICK m \in Message : Receive(r, m)
        BY <3>2
      <4>2. call'[r].message = m /\ Body[m] = Unreadable
        BY <1>4, <4>1, ReceivedCall DEF CallType
      <4> QED
        BY <4>2, SearchAssumption DEF Subject
    <3>3. ASSUME ~ \E m \in Message : Receive(r, m)
          PROVE  /\ call[r].step \notin {"idle", "decoded", "ack"}
                 /\ Subject(r)' = Subject(r)
      <4>1. CASE Deliver(r)
        BY <1>1, <1>4, <3>3, <4>1
           DEF Deliver, Consume, Ack, RetryOrQuarantine, PutDeadLetter, Term,
               ErrorPathRaises, GuardedSettlementRaises, Return, Goto, Idle,
               CallType, Call, Subject
      <4>2. CASE StepRaises(r)
        BY <1>1, <4>2 DEF StepRaises, Raises
      <4>3. CASE CheckVerdict(r) \/ LookUpRecord(r)
        BY <1>4, <2>3, <4>3
           DEF CheckVerdict, LookUpRecord, Goto, CallType, Call, Checked
      <4>4. CASE VerifyDecision(r) \/ ReadContext(r) \/ Search(r) \/ PutSearch(r)
        BY <4>4 DEF VerifyDecision, ReadContext, Search, PutSearch, Goto,
           Settle, Hold, CallType, Call, Subject
      <4> QED
        BY <3>1, <4>1, <4>2, <4>3, <4>4 DEF Handle
    <3> QED
      BY <1>2, <3>2, <3>3
  <2> QED
    BY <2>1, <2>2, <2>3
<1> QED
  BY <1>3, <1>4

\* The service leaves a decision to notify only alone: for every number of
\* replicas and messages it records nothing of one, whatever fails, and
\* dead-letters none unless a call failed.
THEOREM NotifyOnlyUntouched == Spec => []NotifyOnlyLeftAlone
<1> DEFINE Inv == StoreType /\ CallType /\ NotifyInv
<1>1. Init => Inv
  <2>1. Init => NotifyInv
    BY DEF Init, NotifyInv, Untroubled, Unrecorded, Idle
  <2> QED
    BY <2>1, InitType
<1>2. Inv /\ [Next]_vars => Inv'
  <2> SUFFICES ASSUME Inv, [Next]_vars, NEW d \in DecisionId \ Searches
               PROVE  Inv /\ record'[d] = NoRecord
    BY NextType, NextUntroubled DEF NotifyInv, Unrecorded
  <2>1. ASSUME NEW r \in Replica, Subject(r) = d, call[r].step = "put"
        PROVE  FALSE
    BY <2>1, CallFacts DEF Checked
  <2> QED
    BY <2>1, RecordChange DEF NotifyInv, Unrecorded
<1>3. Inv => NotifyOnlyLeftAlone
  BY DEF NotifyInv, Untroubled, Unrecorded, NotifyOnlyLeftAlone
<1> QED
  BY <1>1, <1>2, <1>3, PTL DEF Spec

-----------------------------------------------------------------------------
(* A result on record stays unless two callbacks overlapped.  Behind the     *)
(* look-up a callback relies on having found no result; that holds until     *)
(* another callback of the same decision, equally far, stores one, and the   *)
(* later of two such callbacks met the earlier when it checked the verdict.  *)

Apart ==
    \A r, q \in Replica :
        /\ r # q /\ call[r].step \in Checked /\ call[q].step \in Checked
        /\ Subject(r) = Subject(q)
        => Subject(r) \in overlapped

FoundNone ==
    \A r \in Replica :
        /\ call[r].step \in Checked \ {"lookup"}
        /\ Subject(r) \notin overlapped
        => record[Subject(r)].status \notin Done

ResultInv == Apart /\ FoundNone
\* One of two callbacks that are both behind the check of the verdict was there
\* when the other passed it.
LEMMA NextApart ==
  ASSUME StoreType, CallType, [Next]_vars, Apart,
         NEW r \in Replica, NEW q \in Replica \ {r},
         call'[r].step \in Checked, call'[q].step \in Checked,
         Subject(r)' = Subject(q)', call'[r] # call[r]
  PROVE  Subject(r)' \in overlapped'
<1>1. call'[q] = call[q] /\ Subject(q)' = Subject(q)
  BY OwnCall DEF Subject
<1>2. Subject(r)' = Subject(r)
  BY NewStep
<1>3. CASE call[r].step \in Checked
  BY <1>1, <1>2, <1>3, OverlapsLast DEF Apart
<1>4. CASE call[r].step \notin Checked
  <2>1. CheckVerdict(r)
    BY <1>4, NewStep DEF Checked
  <2>2. call[q].step # "idle" /\ Subject(q) = Subject(r)
    BY <1>1, <1>2 DEF Checked
  <2> QED
    BY <1>2, <2>1, <2>2 DEF CheckVerdict
<1> QED
  BY <1>3, <1>4

LEMMA NextResultInv ==
  StoreType /\ CallType /\ ResultInv /\ [Next]_vars => ResultInv'
<1> SUFFICES ASSUME StoreType, CallType, ResultInv, [Next]_vars
             PROVE  ResultInv'
  OBVIOUS
<1>1. ASSUME NEW r \in Replica, NEW q \in Replica, r # q,
             call'[r].step \in Checked, call'[q].step \in Checked,
             Subject(r)' = Subject(q)'
      PROVE  Subject(r)' \in overlapped'
  <2>1. CASE call'[r] # call[r]
    BY <1>1, <2>1, NextApart DEF ResultInv
  <2>2. CASE call'[q] # call[q]
    BY <1>1, <2>2, NextApart DEF ResultInv
  <2>3. CASE call'[r] = call[r] /\ call'[q] = call[q]
    <3>1. Subject(r)' = Subject(r) /\ Subject(q)' = Subject(q)
      BY <2>3 DEF Subject
    <3> QED
      BY <1>1, <2>3, <3>1, OverlapsLast DEF ResultInv, Apart
  <2> QED
    BY <2>1, <2>2, <2>3
<1>2. ASSUME NEW r \in Replica, call'[r].step \in Checked \ {"lookup"},
             Subject(r)' \notin overlapped'
      PROVE  record'[Subject(r)'].status \notin Done
  <2>1. /\ Subject(r)' = Subject(r) /\ call[r].step \in Checked
        /\ record[Subject(r)].status \notin Done
        /\ call[r].step = "lookup" => record' = record
    <3>1. CASE call'[r] # call[r]
      BY <1>2, <3>1, NewStep, OverlapsLast DEF ResultInv, FoundNone, Checked
    <3>2. CASE call'[r] = call[r]
      BY <1>2, <3>2, OverlapsLast DEF ResultInv, FoundNone, Subject
    <3> QED
      BY <3>1, <3>2
  <2>2. Subject(r) \in DecisionId
    BY <2>1, CallFacts DEF Checked
  <2>3. CASE record'[Subject(r)] = record[Subject(r)]
    BY <2>1, <2>3
  <2>4. CASE record'[Subject(r)] # record[Subject(r)]
    <3>1. PICK q \in Replica : /\ PutSearch(q) /\ Subject(q) = Subject(r)
                               /\ call[q].step = "put"
      BY <2>2, <2>4, RecordChange
    <3>2. CASE q # r
      \* the other callback's decision is then known to overlap
      BY <1>2, <2>1, <3>1, <3>2, OverlapsLast DEF ResultInv, Apart, Checked
    <3>3. CASE q = r
      BY <1>2, <3>1, <3>3
         DEF PutSearch, Settle, Goto, Checked, CallType, Call
    <3> QED
      BY <3>2, <3>3
  <2> QED
    BY <2>3, <2>4
<1> QED
  BY <1>1, <1>2 DEF ResultInv, Apart, FoundNone, Subject

\* A result on record is replaced only by a callback that overlapped with
\* another: for every number of replicas, failures, late and repeated messages.
THEOREM ResultStays == Spec => ResultKept
<1> DEFINE Inv == StoreType /\ CallType /\ ResultInv
           Kept == \A d \in DecisionId \ overlapped :
                      record[d].status \in Done => record'[d] = record[d]
<1>1. Init => Inv
  <2>1. Init => ResultInv
    BY DEF Init, ResultInv, Apart, FoundNone, Idle, Checked
  <2> QED
    BY <2>1, InitType
<1>2. Inv /\ [Next]_vars => Inv'
  BY NextType, NextResultInv
<1>3. Inv /\ [Next]_vars => [Kept]_vars
  <2> SUFFICES ASSUME Inv, [Next]_vars, NEW d \in DecisionId \ overlapped,
                      record[d].status \in Done, record'[d] # record[d]
               PROVE  FALSE
    OBVIOUS
  <2>1. PICK r \in Replica : Subject(r) = d /\ call[r].step = "put"
    BY RecordChange
  <2> QED
    BY <2>1 DEF ResultInv, FoundNone, Checked
<1>4. Spec => [][Kept]_vars
  BY <1>1, <1>2, <1>3, PTL DEF Spec
<1> QED
  BY <1>4 DEF ResultKept

-----------------------------------------------------------------------------
(* What sorting does to a list, for keys of any width: the order of tuples   *)
(* is total, so every position has a place of its own, and the places of n   *)
(* positions are 1 .. n.                                                     *)

\* Keys of one width.
KeysOfWidth(w) == [1 .. w -> Int]

LEMMA LeastNatural ==
  ASSUME NEW T \in SUBSET Nat, T # {}
  PROVE  \E m \in T : \A n \in T : m <= n
<1>1. \E m \in T : \A n \in T : ~ (<<n, m>> \in OpToRel(<, Nat))
  BY NatLessThanWellFounded, WFMin
<1>2. PICK m \in T : \A n \in T : ~ (<<n, m>> \in OpToRel(<, Nat))
  BY <1>1
<1>3. \A n \in T : ~ (n < m)
  BY <1>2 DEF OpToRel
<1> QED
  BY <1>3

\* Tuples of one length are totally ordered.
LEMMA BeforeIsOrder ==
  ASSUME NEW w \in Nat, NEW k \in KeysOfWidth(w), NEW l \in KeysOfWidth(w)
  PROVE  /\ ~ Before(k, k)
         /\ ~ (Before(k, l) /\ Before(l, k))
         /\ k = l \/ Before(k, l) \/ Before(l, k)
<1>1. ~ Before(k, k)
  BY DEF Before, KeysOfWidth
<1>2. ASSUME Before(k, l), Before(l, k) PROVE FALSE
  <2>1. PICK i \in 1 .. w : k[i] < l[i] /\ \A j \in 1 .. i - 1 : k[j] = l[j]
    BY <1>2 DEF Before, KeysOfWidth
  <2>2. PICK h \in 1 .. w : l[h] < k[h] /\ \A j \in 1 .. h - 1 : l[j] = k[j]
    BY <1>2 DEF Before, KeysOfWidth
  <2>3. k[i] \in Int /\ l[i] \in Int /\ k[h] \in Int /\ l[h] \in Int
    BY DEF KeysOfWidth
  <2> QED
    BY <2>1, <2>2, <2>3
<1>3. k = l \/ Before(k, l) \/ Before(l, k)
  <2> SUFFICES ASSUME k # l PROVE Before(k, l) \/ Before(l, k)
    OBVIOUS
  <2> DEFINE T == {i \in 1 .. w : k[i] # l[i]}
  <2>1. T \in SUBSET Nat
    OBVIOUS
  <2>1a. T # {}
    BY DEF KeysOfWidth
  <2>2. PICK i \in T : \A n \in T : i <= n
    BY <2>1, <2>1a, LeastNatural
  <2>3. i \in 1 .. w /\ \A j \in 1 .. i - 1 : k[j] = l[j]
    BY <2>2
  <2>4. k[i] < l[i] \/ l[i] < k[i]
    BY <2>2, <2>3 DEF KeysOfWidth
  <2> QED
    BY <2>3, <2>4 DEF Before, KeysOfWidth
<1> QED
  BY <1>1, <1>2, <1>3

LEMMA BeforeTransitive ==
  ASSUME NEW w \in Nat, NEW k \in KeysOfWidth(w), NEW l \in KeysOfWidth(w),
         NEW m \in KeysOfWidth(w), Before(k, l), Before(l, m)
  PROVE  Before(k, m)
<1>1. PICK i \in 1 .. w : k[i] < l[i] /\ \A j \in 1 .. i - 1 : k[j] = l[j]
  BY DEF Before, KeysOfWidth
<1>2. PICK h \in 1 .. w : l[h] < m[h] /\ \A j \in 1 .. h - 1 : l[j] = m[j]
  BY DEF Before, KeysOfWidth
<1> DEFINE n == IF i < h THEN i ELSE h
<1>3. n \in 1 .. w /\ n <= i /\ n <= h /\ (n = i \/ n = h)
  OBVIOUS
<1>4. k[n] \in Int /\ l[n] \in Int /\ m[n] \in Int
  BY <1>3 DEF KeysOfWidth
<1>5. k[n] <= l[n] /\ l[n] <= m[n] /\ (k[n] < l[n] \/ l[n] < m[n])
  <2>1. CASE n = i
    <3>1. n = h \/ n \in 1 .. h - 1
      BY <1>3, <2>1
    <3> QED
      BY <1>1, <1>2, <1>4, <2>1, <3>1
  <2>2. CASE n = h
    <3>1. n = i \/ n \in 1 .. i - 1
      BY <1>3, <2>2
    <3> QED
      BY <1>1, <1>2, <1>4, <2>2, <3>1
  <2> QED
    BY <1>3, <2>1, <2>2
<1>6. \A j \in 1 .. n - 1 : k[j] = m[j]
  BY <1>1, <1>2, <1>3
<1>7. k[n] < m[n]
  BY <1>4, <1>5
<1> HIDE DEF n
<1> QED
  BY <1>3, <1>6, <1>7 DEF Before, KeysOfWidth

\* The first component is never greater.
LEMMA BeforeFirst ==
  ASSUME NEW w \in Nat, w > 0, NEW k \in KeysOfWidth(w), NEW l \in KeysOfWidth(w),
         k = l \/ Before(k, l)
  PROVE  k[1] <= l[1]
<1>1. k[1] \in Int /\ l[1] \in Int
  BY DEF KeysOfWidth
<1>2. CASE Before(k, l)
  <2>1. PICK i \in 1 .. w : k[i] < l[i] /\ \A j \in 1 .. i - 1 : k[j] = l[j]
    BY <1>2 DEF Before, KeysOfWidth
  <2>2. i = 1 \/ 1 \in 1 .. i - 1
    OBVIOUS
  <2> QED
    BY <1>1, <2>1, <2>2
<1> QED
  BY <1>1, <1>2

\* So are positions by their keys.
LEMMA EarlierIsOrder ==
  ASSUME NEW w \in Nat, NEW S \in SUBSET Int, NEW key \in [S -> KeysOfWidth(w)],
         NEW i \in S, NEW j \in S
  PROVE  /\ ~ Earlier(key, i, i)
         /\ ~ (Earlier(key, i, j) /\ Earlier(key, j, i))
         /\ i = j \/ Earlier(key, i, j) \/ Earlier(key, j, i)
         /\ \A h \in S : Earlier(key, h, i) /\ Earlier(key, i, j)
                            => Earlier(key, h, j)
<1>1. /\ key[i] \in KeysOfWidth(w) /\ key[j] \in KeysOfWidth(w)
      /\ \A h \in S : key[h] \in KeysOfWidth(w)
      /\ i \in Int /\ j \in Int /\ \A h \in S : h \in Int
  OBVIOUS
<1>2. /\ ~ Before(key[i], key[i]) /\ ~ Before(key[j], key[j])
      /\ ~ (Before(key[i], key[j]) /\ Before(key[j], key[i]))
      /\ key[i] = key[j] \/ Before(key[i], key[j]) \/ Before(key[j], key[i])
  BY <1>1, BeforeIsOrder
<1>3. \A h \in S : Before(key[h], key[i]) /\ Before(key[i], key[j])
                       => Before(key[h], key[j])
  BY <1>1, BeforeTransitive
<1> HIDE DEF Before
<1>4. /\ ~ Earlier(key, i, i)
      /\ ~ (Earlier(key, i, j) /\ Earlier(key, j, i))
      /\ i = j \/ Earlier(key, i, j) \/ Earlier(key, j, i)
  BY <1>1, <1>2 DEF Earlier
<1>5. ASSUME NEW h \in S, Earlier(key, h, i), Earlier(key, i, j)
      PROVE  Earlier(key, h, j)
  BY <1>1, <1>3, <1>5 DEF Earlier
<1> QED
  BY <1>4, <1>5

\* What is earlier has the smaller place.
LEMMA PlaceIncreases ==
  ASSUME NEW w \in Nat, NEW S \in SUBSET Int, IsFiniteSet(S),
         NEW key \in [S -> KeysOfWidth(w)], NEW i \in S, NEW j \in S,
         Earlier(key, i, j)
  PROVE  /\ Place(S, key, i) \in Nat /\ Place(S, key, j) \in Nat
         /\ Place(S, key, i) < Place(S, key, j)
         /\ Place(S, key, j) < Cardinality(S)
<1> DEFINE I == {h \in S : Earlier(key, h, i)}
           J == {h \in S : Earlier(key, h, j)}
<1>1. /\ I \subseteq J /\ J \subseteq S
      /\ i \in J /\ i \notin I /\ j \notin J
  <2>1. \A h \in S : Earlier(key, h, i) => Earlier(key, h, j)
    BY EarlierIsOrder
  <2>2. ~ Earlier(key, i, i) /\ ~ Earlier(key, j, j)
    BY EarlierIsOrder
  <2> QED
    BY <2>1, <2>2
<1> HIDE DEF I, J
<1>2. IsFiniteSet(I) /\ IsFiniteSet(J)
  BY <1>1, FS_Subset
<1>3. Cardinality(I) \in Nat /\ Cardinality(J) \in Nat /\ Cardinality(S) \in Nat
  BY <1>2, FS_CardinalityType
<1>4. Cardinality(I) <= Cardinality(J) /\ Cardinality(I) # Cardinality(J)
  BY <1>1, <1>2, FS_Subset
<1>5. Cardinality(J) <= Cardinality(S) /\ Cardinality(J) # Cardinality(S)
  BY <1>1, FS_Subset
<1> QED
  BY <1>3, <1>4, <1>5 DEF Place, I, J

LEMMA PlaceType ==
  ASSUME NEW w \in Nat, NEW S \in SUBSET Int, IsFiniteSet(S),
         NEW key \in [S -> KeysOfWidth(w)], NEW i \in S
  PROVE  Place(S, key, i) \in 0 .. Cardinality(S) - 1
<1> DEFINE I == {h \in S : Earlier(key, h, i)}
<1>1. I \subseteq S /\ i \notin I
  BY EarlierIsOrder
<1> HIDE DEF I
<1>2. Cardinality(I) <= Cardinality(S) /\ Cardinality(I) # Cardinality(S)
      /\ IsFiniteSet(I)
  BY <1>1, FS_Subset
<1>3. Cardinality(I) \in Nat /\ Cardinality(S) \in Nat
  BY <1>2, FS_CardinalityType
<1> QED
  BY <1>2, <1>3 DEF Place, I

\* Sorted lists every position once, in the order of the keys.
THEOREM SortedEnumerates ==
  ASSUME NEW w \in Nat, NEW S \in SUBSET Int, IsFiniteSet(S),
         NEW key \in [S -> KeysOfWidth(w)]
  PROVE  /\ Cardinality(S) \in Nat
         /\ Sorted(S, key) \in [1 .. Cardinality(S) -> S]
         /\ \A i \in S : \E n \in 1 .. Cardinality(S) : Sorted(S, key)[n] = i
         /\ \A m, n \in 1 .. Cardinality(S) :
               m < n => Earlier(key, Sorted(S, key)[m], Sorted(S, key)[n])
<1> DEFINE N == Cardinality(S)
           p(i) == Place(S, key, i)
           f == [i \in S |-> p(i) + 1]
<1>1. N \in Nat
  BY FS_CardinalityType
<1>2. \A i \in S : p(i) \in 0 .. N - 1
  BY PlaceType
<1>3. \A i, j \in S : Earlier(key, i, j) => p(i) < p(j)
  BY PlaceIncreases
<1>4. \A i, j \in S : p(i) = p(j) => i = j
  <2> SUFFICES ASSUME NEW i \in S, NEW j \in S, p(i) = p(j), i # j PROVE FALSE
    OBVIOUS
  <2>1. Earlier(key, i, j) \/ Earlier(key, j, i)
    BY EarlierIsOrder
  <2>2. p(i) < p(j) \/ p(j) < p(i)
    BY <1>3, <2>1
  <2>3. p(i) \in Int /\ p(j) \in Int
    BY <1>2
  <2> HIDE DEF p
  <2> QED
    BY <2>2, <2>3
<1> HIDE DEF p, N
<1>5. f \in [S -> 1 .. N]
  BY <1>1, <1>2
<1>6. \A i, j \in S : f[i] = f[j] => i = j
  BY <1>2, <1>4
<1>7. f \in Injection(S, 1 .. N)
  BY <1>5, <1>6, Zenon DEF Injection, IsInjective
<1>8. IsFiniteSet(1 .. N) /\ Cardinality(1 .. N) = N
  BY <1>1, FS_Interval
<1>9. f \in Surjection(S, 1 .. N)
  BY <1>7, <1>8, FS_Injection DEF N
<1>10. \A n \in 1 .. N : \E i \in S : f[i] = n
  BY <1>9 DEF Surjection
<1>11. \A n \in 1 .. N : \E i \in S : p(i) = n - 1
  <2> SUFFICES ASSUME NEW n \in 1 .. N PROVE \E i \in S : p(i) = n - 1
    OBVIOUS
  <2>1. PICK i \in S : f[i] = n
    BY <1>10
  <2>2. p(i) + 1 = n /\ p(i) \in Int
    BY <1>2, <2>1
  <2> QED
    BY <2>2
<1> DEFINE s == Sorted(S, key)
<1>12. s = [n \in 1 .. N |-> CHOOSE i \in S : p(i) = n - 1]
  BY DEF Sorted, N, p
<1> HIDE DEF s, f
<1>13. \A n \in 1 .. N : s[n] \in S /\ p(s[n]) = n - 1
  BY <1>11, <1>12
<1>14. s \in [1 .. N -> S]
  BY <1>12, <1>13
<1>15. ASSUME NEW i \in S PROVE \E n \in 1 .. N : s[n] = i
  <2>1. p(i) + 1 \in 1 .. N /\ p(i) \in Int
    BY <1>1, <1>2
  <2>2. s[p(i) + 1] \in S /\ p(s[p(i) + 1]) = p(i)
    BY <1>13, <2>1
  <2> QED
    BY <1>4, <2>1, <2>2
<1>16. ASSUME NEW m \in 1 .. N, NEW n \in 1 .. N, m < n
       PROVE  Earlier(key, s[m], s[n])
  <2>1. /\ s[m] \in S /\ s[n] \in S
        /\ p(s[m]) = m - 1 /\ p(s[n]) = n - 1
    BY <1>13
  <2>2. s[m] # s[n] /\ ~ (p(s[n]) < p(s[m]))
    BY <1>1, <1>16, <2>1
  <2>3. \A i, j \in S : i = j \/ Earlier(key, i, j) \/ Earlier(key, j, i)
    BY EarlierIsOrder
  <2>4. ~ Earlier(key, s[n], s[m])
    BY <1>3, <2>1, <2>2
  <2> QED
    BY <2>1, <2>2, <2>3, <2>4
<1> QED
  BY <1>1, <1>14, <1>15, <1>16 DEF N, s

-----------------------------------------------------------------------------
(* The provider's cut and the ranking.                                       *)

\* What is known of an offer that is usable.
LEMMA OfferFacts ==
  ASSUME NEW o, Usable(o)
  PROVE  /\ Len(o.segments) \in Nat \ {0}
         /\ DOMAIN o.segments = 1 .. Len(o.segments)
         /\ \A i \in 1 .. Len(o.segments) :
               /\ o.segments[i].departs \in Int
               /\ o.segments[i].arrives \in Int
         /\ Departs(o) = o.segments[1].departs
         /\ Arrives(o) = o.segments[Len(o.segments)].arrives
         /\ Departs(o) \in Int /\ Arrives(o) \in Int
<1> DEFINE s == o.segments
<1>1. s \in Seq(ToSet(s)) /\ s # <<>>
  BY DEF Usable
<1>2. \A i \in DOMAIN s : s[i].departs \in Int /\ s[i].arrives \in Int
  BY DEF Usable, ToSet
<1> HIDE DEF s
<1>3. Len(s) \in Nat \ {0} /\ DOMAIN s = 1 .. Len(s)
  BY <1>1
<1>4. Head(s) = s[1] /\ Last(s) = s[Len(s)]
  BY <1>1, <1>3 DEF Last
<1> QED
  BY <1>2, <1>3, <1>4 DEF s, Departs, Arrives

LEMMA KeyTypes ==
  ASSUME NEW o, Usable(o)
  PROVE  /\ ProviderKey(o) \in KeysOfWidth(3) /\ ProviderKey(o)[1] = Arrives(o)
         /\ RankKey(o) \in KeysOfWidth(5) /\ RankKey(o)[1] = Arrives(o)
<1>1. /\ Arrives(o) \in Int /\ Departs(o) \in Int /\ Stops(o) \in Int
      /\ o.id \in Int /\ Price(o) \in Int
  BY OfferFacts DEF Stops, Price, Infinity, Usable
<1> HIDE DEF Arrives, Departs, Stops, Price
<1>2. ASSUME NEW a \in Int, NEW b \in Int, NEW c \in Int, NEW d \in Int, NEW e \in Int
      PROVE  <<a, b, c>> \in KeysOfWidth(3) /\ <<a, b, c, d, e>> \in KeysOfWidth(5)
  BY DEF KeysOfWidth
<1> QED
  BY <1>1, <1>2 DEF ProviderKey, RankKey

\* The gates in the order of the code and what a traveller would ask for are
\* the same.
LEMMA FeasibleIsFlyable ==
  ASSUME NEW o, o.whole, Usable(o), Feasible(Command, SearchedAt, o)
  PROVE  Flyable(o)
<1> DEFINE s == o.segments
           n == Len(s)
<1>1. /\ n \in Nat \ {0} /\ DOMAIN s = 1 .. n
      /\ \A i \in 1 .. n : s[i].departs \in Int /\ s[i].arrives \in Int
      /\ Departs(o) = s[1].departs
      /\ Head(s) = s[1] /\ Last(s) = s[n]
  BY OfferFacts DEF Last, Usable
<1>2. /\ s[1].from = Command.origin /\ s[n].to = Command.destination
      /\ Departs(o) \in Command.earliest .. Command.latest
      /\ ~ (Stops(o) > Command.stops)
      /\ ~ (o.expires # None /\ o.expires <= SearchedAt)
      /\ ~ \E x \in ToSet(s) : x.arrives <= x.departs
      /\ ~ \E c \in Connections(o) : c[1].to # c[2].from
      /\ ~ \E c \in Connections(o) :
              c[2].departs - c[1].arrives < Command.connection
      /\ ~ \E x \in ToSet(s) : x.flight = Command.original
  BY <1>1 DEF Feasible, Rejection
<1>3. \A i \in 1 .. n : s[i] \in ToSet(s)
  BY <1>1 DEF ToSet
<1>4. \A i \in 1 .. n - 1 : <<s[i], s[i + 1]>> \in Connections(o)
  BY DEF Connections, Stops
<1> HIDE DEF s
<1>5. \A i \in 1 .. n - 1 :
         /\ s[i].to = s[i + 1].from
         /\ s[i + 1].departs - s[i].arrives >= Command.connection
  <2> SUFFICES ASSUME NEW i \in 1 .. n - 1
               PROVE  /\ s[i].to = s[i + 1].from
                      /\ s[i + 1].departs - s[i].arrives >= Command.connection
    OBVIOUS
  <2> DEFINE c == <<s[i], s[i + 1]>>
  <2>1. c \in Connections(o) /\ c[1] = s[i] /\ c[2] = s[i + 1]
    BY <1>4
  <2>2. i \in 1 .. n /\ i + 1 \in 1 .. n
    BY <1>1
  <2>3. s[i + 1].departs \in Int /\ s[i].arrives \in Int /\ Command.connection \in Int
    BY <1>1, <2>2, AnswerAssumption
  <2> HIDE DEF c
  <2> QED
    BY <1>2, <2>1, <2>3
<1>6. \A i \in 1 .. n : /\ s[i].flight # Command.original
                        /\ s[i].arrives > s[i].departs
  BY <1>1, <1>2, <1>3
<1>7. /\ o.expires # None => o.expires > SearchedAt
      /\ n <= Command.stops + 1
      /\ Departs(o) <= Command.latest /\ s[1].departs >= Command.earliest
  BY <1>1, <1>2, AnswerAssumption DEF Usable, Stops, s
<1> DEFINE place(i) == IF i = 0 THEN Command.origin ELSE s[i].to
           ready(i) == IF i = 0 THEN Command.earliest
                       ELSE s[i].arrives + Command.connection
<1>8. ASSUME NEW i \in 1 .. n
      PROVE  s[i].from = place(i - 1) /\ s[i].departs >= ready(i - 1)
  <2>1. CASE i = 1
    BY <1>2, <1>7, <2>1
  <2>2. CASE i # 1
    <3>1. i - 1 \in 1 .. n - 1 /\ (i - 1) + 1 = i /\ i - 1 # 0
      BY <1>1, <2>2
    <3>2. /\ s[i - 1].to = s[i].from
          /\ s[i].departs - s[i - 1].arrives >= Command.connection
      BY <1>5, <3>1
    <3>3. s[i].departs \in Int /\ s[i - 1].arrives \in Int /\ Command.connection \in Int
      BY <1>1, <3>1, AnswerAssumption
    <3> QED
      BY <3>1, <3>2, <3>3
  <2> QED
    BY <2>1, <2>2
<1>9. place(n) = Command.destination
  BY <1>1, <1>2
<1> HIDE DEF place, ready
<1> QED
  BY <1>1, <1>6, <1>7, <1>8, <1>9 DEF Flyable, s, place, ready

LEMMA FlyableIsFeasible ==
  ASSUME NEW o, o.whole, Usable(o), Flyable(o)
  PROVE  Feasible(Command, SearchedAt, o)
<1> DEFINE s == o.segments
           n == Len(s)
           place(i) == IF i = 0 THEN Command.origin ELSE s[i].to
           ready(i) == IF i = 0 THEN Command.earliest
                       ELSE s[i].arrives + Command.connection
<1>1. /\ n \in Nat \ {0} /\ DOMAIN s = 1 .. n
      /\ \A i \in 1 .. n : s[i].departs \in Int /\ s[i].arrives \in Int
      /\ Departs(o) = s[1].departs /\ Arrives(o) = s[n].arrives
      /\ Head(s) = s[1] /\ Last(s) = s[n]
  BY OfferFacts DEF Last, Usable
<1>2. /\ o.expires # None => o.expires > SearchedAt
      /\ n <= Command.stops + 1
      /\ Departs(o) <= Command.latest
      /\ place(n) = Command.destination
      /\ \A i \in 1 .. n : /\ s[i].flight # Command.original
                           /\ s[i].from = place(i - 1)
                           /\ s[i].departs >= ready(i - 1)
                           /\ s[i].arrives > s[i].departs
  BY <1>1 DEF Flyable
<1>3. /\ \A x \in ToSet(s) : \E i \in 1 .. n : x = s[i]
      /\ \A c \in Connections(o) :
            \E i \in 1 .. n - 1 : c[1] = s[i] /\ c[2] = s[i + 1]
  BY <1>1 DEF ToSet, Connections, Stops
<1>4. Stops(o) = n - 1
  BY DEF Stops
<1> HIDE DEF s, n
<1>5. ASSUME NEW i \in 1 .. n - 1
      PROVE  /\ s[i].to = s[i + 1].from
             /\ s[i + 1].departs - s[i].arrives >= Command.connection
             /\ s[i + 1].arrives > s[i].arrives
  <2>1. i \in 1 .. n /\ i + 1 \in 1 .. n /\ (i + 1) - 1 = i /\ i # 0
    BY <1>1
  <2>2. /\ s[i + 1].from = s[i].to
        /\ s[i + 1].departs >= s[i].arrives + Command.connection
        /\ s[i + 1].arrives > s[i + 1].departs
    BY <1>2, <2>1
  <2>3. /\ s[i + 1].departs \in Int /\ s[i].arrives \in Int
        /\ s[i + 1].arrives \in Int /\ Command.connection \in Nat
    BY <1>1, <2>1, AnswerAssumption
  <2> QED
    BY <2>2, <2>3
<1>6. s[1].departs >= Command.earliest /\ s[1].from = Command.origin
  BY <1>1, <1>2
<1>7. s[n].to = Command.destination
  BY <1>1, <1>2
<1>8. Arrives(o) > Departs(o)
  <2> DEFINE T == {i \in 1 .. n : ~ (s[i].arrives > s[1].departs)}
  <2>1. T = {}
    <3> SUFFICES ASSUME T # {} PROVE FALSE
      OBVIOUS
    <3>1. PICK i \in T : \A k \in T : i <= k
      <4>1. T \in SUBSET Nat
        BY <1>1
      <4> HIDE DEF T
      <4> QED
        BY <4>1, LeastNatural
    <3>2. CASE i = 1
      BY <1>1, <1>2, <3>2
    <3>3. CASE i # 1
      <4>1. i - 1 \in 1 .. n - 1 /\ i - 1 \in 1 .. n /\ (i - 1) + 1 = i
        BY <1>1, <3>3
      <4>2. s[i - 1].arrives > s[1].departs
        BY <1>1, <3>1, <4>1
      <4>3. s[i].arrives > s[i - 1].arrives
        BY <1>5, <4>1
      <4> QED
        BY <1>1, <4>1, <4>2, <4>3
    <3> QED
      BY <3>2, <3>3
  <2> QED
    BY <1>1, <2>1
<1>9. /\ Departs(o) \in Command.earliest .. Command.latest
      /\ ~ (Stops(o) > Command.stops)
      /\ ~ (o.expires # None /\ o.expires <= SearchedAt)
      /\ ~ (Arrives(o) <= Departs(o))
  BY <1>1, <1>2, <1>4, <1>6, <1>8, AnswerAssumption DEF Usable
<1>10. /\ ~ \E x \in ToSet(s) : x.arrives <= x.departs
       /\ ~ \E x \in ToSet(s) : x.flight = Command.original
  BY <1>1, <1>2, <1>3
<1>11. /\ ~ \E c \in Connections(o) : c[1].to # c[2].from
       /\ ~ \E c \in Connections(o) :
               c[2].departs - c[1].arrives < Command.connection
  <2> SUFFICES ASSUME NEW c \in Connections(o)
               PROVE  /\ c[1].to = c[2].from
                      /\ ~ (c[2].departs - c[1].arrives < Command.connection)
    OBVIOUS
  <2>1. PICK i \in 1 .. n - 1 : c[1] = s[i] /\ c[2] = s[i + 1]
    BY <1>3
  <2>2. /\ s[i + 1].departs \in Int /\ s[i].arrives \in Int
        /\ Command.connection \in Int
    BY <1>1, AnswerAssumption
  <2> QED
    BY <1>5, <2>1, <2>2
<1> HIDE DEF Connections
<1> QED
  BY <1>1, <1>6, <1>7, <1>9, <1>10, <1>11 DEF Feasible, Rejection, s

LEMMA MinOfTwo ==
  ASSUME NEW a \in Nat, NEW b \in Nat
  PROVE  Min({a, b}) \in {a, b} /\ Min({a, b}) <= a /\ Min({a, b}) <= b
<1>1. \E m \in {a, b} : \A n \in {a, b} : m <= n
  BY DEF Min
<1> QED
  BY <1>1 DEF Min

\* A list of what is at some positions, in the order of the keys' first
\* components.
Lists(sorted, offers, S, key) ==
    LET N == Cardinality(S)
    IN  /\ N \in Nat /\ DOMAIN sorted = 1 .. N
        /\ \A m \in 1 .. N : \E i \in S : sorted[m] = offers[i]
        /\ \A i \in S : \E m \in 1 .. N :
              /\ sorted[m] = offers[i]
              /\ \A k \in 1 .. m : \E h \in S :
                    sorted[k] = offers[h] /\ key[h][1] <= key[i][1]

LEMMA SortedByLists ==
  ASSUME NEW offers, NEW n \in Nat, DOMAIN offers = 1 .. n,
         NEW S \in SUBSET (1 .. n), NEW w \in Nat \ {0},
         NEW key \in [S -> KeysOfWidth(w)]
  PROVE  Lists(SortedBy(offers, S, key), offers, S, key)
<1> DEFINE sorted == SortedBy(offers, S, key)
           N      == Cardinality(S)
           order  == Sorted(S, key)
<1>1. IsFiniteSet(S) /\ S \in SUBSET Int
  <2>1. IsFiniteSet(1 .. n)
    BY FS_Interval
  <2>2. IsFiniteSet(S)
    BY <2>1, FS_Subset
  <2> QED
    BY <2>2
<1>2. /\ N \in Nat /\ order \in [1 .. N -> S]
      /\ \A i \in S : \E m \in 1 .. N : order[m] = i
      /\ \A l, m \in 1 .. N : l < m => Earlier(key, order[l], order[m])
  BY <1>1, SortedEnumerates
<1>3. /\ DOMAIN sorted = 1 .. N
      /\ \A m \in 1 .. N : sorted[m] = offers[order[m]]
  BY <1>2 DEF SortedBy
<1> HIDE DEF sorted, order, N
<1>4. ASSUME NEW i \in S, NEW j \in S, i = j \/ Earlier(key, i, j)
      PROVE  key[i][1] <= key[j][1]
  <2>1. key[i] \in KeysOfWidth(w) /\ key[j] \in KeysOfWidth(w)
    OBVIOUS
  <2>2. key[i] = key[j] \/ Before(key[i], key[j])
    BY <1>4 DEF Earlier
  <2> QED
    BY <2>1, <2>2, BeforeFirst
<1>5. \A l, m \in 1 .. N : l <= m => key[order[l]][1] <= key[order[m]][1]
  <2> SUFFICES ASSUME NEW l \in 1 .. N, NEW m \in 1 .. N, l <= m
               PROVE  key[order[l]][1] <= key[order[m]][1]
    OBVIOUS
  <2>1. l = m \/ l < m
    OBVIOUS
  <2>2. order[l] \in S /\ order[m] \in S
    BY <1>2
  <2>3. order[l] = order[m] \/ Earlier(key, order[l], order[m])
    BY <1>2, <2>1
  <2> QED
    BY <1>4, <2>2, <2>3
<1>6. ASSUME NEW i \in S
      PROVE  \E m \in 1 .. N :
                /\ sorted[m] = offers[i]
                /\ \A k \in 1 .. m : \E h \in S :
                      sorted[k] = offers[h] /\ key[h][1] <= key[i][1]
  <2>1. PICK m \in 1 .. N : order[m] = i
    BY <1>2
  <2>2. sorted[m] = offers[i]
    BY <1>3, <2>1
  <2>3. ASSUME NEW k \in 1 .. m
        PROVE  \E h \in S : sorted[k] = offers[h] /\ key[h][1] <= key[i][1]
    <3>1. k \in 1 .. N /\ k <= m
      BY <1>2
    <3>2. sorted[k] = offers[order[k]] /\ order[k] \in S
      BY <1>2, <1>3, <3>1
    <3>3. key[order[k]][1] <= key[i][1]
      BY <1>5, <2>1, <3>1
    <3> QED
      BY <3>2, <3>3
  <2> QED
    BY <2>2, <2>3
<1>7. \A m \in 1 .. N : \E i \in S : sorted[m] = offers[i]
  BY <1>2, <1>3
<1> QED
  BY <1>2, <1>3, <1>6, <1>7 DEF Lists, sorted, N

\* What the provider keeps of an answer is whole and usable, and whatever it
\* cuts arrives no earlier than what it keeps.
LEMMA KeptOptions ==
  ASSUME NEW answer \in Answer
  PROVE  LET options == ProviderSearch(answer).options
         IN  /\ Len(options) \in Nat /\ DOMAIN options = 1 .. Len(options)
             /\ \A m \in DOMAIN options :
                   options[m].whole /\ Usable(options[m])
             /\ \A o \in ToSet(answer.offers) : o.whole =>
                   \/ \E m \in DOMAIN options : options[m] = o
                   \/ \A m \in DOMAIN options : Arrives(options[m]) <= Arrives(o)
<1> DEFINE offers  == answer.offers
           n       == Len(offers)
           whole   == {i \in DOMAIN offers : offers[i].whole}
           key     == [i \in whole |-> ProviderKey(offers[i])]
           sorted  == SortedBy(offers, whole, key)
           N       == Cardinality(whole)
           kept    == Min({MaximumOffers, N})
           options == SubSeq(sorted, 1, kept)
<1>1. n \in Nat /\ DOMAIN offers = 1 .. n
  BY AnswerAssumption
<1>2. \A i \in whole : Usable(offers[i]) /\ offers[i].whole
  BY AnswerAssumption DEF ToSet
<1>3. /\ key \in [whole -> KeysOfWidth(3)]
      /\ \A i \in whole : key[i][1] = Arrives(offers[i])
  BY <1>2, KeyTypes
<1>4. ProviderSearch(answer).options = options
  BY DEF ProviderSearch
<1>5. ASSUME NEW o \in ToSet(offers), o.whole PROVE \E i \in whole : offers[i] = o
  BY <1>5 DEF ToSet
<1>6. whole \in SUBSET (1 .. n)
  BY <1>1
<1>w. 3 \in Nat \ {0}
  OBVIOUS
<1> HIDE DEF offers, n, whole, key
<1>l. Lists(sorted, offers, whole, key)
  BY <1>1, <1>3, <1>6, <1>w, SortedByLists
<1>7. /\ N \in Nat /\ DOMAIN sorted = 1 .. N
      /\ \A m \in 1 .. N : \E i \in whole : sorted[m] = offers[i]
      /\ \A i \in whole : \E m \in 1 .. N :
            /\ sorted[m] = offers[i]
            /\ \A k \in 1 .. m : \E h \in whole :
                  sorted[k] = offers[h] /\ key[h][1] <= key[i][1]
  BY <1>l DEF Lists
<1> HIDE DEF sorted, N
<1>8. kept \in Nat /\ kept <= N
  BY <1>7, MinOfTwo, RankingAssumption
<1> HIDE DEF kept
<1>9. /\ Len(options) = kept /\ DOMAIN options = 1 .. kept
      /\ \A m \in 1 .. kept : options[m] = sorted[m]
  BY <1>8
<1> HIDE DEF options
<1>10. \A m \in DOMAIN options : options[m].whole /\ Usable(options[m])
  <2> SUFFICES ASSUME NEW m \in 1 .. kept
               PROVE  options[m].whole /\ Usable(options[m])
    BY <1>9
  <2>1. m \in 1 .. N
    BY <1>7, <1>8
  <2>2. PICK i \in whole : sorted[m] = offers[i]
    BY <1>7, <2>1
  <2>3. options[m] = offers[i]
    BY <1>9, <2>2
  <2> QED
    BY <1>2, <2>3
<1>11. ASSUME NEW o \in ToSet(offers), o.whole
       PROVE  \/ \E m \in DOMAIN options : options[m] = o
              \/ \A m \in DOMAIN options : Arrives(options[m]) <= Arrives(o)
  <2>1. PICK i \in whole : offers[i] = o
    BY <1>5, <1>11
  <2>2. PICK m \in 1 .. N :
           /\ sorted[m] = offers[i]
           /\ \A k \in 1 .. m : \E h \in whole :
                 sorted[k] = offers[h] /\ key[h][1] <= key[i][1]
    BY <1>7
  <2>3. CASE m <= kept
    BY <1>9, <2>1, <2>2, <2>3
  <2>4. CASE ~ (m <= kept)
    <3> SUFFICES ASSUME NEW k \in 1 .. kept
                 PROVE  Arrives(options[k]) <= Arrives(o)
      BY <1>9
    <3>1. k \in 1 .. m
      BY <1>7, <1>8, <2>4
    <3>2. PICK h \in whole : sorted[k] = offers[h] /\ key[h][1] <= key[i][1]
      BY <2>2, <3>1
    <3> QED
      BY <1>3, <1>9, <2>1, <3>2
  <2> QED
    BY <2>3, <2>4
<1> QED
  BY <1>4, <1>8, <1>9, <1>10, <1>11 DEF offers

\* Nothing that can be flown is lost to the cut or the gates unless something
\* that arrives no later comes first.
THEOREM RankingLosesNothing ==
  ASSUME NEW answer \in Answer
  PROVE  LET ranked == RankFeasibleOptions(Command, SearchedAt,
                                           ProviderSearch(answer).options)
         IN  /\ \A o \in ToSet(ranked) : Flyable(o)
             /\ ranked # <<>> =>
                   \A o \in ToSet(answer.offers) :
                      Flyable(o) => Arrives(Head(ranked)) <= Arrives(o)
<1> DEFINE options  == ProviderSearch(answer).options
           n        == Len(options)
           feasible == {i \in DOMAIN options :
                          Feasible(Command, SearchedAt, options[i])}
           key      == [i \in feasible |-> RankKey(options[i])]
           ranked   == RankFeasibleOptions(Command, SearchedAt, options)
           N        == Cardinality(feasible)
<1>1. /\ n \in Nat /\ DOMAIN options = 1 .. n
      /\ \A m \in DOMAIN options : options[m].whole /\ Usable(options[m])
      /\ \A o \in ToSet(answer.offers) : o.whole =>
            \/ \E m \in DOMAIN options : options[m] = o
            \/ \A m \in DOMAIN options : Arrives(options[m]) <= Arrives(o)
  BY KeptOptions
<1> HIDE DEF options, n
<1>2. /\ key \in [feasible -> KeysOfWidth(5)]
      /\ \A i \in feasible : key[i][1] = Arrives(options[i])
  BY <1>1, KeyTypes
<1>3. ranked = SortedBy(options, feasible, key)
  BY DEF RankFeasibleOptions
<1>4. feasible \in SUBSET (1 .. n)
  BY <1>1
<1>5. \A i \in feasible : Flyable(options[i])
  BY <1>1, FeasibleIsFlyable
<1>6. \A m \in DOMAIN options : Flyable(options[m]) => m \in feasible
  BY <1>1, FlyableIsFeasible
<1>w. 5 \in Nat \ {0}
  OBVIOUS
<1> HIDE DEF feasible, key, ranked
<1>l. Lists(ranked, options, feasible, key)
  BY <1>1, <1>2, <1>3, <1>4, <1>w, SortedByLists
<1>7. /\ N \in Nat /\ DOMAIN ranked = 1 .. N
      /\ \A m \in 1 .. N : \E i \in feasible : ranked[m] = options[i]
      /\ \A i \in feasible : \E m \in 1 .. N :
            /\ ranked[m] = options[i]
            /\ \A k \in 1 .. m : \E h \in feasible :
                  ranked[k] = options[h] /\ key[h][1] <= key[i][1]
  BY <1>l DEF Lists
<1> HIDE DEF N
<1>8. \A o \in ToSet(ranked) : Flyable(o)
  <2> SUFFICES ASSUME NEW o \in ToSet(ranked) PROVE Flyable(o)
    OBVIOUS
  <2>1. PICK m \in 1 .. N : o = ranked[m]
    BY <1>7 DEF ToSet
  <2>2. PICK i \in feasible : o = options[i]
    BY <1>7, <2>1
  <2> QED
    BY <1>5, <2>2
<1>9. ASSUME ranked # <<>>, NEW o \in ToSet(answer.offers), Flyable(o)
      PROVE  Arrives(ranked[1]) <= Arrives(o)
  <2>1. N > 0
    <3>1. CASE N = 0
      BY <1>7, <1>9, <3>1
    <3> QED
      BY <1>7, <3>1
  <2>2. o.whole
    BY <1>9 DEF Flyable
  <2>3. CASE \E m \in DOMAIN options : options[m] = o
    <3>1. PICK i \in feasible : options[i] = o
      BY <1>6, <1>9, <2>3
    <3>2. PICK m \in 1 .. N :
             \A k \in 1 .. m : \E h \in feasible :
                ranked[k] = options[h] /\ key[h][1] <= key[i][1]
      BY <1>7
    <3>3. 1 \in 1 .. m
      OBVIOUS
    <3>4. PICK h \in feasible : ranked[1] = options[h] /\ key[h][1] <= key[i][1]
      BY <3>2, <3>3
    <3> QED
      BY <1>2, <3>1, <3>4
  <2>4. CASE \A m \in DOMAIN options : Arrives(options[m]) <= Arrives(o)
    <3>1. 1 \in 1 .. N
      BY <1>7, <2>1
    <3>2. PICK i \in feasible : ranked[1] = options[i]
      BY <1>7, <3>1
    <3> QED
      BY <1>1, <1>4, <2>4, <3>2
  <2> QED
    BY <1>1, <2>2, <2>3, <2>4
<1>10. Head(ranked) = ranked[1]
  OBVIOUS
<1> QED
  BY <1>8, <1>9, <1>10 DEF ranked, options

\* In every reachable state: of a completed search all alternatives can be
\* flown, and no offer of the answer it was made from arrives before the first
\* (flight_search.py, search, rank_feasible_options).
THEOREM BestOfferKept == Spec => []NothingBetterOffered
<1> DEFINE Inv == StoreType /\ CallType
<1>1. Init => Inv
  BY InitType
<1>2. Inv /\ [Next]_vars => Inv'
  BY NextType
<1>3. Inv => NothingBetterOffered
  <2> SUFFICES ASSUME StoreType, NEW d \in DecisionId,
                      record[d].status = "completed"
               PROVE  /\ \A o \in ToSet(record[d].alternatives) : Flyable(o)
                      /\ \A o \in record[d].offers :
                            Flyable(o) => Arrives(Head(record[d].alternatives))
                                             <= Arrives(o)
    BY DEF NothingBetterOffered
  <2>1. record[d] \in Outcomes
    BY DEF StoreType, NoRecord, Failed, Record
  <2>2. PICK answer \in Answer : record[d] = Outcome(answer)
    BY <2>1 DEF Outcomes
  <2> DEFINE ranked == RankFeasibleOptions(Command, SearchedAt,
                                           ProviderSearch(answer).options)
             status == IF ranked # <<>> THEN "completed" ELSE "no_options"
  <2>3. \/ record[d] = Failed
        \/ record[d] = Record(status, ranked, ToSet(answer.offers))
    BY <2>2 DEF Outcome
  <2> HIDE DEF ranked
  <2>4. /\ ranked # <<>> /\ record[d].alternatives = ranked
        /\ record[d].offers = ToSet(answer.offers)
    BY <2>3 DEF Failed, Record
  <2> QED
    BY <2>4, RankingLosesNothing DEF ranked
<1> QED
  BY <1>1, <1>2, <1>3, PTL DEF Spec
=============================================================================
