-------------------------- MODULE EvalAgent_proofs --------------------------
(***************************************************************************)
(* Theorems about EvalAgent for every set of candidates, messages and      *)
(* replicas and every bound.                                               *)
(***************************************************************************)
EXTENDS EvalAgent, TLAPS

-----------------------------------------------------------------------------
(* The policy's operators.                                                 *)

\* A verdict of the policy comes with codes of the published vocabulary.
LEMMA ReasonType ==
  ASSUME NEW cand, cand.category \in Category
  PROVE  BaseReason(cand) \in ReasonCode /\ BaseVerdict(cand) \in Verdict
<1>1. WeatherReason(cand.weather) \in ReasonCode
  BY DEF WeatherReason, ReasonCode
<1>2. BaseVerdict(cand) \in Verdict
  BY DEF BaseVerdict, Verdict, Grounding
<1>3. BaseReason(cand) \in ReasonCode
  BY <1>1 DEF BaseReason, ReasonCode, Category
<1> QED
  BY <1>2, <1>3

LEMMA EvaluateType ==
  ASSUME NEW cand, cand.category \in Category, cand.delay \in Nat,
         NEW previous \in Band \cup {NoBand}
  PROVE  /\ Evaluate(cand, previous) \in Decision
         /\ BandAfter(cand, previous) \in Band \cup {NoBand}
<1>1. SeverityBand(cand) \in Band
  BY DEF SeverityBand, Band
<1>2. Evaluate(cand, previous) \in Decision
  BY ReasonType, <1>1 DEF Evaluate, Decision, Verdict, ReasonCode
<1>3. BandAfter(cand, previous) \in Band \cup {NoBand}
  BY <1>1 DEF BandAfter
<1> QED
  BY <1>2, <1>3

LEMMA NotADecision ==
  /\ NoDecision \notin Decision
  /\ NoRow \notin Decision
  /\ GhostRow \notin Decision
BY DEF NoDecision, NoRow, GhostRow, Decision, Verdict
-----------------------------------------------------------------------------
(* Type correctness, with what a callback may rely on: it holds a message  *)
(* while it is not idle, and past decoding that message has a candidate.   *)

Holding(p) ==
    /\ p.step # "idle" => p.message \in Message
    /\ p.step \in {"decoded", "band", "commit", "publish", "delete", "ack"}
          => Body[p.message] \in Candidate
    /\ p.step \in {"commit", "publish", "delete"} => p.decision \in Decision

CallInv == \A r \in Replica : call[r] \in Call /\ Holding(call[r])

\* The rest of TypeOK, everything but call; and what keeps delivery counts in
\* range: a message the broker may still deliver has deliveries left.
StoreType ==
    /\ decision  \in [Candidate -> Decision \cup {NoDecision}]
    /\ confirmed \in [Candidate -> Decision \cup {NoDecision}]
    /\ band \in [Episode -> Band \cup {NoBand}]
    /\ outbox \in [Candidate -> Decision \cup {NoRow, GhostRow}]
    /\ deadLetters \subseteq Candidate \cup {Unreadable}
    /\ stream \subseteq Event
    /\ message \in [Message -> MessageState]
    /\ deliveries \in [Message -> 0 .. MaxDeliveries]
    /\ batch \in [Replica -> SUBSET Event]
    /\ drained \in [Replica -> Event \cup {NoEvent}]
    /\ faults \in 0 .. MaxFaults
    /\ \A m \in Message : message[m] \in {"unpublished", "available"}
                            => deliveries[m] < MaxDeliveries

CallType == call \in [Replica -> Call] /\ CallInv

LEMMA IdleType == Idle \in Call /\ Holding(Idle)
BY EvalAssumption DEF Idle, Call, Step, Holding

\* A callback that replaces its locals by well-formed ones.
LEMMA CallUpdate ==
  ASSUME CallType, NEW r \in Replica, NEW p \in Call, Holding(p),
         call' = [call EXCEPT ![r] = p]
  PROVE  CallType'
<1>1. call' \in [Replica -> Call]
  BY DEF CallType
<1>2. ASSUME NEW q \in Replica PROVE Holding(call'[q])
  <2>1. CASE q = r
    BY <2>1 DEF CallType
  <2>2. CASE q # r
    BY <2>2 DEF CallType, CallInv
  <2> QED
    BY <2>1, <2>2
<1> QED
  BY <1>1, <1>2 DEF CallType, CallInv, Holding

LEMMA ReturnType ==
  ASSUME CallType, NEW r \in Replica, Return(r)
  PROVE  CallType'
BY IdleType, CallUpdate DEF Return

\* A callback that moves on needs what the next step relies on.
LEMMA GotoType ==
  ASSUME CallType, NEW r \in Replica, NEW s \in Step, Goto(r, s),
         call[r].step # "idle",
         s \in {"decoded", "band", "commit", "publish", "delete", "ack"}
            => Subject(r) \in Candidate,
         s \in {"commit", "publish", "delete"} => call[r].decision \in Decision
  PROVE  CallType'
<1> DEFINE p == [call[r] EXCEPT !.step = s]
<1>1. call[r] \in Call /\ call[r].message \in Message
  BY DEF CallType, CallInv, Holding
<1>2. /\ p \in Call /\ p.step = s /\ p.message = call[r].message
      /\ p.decision = call[r].decision
  BY <1>1 DEF Call
<1>3. Holding(p)
  BY <1>1, <1>2 DEF Holding, Subject
<1>4. call' = [call EXCEPT ![r] = p]
  BY DEF Goto
<1> HIDE DEF p
<1> QED
  BY <1>2, <1>3, <1>4, CallUpdate

\* What a callback holds, by the step it is at.
LEMMA CallFacts ==
  ASSUME CallType, NEW r \in Replica, call[r].step # "idle"
  PROVE  /\ call[r] \in Call
         /\ call[r].message \in Message
         /\ call[r].step \in {"decoded", "band", "commit", "publish", "delete",
                              "ack"} => Subject(r) \in Candidate
         /\ call[r].step \in {"commit", "publish", "delete"}
               => call[r].decision \in Decision
BY DEF CallType, CallInv, Holding, Subject

\* The locals a callback starts with.
LEMMA ReceivedCall ==
  ASSUME StoreType, NEW r \in Replica, NEW m \in Message, Receive(r, m)
  PROVE  \E p \in Call : /\ call' = [call EXCEPT ![r] = p]
                         /\ p.step \in {"decoded", "quarantine"}
                         /\ Holding(p)
<1> DEFINE s == IF Body[m] = Unreadable THEN "quarantine" ELSE "decoded"
           p == [Idle EXCEPT !.step = s, !.message = m,
                             !.attempt = deliveries[m] + 1]
<1>1. s \in Step /\ s \in {"decoded", "quarantine"}
  BY DEF Step
<1>2. s = "decoded" => Body[m] \in Candidate
  BY EvalAssumption
<1>3. deliveries[m] + 1 \in 0 .. MaxDeliveries
  BY EvalAssumption DEF Receive, StoreType
<1>4. call' = [call EXCEPT ![r] = p]
  BY DEF Receive
<1> HIDE DEF s
<1>5. p \in Call /\ p.step = s /\ p.message = m
  BY <1>1, <1>3, IdleType DEF Call
<1> HIDE DEF p
<1>6. Holding(p)
  BY <1>1, <1>2, <1>5 DEF Holding
<1> QED
  BY <1>1, <1>4, <1>5, <1>6

LEMMA InitType == Init => StoreType /\ CallType
<1> SUFFICES ASSUME Init PROVE StoreType /\ CallType
  OBVIOUS
<1>1. StoreType
  BY EvalAssumption DEF Init, StoreType, MessageState, Event
<1>2. CallType
  BY IdleType DEF Init, CallType, CallInv
<1> QED
  BY <1>1, <1>2

\* What Publish may do to the stream.
LEMMA PublishType ==
  ASSUME stream \subseteq Event, NEW e \in Event, Publish(e)
  PROVE  stream' \subseteq Event /\ stream \subseteq stream'
BY DEF Publish

LEMMA FaultType ==
  ASSUME faults \in 0 .. MaxFaults, Fault
  PROVE  faults' \in 0 .. MaxFaults
BY EvalAssumption DEF Fault

LEMMA NextType ==
  StoreType /\ CallType /\ [Next]_vars => StoreType' /\ CallType'
<1> SUFFICES ASSUME StoreType, CallType, [Next]_vars
             PROVE  StoreType' /\ CallType'
  OBVIOUS
<1> USE EvalAssumption
<1>1. ASSUME NEW m \in Message, PublishCandidate(m)
      PROVE  StoreType' /\ CallType'
  <2>1. StoreType'
    BY <1>1 DEF PublishCandidate, Offer, StoreType, MessageState, stored, transport, drainer
  <2>2. CallType'
    BY <1>1 DEF PublishCandidate, Offer, stored, transport, drainer, CallType, CallInv, Holding
  <2> QED
    BY <2>1, <2>2
<1>2. ASSUME NEW m \in Message, LateAck(m)
      PROVE  StoreType' /\ CallType'
  <2>1. StoreType'
    BY <1>2, FaultType DEF LateAck, AckWaitExpires, Requeued, StoreType,
       MessageState, stored, transport, drainer
  <2>2. CallType'
    BY <1>2 DEF LateAck, AckWaitExpires, stored, transport, drainer, CallType, CallInv, Holding
  <2> QED
    BY <2>1, <2>2
<1>3. ASSUME NEW r \in Replica, NEW m \in Message, Receive(r, m),
             UNCHANGED <<stored, drainer>>
      PROVE  StoreType' /\ CallType'
  <2>1. StoreType'
    BY <1>3 DEF Receive, StoreType, MessageState, stored, drainer
  <2>2. CallType'
    BY <1>3, ReceivedCall, CallUpdate
  <2> QED
    BY <2>1, <2>2
<1>4. ASSUME NEW r \in Replica, CheckDecision(r)
      PROVE  StoreType' /\ CallType'
  <2>1. StoreType'
    BY <1>4, CallFacts, FaultType DEF CheckDecision, StoreType, stored, transport, drainer
  <2>2. CallType'
    BY <1>4, CallFacts, GotoType DEF CheckDecision, Step
  <2> QED
    BY <2>1, <2>2
<1>5. ASSUME NEW r \in Replica, EvaluateCandidate(r)
      PROVE  StoreType' /\ CallType'
  <2>1. StoreType'
    BY <1>5 DEF EvaluateCandidate, StoreType, stored, transport, drainer
  <2>2. /\ call[r] \in Call /\ call[r].message \in Message
        /\ Subject(r) \in Candidate
    BY <1>5, CallFacts DEF EvaluateCandidate
  <2> DEFINE fact     == Fact[Subject(r)]
             previous == band[EpisodeKey(fact)]
             p        == [call[r] EXCEPT
                            !.step = "commit",
                            !.decision = Evaluate(fact, previous),
                            !.band = BandAfter(fact, previous)]
  <2>3. previous \in Band \cup {NoBand}
    BY <2>2 DEF StoreType, Episode
  <2>4. /\ Evaluate(fact, previous) \in Decision
        /\ BandAfter(fact, previous) \in Band \cup {NoBand}
    BY <2>2, <2>3, FactAssumption, EvaluateType
  <2>5. call' = [call EXCEPT ![r] = p]
    BY <1>5 DEF EvaluateCandidate
  <2> HIDE DEF fact, previous
  <2>6. /\ p \in Call /\ p.message = call[r].message
        /\ p.decision \in Decision /\ p.step = "commit"
    BY <2>2, <2>4 DEF Call, Step
  <2> HIDE DEF p
  <2>7. Holding(p)
    BY <2>2, <2>6 DEF Holding, Subject
  <2> QED
    BY <2>1, <2>5, <2>6, <2>7, CallUpdate
<1>6. ASSUME NEW r \in Replica, Commit(r)
      PROVE  StoreType' /\ CallType'
  <2>1. /\ Subject(r) \in Candidate /\ call[r].decision \in Decision
        /\ call[r].band \in Band \cup {NoBand} /\ call[r].step # "idle"
    BY <1>6, CallFacts DEF Commit, Call
  <2>2. StoreType'
    BY <1>6, <2>1, FaultType DEF Commit, CommitEvaluation, StoreType, Episode,
       transport, drainer
  <2>3. CallType'
    BY <1>6, <2>1, GotoType DEF Commit, Step
  <2> QED
    BY <2>2, <2>3
<1>7. ASSUME NEW r \in Replica, PublishConfirmed(r)
      PROVE  StoreType' /\ CallType'
  <2>1. /\ Subject(r) \in Candidate /\ call[r].decision \in Decision
        /\ call[r].step # "idle"
    BY <1>7, CallFacts DEF PublishConfirmed
  <2>2. stream' \subseteq Event
    BY <1>7, <2>1, PublishType DEF PublishConfirmed, StoreType, Event
  <2>3. StoreType'
    BY <1>7, <2>2, FaultType DEF PublishConfirmed, StoreType, transport, drainer
  <2>4. CallType'
    BY <1>7, <2>1, GotoType DEF PublishConfirmed, Step
  <2> QED
    BY <2>3, <2>4
<1>8. ASSUME NEW r \in Replica, DeletePublished(r)
      PROVE  StoreType' /\ CallType'
  <2>1. StoreType'
    BY <1>8, CallFacts, FaultType DEF DeletePublished, StoreType, stored, transport, drainer
  <2>2. CallType'
    BY <1>8, CallFacts, GotoType DEF DeletePublished, Step
  <2> QED
    BY <2>1, <2>2
<1>9. ASSUME NEW r \in Replica, PublicationFails(r)
      PROVE  StoreType' /\ CallType'
  <2>1. StoreType'
    BY <1>9, CallFacts, FaultType DEF PublicationFails, StoreType, stored, transport, drainer
  <2>2. CallType'
    BY <1>9, CallFacts, GotoType DEF PublicationFails, Step
  <2> QED
    BY <2>1, <2>2
<1>10. ASSUME NEW r \in Replica, Ack(r),
             UNCHANGED <<stored, drainer>>
      PROVE  StoreType' /\ CallType'
  <2>1. StoreType'
    BY <1>10, CallFacts, FaultType DEF Ack, Settled, StoreType,
       MessageState, stored, transport, drainer
  <2>2. CallType'
    BY <1>10, CallFacts, GotoType, ReturnType DEF Ack, Step
  <2> QED
    BY <2>1, <2>2
<1>11. ASSUME NEW r \in Replica, StepRaises(r)
      PROVE  StoreType' /\ CallType'
  <2>1. StoreType'
    BY <1>11, CallFacts, FaultType DEF StepRaises, Raises, StoreType, stored, transport, drainer
  <2>2. CallType'
    BY <1>11, CallFacts, GotoType DEF StepRaises, Raises, Step
  <2> QED
    BY <2>1, <2>2
<1>12. ASSUME NEW r \in Replica, RetryOrQuarantine(r),
             UNCHANGED <<stored, drainer>>
      PROVE  StoreType' /\ CallType'
  <2>1. StoreType'
    BY <1>12, CallFacts, FaultType DEF RetryOrQuarantine, Nak, Requeued,
       StoreType, MessageState, stored, transport, drainer
  <2>2. CallType'
    BY <1>12, CallFacts, GotoType, ReturnType DEF RetryOrQuarantine, Step
  <2> QED
    BY <2>1, <2>2
<1>13. ASSUME NEW r \in Replica, PutDeadLetter(r),
             UNCHANGED <<stored, drainer>>
      PROVE  StoreType' /\ CallType'
  <2>1. Subject(r) \in Candidate \cup {Unreadable} /\ call[r].step # "idle"
    BY <1>13, CallFacts DEF PutDeadLetter, Subject
  <2>2. StoreType'
    BY <1>13, <2>1, FaultType DEF PutDeadLetter, StoreType, stored, transport,
       drainer
  <2>3. CallType'
    BY <1>13, <2>1, GotoType, ReturnType DEF PutDeadLetter, Step
  <2> QED
    BY <2>2, <2>3
<1>14. ASSUME NEW r \in Replica, Term(r),
             UNCHANGED <<stored, drainer>>
      PROVE  StoreType' /\ CallType'
  <2>1. StoreType'
    BY <1>14, CallFacts, FaultType DEF Term, Settled, StoreType, MessageState, stored, transport, drainer
  <2>2. CallType'
    BY <1>14, CallFacts, ReturnType DEF Term, Step
  <2> QED
    BY <2>1, <2>2
<1>15. ASSUME NEW r \in Replica, ErrorPathRaises(r),
             UNCHANGED <<stored, drainer>>
      PROVE  StoreType' /\ CallType'
  <2>1. StoreType'
    BY <1>15, CallFacts, FaultType DEF ErrorPathRaises, StoreType, stored, transport, drainer
  <2>2. CallType'
    BY <1>15, CallFacts, ReturnType DEF ErrorPathRaises, Step
  <2> QED
    BY <2>1, <2>2
<1>16. ASSUME NEW r \in Replica, ListOutbox(r)
      PROVE  StoreType' /\ CallType'
  <2>1. StoreType'
    BY <1>16, FaultType DEF ListOutbox, Event, StoreType, stored, transport, drainer
  <2>2. CallType'
    BY <1>16 DEF ListOutbox, stored, transport, drainer, CallType, CallInv, Holding
  <2> QED
    BY <2>1, <2>2
<1>17. ASSUME NEW r \in Replica, NEW e \in batch[r], DrainPublish(r, e)
      PROVE  StoreType' /\ CallType'
  <2>1. e \in Event /\ stream' \subseteq Event
    BY <1>17, PublishType DEF DrainPublish, StoreType
  <2>2. StoreType'
    BY <1>17, <2>1 DEF DrainPublish, StoreType, transport
  <2>3. CallType'
    BY <1>17 DEF DrainPublish, CallType, CallInv, Holding
  <2> QED
    BY <2>2, <2>3
<1>18. ASSUME NEW r \in Replica, DrainDelete(r)
      PROVE  StoreType' /\ CallType'
  <2>1. StoreType'
    BY <1>18, FaultType DEF DrainDelete, Event, StoreType, stored, transport, drainer
  <2>2. CallType'
    BY <1>18 DEF DrainDelete, stored, transport, drainer, CallType, CallInv, Holding
  <2> QED
    BY <2>1, <2>2
<1>19. ASSUME NEW r \in Replica, NEW e \in batch[r] \cup {drained[r]}, DrainFails(r, e)
      PROVE  StoreType' /\ CallType'
  <2>1. e \in Event /\ stream' \subseteq Event
    BY <1>19, PublishType DEF DrainFails, StoreType
  <2>2. StoreType'
    BY <1>19, <2>1, FaultType DEF DrainFails, Event, StoreType, transport
  <2>3. CallType'
    BY <1>19 DEF DrainFails, CallType, CallInv, Holding
  <2> QED
    BY <2>2, <2>3
<1>20. ASSUME NEW r \in Replica, DrainAborts(r)
      PROVE  StoreType' /\ CallType'
  <2>1. StoreType'
    BY <1>20, FaultType DEF DrainAborts, StoreType, stored, transport, drainer
  <2>2. CallType'
    BY <1>20 DEF DrainAborts, stored, transport, drainer, CallType, CallInv, Holding
  <2> QED
    BY <2>1, <2>2
<1>21. ASSUME NEW r \in Replica, Crash(r)
      PROVE  StoreType' /\ CallType'
  <2>1. StoreType'
    BY <1>21, CallFacts, FaultType DEF Crash, StoreType, stored, transport, drainer
  <2>2. CallType'
    BY <1>21, CallFacts, ReturnType DEF Crash, Step
  <2> QED
    BY <2>1, <2>2
<1>22. ASSUME NEW c \in Candidate, ForceRedelivery(c)
      PROVE  StoreType' /\ CallType'
  <2>1. StoreType'
    BY <1>22, FaultType DEF ForceRedelivery, Event, StoreType, stored, transport, drainer
  <2>2. CallType'
    BY <1>22 DEF ForceRedelivery, stored, transport, drainer, CallType, CallInv, Holding
  <2> QED
    BY <2>1, <2>2
<1>23. CASE UNCHANGED vars
  BY <1>23 DEF vars, stored, transport, drainer, StoreType, CallType, CallInv,
     Holding
<1> QED
  BY <1>1, <1>2, <1>3, <1>4, <1>5, <1>6, <1>7, <1>8, <1>9, <1>10, <1>11,
     <1>12, <1>13, <1>14, <1>15, <1>16, <1>17, <1>18, <1>19, <1>20, <1>21,
     <1>22, <1>23 DEF Next, Handle, Deliver, Consume, Drain

\* Every state of every instance has the types TypeOK gives.
THEOREM TypeCorrect == Spec => []TypeOK
<1>1. Spec => [](StoreType /\ CallType)
  BY InitType, NextType, PTL DEF Spec
<1>2. StoreType /\ CallType => TypeOK
  BY DEF StoreType, CallType, TypeOK
<1> QED
  BY <1>1, <1>2, PTL

-----------------------------------------------------------------------------
(* No approved event is lost.  A row is deleted only by a callback or a    *)
(* drain loop that published first: that is the strengthening.             *)

DeletesPublished ==
    /\ \A r \in Replica : call[r].step = "delete" => OnStream(Subject(r))
    /\ \A r \in Replica : drained[r] # NoEvent => OnStream(drained[r].candidate)

\* Nothing is taken off the stream.
LEMMA StreamGrows == StoreType /\ [Next]_vars => stream \subseteq stream'
<1> SUFFICES ASSUME StoreType, [Next]_vars PROVE stream \subseteq stream'
  OBVIOUS
<1>1. ASSUME NEW e, Publish(e) PROVE stream \subseteq stream'
  BY <1>1 DEF Publish
<1>2. ASSUME NEW r \in Replica, Handle(r) PROVE stream \subseteq stream'
  BY <1>1, <1>2 DEF Handle, Deliver, Consume, Receive, CheckDecision, EvaluateCandidate, Commit,
     PublishConfirmed, DeletePublished, PublicationFails, Ack, StepRaises, Raises,
     RetryOrQuarantine, PutDeadLetter, Term, ErrorPathRaises, stored
<1>3. ASSUME NEW r \in Replica, Drain(r) PROVE stream \subseteq stream'
  BY <1>1, <1>3 DEF Drain, ListOutbox, DrainPublish, DrainDelete, DrainFails,
     DrainAborts, stored
<1> QED
  BY <1>2, <1>3 DEF Next, PublishCandidate, Offer, LateAck, AckWaitExpires, Crash,
     ForceRedelivery, vars, stored

\* After Publish(e) an event of e's candidate is on the stream.
LEMMA PublishedIsOnStream ==
  ASSUME NEW e, Publish(e) PROVE OnStream(e.candidate)'
BY DEF Publish, OnStream

\* A step that changes a replica's callback is a step of that replica.
LEMMA OwnCall ==
  ASSUME CallType, [Next]_vars, NEW q \in Replica, call'[q] # call[q]
  PROVE  Handle(q) \/ Crash(q)
<1>1. call' # call
  OBVIOUS
<1>2. ASSUME NEW r \in Replica PROVE ~Drain(r)
  BY <1>1 DEF Drain, ListOutbox, DrainPublish, DrainDelete, DrainFails,
     DrainAborts
<1>3. PICK r \in Replica : Handle(r) \/ Crash(r)
  BY <1>1, <1>2 DEF Next, PublishCandidate, Offer, LateAck, AckWaitExpires, ForceRedelivery, vars
<1>4. \E p : call' = [call EXCEPT ![r] = p]
  BY <1>3 DEF Handle, Deliver, Consume, Receive, CheckDecision, EvaluateCandidate, Commit,
     PublishConfirmed, DeletePublished, PublicationFails, Ack, StepRaises, Raises,
     RetryOrQuarantine, PutDeadLetter, Term, ErrorPathRaises, Crash, Goto,
     Return
<1>5. q = r
  BY <1>4 DEF CallType
<1> QED
  BY <1>3, <1>5

\* Where a callback can come from, by the step it arrives at.
LEMMA NewStep ==
  ASSUME StoreType, CallType, NEW q \in Replica, Handle(q) \/ Crash(q)
  PROVE  /\ call'[q].step = "delete" => PublishConfirmed(q)
         /\ call'[q].step = "publish" => Commit(q)
         /\ call'[q].step = "term" => PutDeadLetter(q)
         /\ call'[q].step = "ack" =>
               \/ CheckDecision(q) \/ Commit(q) \/ PublishConfirmed(q)
               \/ DeletePublished(q) \/ PublicationFails(q)
         /\ call'[q].message # call[q].message =>
               call'[q].step \in {"idle", "decoded", "quarantine"}
<1>1. /\ call'[q].step = "delete" => PublishConfirmed(q)
      /\ call'[q].step = "publish" => Commit(q)
      /\ call'[q].step = "term" => PutDeadLetter(q)
      /\ call'[q].step = "ack" =>
            \/ CheckDecision(q) \/ Commit(q) \/ PublishConfirmed(q)
            \/ DeletePublished(q) \/ PublicationFails(q)
  <2>1. CASE \E m \in Message : Receive(q, m)
    BY <2>1, ReceivedCall DEF CallType
  <2>2. CASE EvaluateCandidate(q)
    BY <2>2 DEF EvaluateCandidate, CallType, Call
  <2> QED
    BY <2>1, <2>2 DEF Handle, Deliver, Consume, CheckDecision, Commit, PublishConfirmed,
       DeletePublished, PublicationFails, Ack, StepRaises, Raises,
       RetryOrQuarantine, PutDeadLetter, Term, ErrorPathRaises, Crash, Goto,
       Return, Idle, CallType, Call
<1>2. call'[q].message # call[q].message =>
         call'[q].step \in {"idle", "decoded", "quarantine"}
  <2>1. CASE \E m \in Message : Receive(q, m)
    BY <2>1, ReceivedCall DEF CallType
  <2>2. CASE EvaluateCandidate(q)
    BY <2>2 DEF EvaluateCandidate, CallType, Call
  <2> QED
    BY <2>1, <2>2 DEF Handle, Deliver, Consume, CheckDecision, Commit,
       PublishConfirmed, DeletePublished, PublicationFails, Ack, StepRaises,
       Raises, RetryOrQuarantine, PutDeadLetter, Term, ErrorPathRaises, Crash,
       Goto, Return, Idle, CallType, Call
<1> QED
  BY <1>1, <1>2

\* How a replica comes to hold a row it will delete.
LEMMA DeleterPublishedFirst ==
  StoreType /\ CallType /\ DeletesPublished /\ [Next]_vars => DeletesPublished'
<1> SUFFICES ASSUME StoreType, CallType, DeletesPublished, [Next]_vars
             PROVE  DeletesPublished'
  OBVIOUS
<1>1. ASSUME NEW c, OnStream(c) PROVE OnStream(c)'
  BY <1>1, StreamGrows DEF OnStream
<1>2. ASSUME NEW q \in Replica, call'[q].step = "delete"
      PROVE  OnStream(Subject(q))'
  <2>1. CASE call'[q] = call[q]
    BY <1>1, <1>2, <2>1 DEF DeletesPublished, Subject
  <2>2. CASE call'[q] # call[q]
    <3>1. Handle(q) \/ Crash(q)
      BY <2>2, OwnCall
    <3>2. PublishConfirmed(q)
      BY <1>2, <3>1, NewStep DEF CallType
    <3>3. Subject(q)' = Subject(q)
      BY <3>2 DEF PublishConfirmed, Goto, Subject, CallType, Call
    <3> QED
      BY <3>2, <3>3, PublishedIsOnStream DEF PublishConfirmed
  <2> QED
    BY <2>1, <2>2
<1>3. ASSUME NEW q \in Replica, drained'[q] # NoEvent
      PROVE  OnStream(drained[q].candidate)'
  <2>1. CASE drained'[q] = drained[q]
    BY <1>1, <1>3, <2>1 DEF DeletesPublished
  <2>2. CASE drained'[q] # drained[q]
    <3>1. \E e \in batch[q] : DrainPublish(q, e)
      <4>1. ASSUME NEW r \in Replica, Handle(r) PROVE drained' = drained
        BY <4>1 DEF Handle, Deliver, Consume, Receive, CheckDecision,
           EvaluateCandidate, Commit, PublishConfirmed, DeletePublished,
           PublicationFails, Ack, StepRaises, Raises, RetryOrQuarantine,
           PutDeadLetter, Term, ErrorPathRaises, drainer
      <4>2. ASSUME NEW r \in Replica, ListOutbox(r) \/ DrainDelete(r)
                                       \/ DrainAborts(r) \/ Crash(r)
            PROVE  FALSE
        BY <1>3, <2>2, <4>2 DEF ListOutbox, DrainDelete, DrainAborts, Crash,
           StoreType
      <4>3. ASSUME NEW r \in Replica, NEW e, DrainFails(r, e) PROVE FALSE
        BY <1>3, <2>2, <4>3 DEF DrainFails, StoreType
      <4>4. ASSUME NEW r \in Replica, NEW e \in batch[r], DrainPublish(r, e)
            PROVE  r = q
        BY <1>3, <2>2, <4>4 DEF DrainPublish, StoreType
      <4> QED
        BY <1>3, <2>2, <4>1, <4>2, <4>3, <4>4 DEF Next, Drain,
           PublishCandidate, Offer, LateAck, AckWaitExpires, ForceRedelivery,
           drainer, vars
    <3>2. PICK e \in batch[q] : DrainPublish(q, e)
      BY <3>1
    <3>3. drained'[q] = e
      BY <3>2 DEF DrainPublish, StoreType
    <3> QED
      BY <3>2, <3>3, PublishedIsOnStream DEF DrainPublish, OnStream
  <2> QED
    BY <2>1, <2>2
<1> QED
  BY <1>2, <1>3 DEF DeletesPublished, OnStream

\* The commit is the only step that confirms, and it writes the row; a row
\* is replaced by nothing, or by a ghost, only when its event is out.
LEMMA NextKeepsApproved ==
  /\ StoreType /\ CallType /\ DeletesPublished /\ NoApprovedEventLost
  /\ [Next]_vars
  => NoApprovedEventLost'
<1> SUFFICES ASSUME StoreType, CallType, DeletesPublished,
                    NoApprovedEventLost, [Next]_vars,
                    NEW c \in Candidate, confirmed'[c] # NoDecision
             PROVE  outbox'[c] \in Decision \/ OnStream(c)'
  BY DEF NoApprovedEventLost, OnStream
<1>1. OnStream(c) => OnStream(c)'
  BY StreamGrows DEF OnStream
<1>2. CASE confirmed'[c] = confirmed[c] /\ outbox'[c] = outbox[c]
  BY <1>1, <1>2 DEF NoApprovedEventLost
<1>3. ASSUME NEW r \in Replica, Commit(r)
      PROVE  outbox'[c] \in Decision \/ OnStream(c)'
  <2>1. Subject(r) \in Candidate /\ call[r].decision \in Decision
    BY <1>3, CallFacts DEF Commit
  <2> QED
    BY <1>1, <1>3, <2>1
       DEF Commit, CommitEvaluation, NoApprovedEventLost, StoreType
<1>4. ASSUME NEW r \in Replica, DeletePublished(r)
      PROVE  outbox'[c] \in Decision \/ OnStream(c)'
  <2>1. CASE c = Subject(r)
    BY <1>1, <1>4, <2>1 DEF DeletePublished, DeletesPublished
  <2>2. CASE c # Subject(r)
    BY <1>2, <1>4, <2>2 DEF DeletePublished, StoreType
  <2> QED
    BY <2>1, <2>2
<1>5. ASSUME NEW r \in Replica, DrainDelete(r)
      PROVE  outbox'[c] \in Decision \/ OnStream(c)'
  <2>1. CASE c = drained[r].candidate
    BY <1>1, <1>5, <2>1 DEF DrainDelete, DeletesPublished
  <2>2. CASE c # drained[r].candidate
    BY <1>2, <1>5, <2>2 DEF DrainDelete, StoreType
  <2> QED
    BY <2>1, <2>2
<1>6. ASSUME NEW r \in Replica, NEW e, DrainFails(r, e)
      PROVE  outbox'[c] \in Decision \/ OnStream(c)'
  <2>1. confirmed' = confirmed
    BY <1>6 DEF DrainFails
  <2>2. CASE outbox[c] = NoRow
    BY <1>1, <2>1, <2>2, NotADecision DEF NoApprovedEventLost
  <2>3. CASE outbox[c] # NoRow
    BY <1>2, <1>6, <2>1, <2>3 DEF DrainFails, StoreType
  <2> QED
    BY <2>2, <2>3
<1>7. ASSUME NEW r \in Replica, Handle(r)
      PROVE  outbox'[c] \in Decision \/ OnStream(c)'
  BY <1>2, <1>3, <1>4, <1>7 DEF Handle, Deliver, Consume, Receive, CheckDecision,
     EvaluateCandidate, PublishConfirmed, PublicationFails, Ack, StepRaises, Raises,
     RetryOrQuarantine, PutDeadLetter, Term, ErrorPathRaises, stored
<1>8. ASSUME NEW r \in Replica, Drain(r)
      PROVE  outbox'[c] \in Decision \/ OnStream(c)'
  BY <1>2, <1>5, <1>6, <1>8 DEF Drain, ListOutbox, DrainPublish, DrainAborts,
     stored
<1> QED
  BY <1>2, <1>7, <1>8 DEF Next, PublishCandidate, Offer, LateAck, AckWaitExpires, Crash,
     ForceRedelivery, vars, stored

\* From its commit on, an approved disruption is in the outbox or on the
\* stream: for every number of replicas, crashes, failures and redeliveries.
THEOREM ApprovedIsKept == Spec => []NoApprovedEventLost
<1> DEFINE Inv == /\ StoreType /\ CallType
                  /\ DeletesPublished /\ NoApprovedEventLost
<1>1. Init => Inv
  BY InitType DEF Init, DeletesPublished, NoApprovedEventLost, Idle
<1>2. Inv /\ [Next]_vars => Inv'
  BY NextType, DeleterPublishedFirst, NextKeepsApproved
<1> QED
  BY <1>1, <1>2, PTL DEF Spec

-----------------------------------------------------------------------------
(* A message is settled only with a lasting result.  The strengthening is  *)
(* what the callback has in hand when it settles.                          *)

SettlesWithResult ==
    \A r \in Replica :
        /\ call[r].step \in {"publish", "delete", "ack"}
              => decision[Subject(r)] # NoDecision
        /\ call[r].step = "term" => Subject(r) \in deadLetters

\* Decisions and dead letters are not taken back.
LEMMA ResultsLast ==
  ASSUME StoreType, CallType, [Next]_vars
  PROVE  /\ \A c \in Candidate : decision[c] # NoDecision
                                    => decision'[c] # NoDecision
         /\ deadLetters \subseteq deadLetters'
<1>1. ASSUME NEW r \in Replica, Commit(r)
      PROVE  /\ \A c \in Candidate : decision[c] # NoDecision
                                        => decision'[c] # NoDecision
             /\ deadLetters \subseteq deadLetters'
  <2>1. call[r].decision \in Decision
    BY <1>1, CallFacts DEF Commit
  <2> QED
    BY <1>1, <2>1, NotADecision DEF Commit, CommitEvaluation, StoreType,
       transport
<1>2. ASSUME NEW r \in Replica, Handle(r), ~Commit(r)
      PROVE  decision' = decision /\ deadLetters \subseteq deadLetters'
  BY <1>2 DEF Handle, Deliver, Consume, Receive, CheckDecision, EvaluateCandidate,
     PublishConfirmed, DeletePublished, PublicationFails, Ack, StepRaises, Raises,
     RetryOrQuarantine, PutDeadLetter, Term, ErrorPathRaises, stored,
     transport
<1>3. ASSUME NEW r \in Replica, Drain(r) \/ Crash(r)
      PROVE  decision' = decision /\ deadLetters' = deadLetters
  BY <1>3 DEF Drain, ListOutbox, DrainPublish, DrainDelete, DrainFails,
     DrainAborts, Crash, stored, transport
<1> QED
  BY <1>1, <1>2, <1>3 DEF Next, PublishCandidate, Offer, LateAck, AckWaitExpires,
     ForceRedelivery, vars, stored, transport

LEMMA NextSettlesWithResult ==
  StoreType /\ CallType /\ SettlesWithResult /\ [Next]_vars
  => SettlesWithResult'
<1> SUFFICES ASSUME StoreType, CallType, SettlesWithResult, [Next]_vars,
                    NEW r \in Replica
             PROVE  /\ call'[r].step \in {"publish", "delete", "ack"}
                          => decision'[Subject(r)'] # NoDecision
                    /\ call'[r].step = "term" => Subject(r)' \in deadLetters'
  BY DEF SettlesWithResult, Subject
<1>1. CASE call'[r] = call[r]
  <2>1. Subject(r)' = Subject(r)
    BY <1>1 DEF Subject
  <2> QED
    BY <1>1, <2>1, ResultsLast, CallFacts DEF SettlesWithResult
<1>2. CASE call'[r] # call[r]
  <2>1. Handle(r) \/ Crash(r)
    BY <1>2, OwnCall
  <2>2. call'[r].step \in {"publish", "delete", "ack", "term"}
           => Subject(r)' = Subject(r)
    BY <2>1, NewStep DEF Subject
  <2>3. ASSUME call'[r].step \in {"publish", "delete", "ack"}
        PROVE  decision'[Subject(r)] # NoDecision
    <3>1. CASE CheckDecision(r)
      BY <2>3, <3>1 DEF CheckDecision, Goto, CallType, Call, stored
    <3>2. CASE Commit(r)
      <4>1. Subject(r) \in Candidate /\ call[r].decision \in Decision
        BY <3>2, CallFacts DEF Commit
      <4> QED
        BY <3>2, <4>1, NotADecision DEF Commit, CommitEvaluation, StoreType
    <3>3. CASE PublishConfirmed(r) \/ DeletePublished(r) \/ PublicationFails(r)
      BY <3>3 DEF PublishConfirmed, DeletePublished, PublicationFails,
         SettlesWithResult, stored
    <3> QED
      BY <2>1, <2>3, <3>1, <3>2, <3>3, NewStep
  <2>4. ASSUME call'[r].step = "term"
        PROVE  Subject(r) \in deadLetters'
    BY <2>1, <2>4, NewStep DEF PutDeadLetter
  <2> QED
    BY <2>2, <2>3, <2>4
<1> QED
  BY <1>1, <1>2

LEMMA NextSettled ==
  /\ StoreType /\ CallType /\ SettlesWithResult /\ SettledOnlyWithResult
  /\ [Next]_vars
  => SettledOnlyWithResult'
<1> SUFFICES ASSUME StoreType, CallType, SettlesWithResult,
                    SettledOnlyWithResult, [Next]_vars, NEW m \in Message
             PROVE  /\ message'[m] = "acked" =>
                          /\ Body[m] # Unreadable
                          /\ decision'[Body[m]] # NoDecision
                    /\ message'[m] = "termed" => Body[m] \in deadLetters'
  BY DEF SettledOnlyWithResult
<1>1. Body[m] # Unreadable => Body[m] \in Candidate
  BY EvalAssumption
<1>2. CASE message'[m] \in {message[m], "unpublished", "available",
                            "inflight", "exhausted"}
  BY <1>1, <1>2, ResultsLast DEF SettledOnlyWithResult
<1>3. ASSUME NEW r \in Replica, Ack(r), UNCHANGED stored, call[r].message = m
      PROVE  /\ Body[m] # Unreadable /\ decision'[Body[m]] # NoDecision
             /\ message'[m] \in {message[m], "acked"}
  <2>1. Subject(r) \in Candidate /\ Subject(r) = Body[m]
    BY <1>3, CallFacts DEF Ack, Subject
  <2> QED
    BY <1>3, <2>1, EvalAssumption
       DEF Ack, Settled, SettlesWithResult, stored, StoreType
<1>4. ASSUME NEW r \in Replica, Term(r), call[r].message = m
      PROVE  Body[m] \in deadLetters' /\ message'[m] \in {message[m], "termed"}
  BY <1>4 DEF Term, Settled, SettlesWithResult, Subject, stored, StoreType
<1>5. ASSUME NEW r \in Replica, Ack(r) \/ Term(r), call[r].message # m
      PROVE  message'[m] = message[m]
  BY <1>5, CallFacts DEF Ack, Term, Settled, StoreType
<1>6. ASSUME NEW r \in Replica, Handle(r), ~Ack(r), ~Term(r)
      PROVE  message'[m] \in {message[m], "unpublished", "available",
                              "inflight", "exhausted"}
  BY <1>6 DEF Handle, Deliver, Consume, Receive, CheckDecision, EvaluateCandidate, Commit,
     PublishConfirmed, DeletePublished, PublicationFails, StepRaises, Raises,
     RetryOrQuarantine, Nak, Requeued, PutDeadLetter, ErrorPathRaises,
     transport, StoreType
<1>7. ASSUME NEW r \in Replica, Drain(r) \/ Crash(r)
      PROVE  message' = message
  BY <1>7 DEF Drain, ListOutbox, DrainPublish, DrainDelete, DrainFails,
     DrainAborts, Crash, transport
<1>8. ASSUME NEW n \in Message, PublishCandidate(n) \/ LateAck(n)
      PROVE  message'[m] \in {message[m], "unpublished", "available",
                              "inflight", "exhausted"}
  BY <1>8 DEF PublishCandidate, Offer, LateAck, AckWaitExpires, Requeued,
     StoreType
<1>9. ASSUME NEW r \in Replica, Ack(r) \/ Term(r), UNCHANGED stored
      PROVE  /\ message'[m] = "acked" =>
                   /\ Body[m] # Unreadable
                   /\ decision'[Body[m]] # NoDecision
             /\ message'[m] = "termed" => Body[m] \in deadLetters'
  BY <1>2, <1>3, <1>4, <1>5, <1>9
<1>10. ASSUME NEW r \in Replica, Handle(r)
       PROVE  /\ message'[m] = "acked" =>
                    /\ Body[m] # Unreadable
                    /\ decision'[Body[m]] # NoDecision
              /\ message'[m] = "termed" => Body[m] \in deadLetters'
  <2>1. CASE Ack(r) \/ Term(r)
    <3>1. UNCHANGED stored
      BY <1>10, <2>1 DEF Handle, Deliver, StepRaises, Raises, CheckDecision,
         EvaluateCandidate, Commit, PublishConfirmed, DeletePublished,
         PublicationFails, Ack, Term
    <3> QED
      BY <1>9, <2>1, <3>1
  <2>2. CASE ~Ack(r) /\ ~Term(r)
    BY <1>2, <1>6, <1>10, <2>2
  <2> QED
    BY <2>1, <2>2
<1> QED
  BY <1>2, <1>7, <1>8, <1>10 DEF Next, ForceRedelivery, transport, vars

\* No message leaves the consumer without a committed decision or a stored
\* dead letter: for every number of replicas, failures and redeliveries.
THEOREM SettledWithResult == Spec => []SettledOnlyWithResult
<1> DEFINE Inv == /\ StoreType /\ CallType
                  /\ SettlesWithResult /\ SettledOnlyWithResult
<1>1. Init => Inv
  BY InitType DEF Init, SettlesWithResult, SettledOnlyWithResult, Idle
<1>2. Inv /\ [Next]_vars => Inv'
  BY NextType, NextSettlesWithResult, NextSettled
<1> QED
  BY <1>1, <1>2, PTL DEF Spec
-----------------------------------------------------------------------------
(* One process.  While it works on a candidate nobody else decides it or    *)
(* moves its episode's band, so that what it read before the commit is      *)
(* still so at the commit; and whatever holds an event - the confirmed      *)
(* record, the outbox, a drain loop's batch, the callback about to publish  *)
(* - holds it as it was decided.  Two processes decide a candidate twice.   *)

OneReplica == \A q, r \in Replica : q = r

Deciding ==
    \A r \in Replica :
        /\ call[r].step \in {"band", "commit"}
              => decision[Subject(r)] = NoDecision
        /\ call[r].step = "commit" =>
              LET fact     == Fact[Subject(r)]
                  previous == band[EpisodeKey(fact)]
              IN  /\ call[r].decision = Evaluate(fact, previous)
                  /\ call[r].band = BandAfter(fact, previous)

Approved(c, d) == d = decision[c] /\ d.verdict # "SUPPRESS"

AsDecided ==
    /\ \A c \in Candidate : confirmed[c] # NoDecision => Approved(c, confirmed[c])
    /\ \A c \in Candidate : outbox[c] \in Decision => Approved(c, outbox[c])
    /\ \A r \in Replica : \A e \in batch[r] : Approved(e.candidate, e.decision)
    /\ \A r \in Replica : call[r].step = "publish"
                             => Approved(Subject(r), call[r].decision)

SoloInv == StoreType /\ CallType /\ Deciding /\ AsDecided

\* Only a commit decides, confirms or moves a band.
LEMMA CommitWrites ==
  ASSUME [Next]_vars, \A r \in Replica : ~Commit(r)
  PROVE  decision' = decision /\ band' = band /\ confirmed' = confirmed
<1>1. ASSUME NEW r \in Replica, Handle(r)
      PROVE  decision' = decision /\ band' = band /\ confirmed' = confirmed
  BY <1>1 DEF Handle, Deliver, Consume, Receive, CheckDecision,
     EvaluateCandidate, PublishConfirmed, DeletePublished, PublicationFails,
     Ack, StepRaises, Raises, RetryOrQuarantine, PutDeadLetter, Term,
     ErrorPathRaises, stored
<1>2. ASSUME NEW r \in Replica, Drain(r) \/ Crash(r)
      PROVE  decision' = decision /\ band' = band /\ confirmed' = confirmed
  BY <1>2 DEF Drain, ListOutbox, DrainPublish, DrainDelete, DrainFails,
     DrainAborts, Crash, stored
<1> QED
  BY <1>1, <1>2 DEF Next, PublishCandidate, Offer, LateAck, AckWaitExpires,
     ForceRedelivery, vars, stored

\* The steps that lead a callback to reading the band, to the commit and away
\* from it.
LEMMA NewDecidingStep ==
  ASSUME StoreType, CallType, NEW r \in Replica, Handle(r) \/ Crash(r)
  PROVE  /\ call'[r].step = "band" => CheckDecision(r)
         /\ call'[r].step = "commit" => EvaluateCandidate(r)
<1>1. CASE \E m \in Message : Receive(r, m)
  BY <1>1, ReceivedCall DEF CallType
<1>2. CASE EvaluateCandidate(r)
  BY <1>2 DEF EvaluateCandidate, CallType, Call
<1> QED
  BY <1>1, <1>2 DEF Handle, Deliver, Consume, CheckDecision, Commit,
     PublishConfirmed, DeletePublished, PublicationFails, Ack, StepRaises,
     Raises, RetryOrQuarantine, PutDeadLetter, Term, ErrorPathRaises, Crash,
     Goto, Return, Idle, CallType, Call

\* What a commit of the only process writes, on the state it commits to.
LEMMA CommitFacts ==
  ASSUME StoreType, CallType, Deciding, NEW r \in Replica, Commit(r)
  PROVE  LET c        == Subject(r)
             fact     == Fact[c]
             previous == band[EpisodeKey(fact)]
             d        == Evaluate(fact, previous)
         IN  /\ c \in Candidate /\ EpisodeKey(fact) \in Episode
             /\ previous \in Band \cup {NoBand}
             /\ decision[c] = NoDecision
             /\ d \in Decision /\ call[r].decision = d
             /\ decision' = [decision EXCEPT ![c] = d]
             /\ band' = [band EXCEPT ![EpisodeKey(fact)] =
                                         BandAfter(fact, previous)]
             /\ confirmed' = IF d.verdict # "SUPPRESS"
                             THEN [confirmed EXCEPT ![c] = d] ELSE confirmed
             /\ outbox' = IF d.verdict # "SUPPRESS"
                          THEN [outbox EXCEPT ![c] = d] ELSE outbox
             /\ stream' = stream /\ batch' = batch
             /\ call'[r].message = call[r].message
             /\ call'[r].decision = call[r].decision
             /\ call'[r].step \in {"publish", "ack", "failed"}
             /\ call'[r].step = "publish" => d.verdict # "SUPPRESS"
<1> DEFINE c        == Subject(r)
           fact     == Fact[c]
           previous == band[EpisodeKey(fact)]
           d        == Evaluate(fact, previous)
<1>1. c \in Candidate /\ EpisodeKey(fact) \in Episode
  BY CallFacts DEF Commit, Episode
<1>2. previous \in Band \cup {NoBand}
  BY <1>1 DEF StoreType
<1>3. /\ decision[c] = NoDecision /\ call[r].decision = d
      /\ call[r].band = BandAfter(fact, previous)
  BY DEF Deciding, Commit
<1>4. d \in Decision
  BY <1>1, <1>2, EvaluateType, FactAssumption
<1>5. BandAfter(fact, previous) = NoBand => previous = NoBand
  BY DEF BandAfter, SeverityBand, NoBand
<1>6. band' = [band EXCEPT ![EpisodeKey(fact)] = BandAfter(fact, previous)]
  <2>1. CASE BandAfter(fact, previous) = NoBand
    <3>1. band' = band
      BY <1>3, <2>1 DEF Commit, CommitEvaluation
    <3>2. previous = BandAfter(fact, previous)
      BY <1>5, <2>1
    <3> QED
      BY <3>1, <3>2 DEF StoreType
  <2>2. CASE BandAfter(fact, previous) # NoBand
    BY <1>3, <2>2 DEF Commit, CommitEvaluation
  <2> QED
    BY <2>1, <2>2
<1>7. /\ decision' = [decision EXCEPT ![c] = d]
      /\ confirmed' = IF d.verdict # "SUPPRESS"
                      THEN [confirmed EXCEPT ![c] = d] ELSE confirmed
      /\ outbox' = IF d.verdict # "SUPPRESS"
                   THEN [outbox EXCEPT ![c] = d] ELSE outbox
  BY <1>3 DEF Commit, CommitEvaluation
<1>8. stream' = stream /\ batch' = batch
  BY DEF Commit, drainer
<1>9. /\ call'[r].message = call[r].message
      /\ call'[r].decision = call[r].decision
      /\ call'[r].step \in {"publish", "ack", "failed"}
      /\ call'[r].step = "publish" => call[r].decision.verdict # "SUPPRESS"
  BY DEF Commit, Goto, CallType, Call
<1> HIDE DEF d
<1> QED
  BY <1>1, <1>2, <1>3, <1>4, <1>6, <1>7, <1>8, <1>9 DEF d

LEMMA NextDeciding ==
  ASSUME OneReplica, SoloInv, [Next]_vars PROVE Deciding'
<1> SUFFICES ASSUME NEW r \in Replica
             PROVE  /\ call'[r].step \in {"band", "commit"}
                          => decision'[Subject(r)'] = NoDecision
                    /\ call'[r].step = "commit" =>
                          LET fact     == Fact[Subject(r)']
                              previous == band'[EpisodeKey(fact)]
                          IN  /\ call'[r].decision = Evaluate(fact, previous)
                              /\ call'[r].band = BandAfter(fact, previous)
  BY DEF Deciding
<1>1. CASE Commit(r)
  BY <1>1, CommitFacts DEF SoloInv
<1>2. CASE ~Commit(r)
  <2>1. decision' = decision /\ band' = band
    BY <1>2, CommitWrites DEF OneReplica
  <2>2. CASE call'[r] = call[r]
    <3>1. Subject(r)' = Subject(r)
      BY <2>2 DEF Subject
    <3> QED
      BY <2>1, <2>2, <3>1 DEF SoloInv, Deciding
  <2>3. CASE call'[r] # call[r]
    <3>1. Handle(r) \/ Crash(r)
      BY <2>3, OwnCall DEF SoloInv
    <3>2. CASE call'[r].step = "band"
      <4>1. CheckDecision(r)
        BY <3>1, <3>2, NewDecidingStep DEF SoloInv
      <4>2. Subject(r)' = Subject(r) /\ decision[Subject(r)] = NoDecision
        BY <3>2, <4>1 DEF CheckDecision, Goto, Subject, SoloInv, CallType, Call
      <4> QED
        BY <2>1, <3>2, <4>2
    <3>3. CASE call'[r].step = "commit"
      <4>1. EvaluateCandidate(r)
        BY <3>1, <3>3, NewDecidingStep DEF SoloInv
      <4>2. decision[Subject(r)] = NoDecision
        BY <4>1 DEF EvaluateCandidate, SoloInv, Deciding
      <4> DEFINE fact     == Fact[Subject(r)]
                 previous == band[EpisodeKey(fact)]
                 d        == Evaluate(fact, previous)
                 b        == BandAfter(fact, previous)
      <4>3. call' = [call EXCEPT ![r].step = "commit", ![r].decision = d,
                                 ![r].band = b]
        BY <4>1 DEF EvaluateCandidate
      <4> HIDE DEF d, b
      <4>4. /\ call'[r].message = call[r].message
            /\ call'[r].decision = d /\ call'[r].band = b
        BY <4>3 DEF SoloInv, CallType, Call
      <4>5. Subject(r)' = Subject(r)
        BY <4>4 DEF Subject
      <4> QED
        BY <2>1, <4>2, <4>4, <4>5 DEF d, b
    <3> QED
      BY <3>2, <3>3
  <2> QED
    BY <2>2, <2>3
<1> QED
  BY <1>1, <1>2
\* The steps of the outbox, the batches and the callbacks about to publish:
\* without a commit, nothing is there that was not there before.
LEMMA NothingNewToPublish ==
  ASSUME StoreType, CallType, [Next]_vars, \A r \in Replica : ~Commit(r)
  PROVE  /\ \A c \in Candidate : outbox'[c] \in Decision => outbox'[c] = outbox[c]
         /\ \A r \in Replica : \A e \in batch'[r] :
               \/ e \in batch[r]
               \/ /\ e.candidate \in Candidate
                  /\ outbox[e.candidate] \in Decision
                  /\ e.decision = outbox[e.candidate]
         /\ \A r \in Replica :
               call'[r].step = "publish" => call'[r] = call[r]
<1>1. ASSUME NEW r \in Replica, DeletePublished(r)
      PROVE  \A c \in Candidate : outbox'[c] \in Decision => outbox'[c] = outbox[c]
  BY <1>1, NotADecision, CallFacts DEF DeletePublished, StoreType
<1>2. ASSUME NEW r \in Replica, DrainDelete(r)
      PROVE  \A c \in Candidate : outbox'[c] \in Decision => outbox'[c] = outbox[c]
  BY <1>2, NotADecision DEF DrainDelete, StoreType
<1>3. ASSUME NEW r \in Replica, NEW e, DrainFails(r, e)
      PROVE  \A c \in Candidate : outbox'[c] \in Decision => outbox'[c] = outbox[c]
  BY <1>3, NotADecision DEF DrainFails, StoreType
<1>4. ASSUME NEW r \in Replica, Handle(r) \/ Drain(r) \/ Crash(r)
      PROVE  \A c \in Candidate : outbox'[c] \in Decision => outbox'[c] = outbox[c]
  BY <1>1, <1>2, <1>3, <1>4 DEF Handle, Deliver, Consume, Receive, CheckDecision,
     EvaluateCandidate, PublishConfirmed, PublicationFails, Ack, StepRaises,
     Raises, RetryOrQuarantine, PutDeadLetter, Term, ErrorPathRaises, Drain,
     ListOutbox, DrainPublish, DrainAborts, Crash, stored
<1>5. \A c \in Candidate : outbox'[c] \in Decision => outbox'[c] = outbox[c]
  BY <1>4 DEF Next, PublishCandidate, LateAck, ForceRedelivery, vars, stored
<1>6. ASSUME NEW r \in Replica, NEW q \in Replica, Drain(q) \/ Crash(q),
             NEW e \in batch'[r]
      PROVE  \/ e \in batch[r]
             \/ /\ e.candidate \in Candidate
                /\ outbox[e.candidate] \in Decision
                /\ e.decision = outbox[e.candidate]
  <2>1. CASE ListOutbox(q)
    <3> DEFINE rows == {[candidate |-> c, decision |-> outbox[c]] :
                          c \in {x \in Candidate :
                                    outbox[x] \notin {NoRow, GhostRow}}}
    <3>1. batch' = [batch EXCEPT ![q] = rows]
      BY <2>1 DEF ListOutbox
    <3>2. ASSUME NEW f \in rows
          PROVE  /\ f.candidate \in Candidate
                 /\ outbox[f.candidate] \in Decision
                 /\ f.decision = outbox[f.candidate]
      BY <3>2 DEF StoreType
    <3> HIDE DEF rows
    <3> QED
      BY <1>6, <3>1, <3>2 DEF StoreType
  <2>2. CASE ~ListOutbox(q)
    BY <1>6, <2>2 DEF Drain, DrainPublish, DrainDelete, DrainFails,
       DrainAborts, Crash, StoreType
  <2> QED
    BY <2>1, <2>2
<1>7. ASSUME NEW q \in Replica, Handle(q)
      PROVE  batch' = batch
  BY <1>7 DEF Handle, Deliver, Consume, Receive, CheckDecision,
     EvaluateCandidate, Commit, PublishConfirmed, DeletePublished,
     PublicationFails, Ack, StepRaises, Raises, RetryOrQuarantine,
     PutDeadLetter, Term, ErrorPathRaises, drainer
<1>8. ASSUME NEW r \in Replica, NEW e \in batch'[r]
      PROVE  \/ e \in batch[r]
             \/ /\ e.candidate \in Candidate
                /\ outbox[e.candidate] \in Decision
                /\ e.decision = outbox[e.candidate]
  <2>1. CASE batch' = batch
    BY <1>8, <2>1
  <2>2. CASE batch' # batch
    <3>1. PICK q \in Replica : Drain(q) \/ Crash(q)
      BY <1>7, <2>2 DEF Next, PublishCandidate, LateAck, ForceRedelivery, vars,
         drainer
    <3> QED
      BY <1>6, <1>8, <3>1
  <2> QED
    BY <2>1, <2>2
<1>9. ASSUME NEW r \in Replica, call'[r].step = "publish"
      PROVE  call'[r] = call[r]
  BY <1>9, OwnCall, NewStep
<1> QED
  BY <1>5, <1>8, <1>9

LEMMA NextAsDecided ==
  ASSUME OneReplica, SoloInv, [Next]_vars PROVE AsDecided'
<1> USE DEF SoloInv
<1>1. ASSUME NEW r \in Replica, Commit(r) PROVE AsDecided'
  <2> DEFINE c == Subject(r)
             d == Evaluate(Fact[c], band[EpisodeKey(Fact[c])])
  <2>1. /\ c \in Candidate /\ decision[c] = NoDecision /\ d \in Decision
        /\ decision' = [decision EXCEPT ![c] = d]
        /\ confirmed' = IF d.verdict # "SUPPRESS"
                        THEN [confirmed EXCEPT ![c] = d] ELSE confirmed
        /\ outbox' = IF d.verdict # "SUPPRESS"
                     THEN [outbox EXCEPT ![c] = d] ELSE outbox
        /\ batch' = batch
    BY <1>1, CommitFacts
  <2>2. /\ call'[r].step = "publish" => d.verdict # "SUPPRESS"
        /\ call'[r].decision = d
        /\ Subject(r)' = c
    BY <1>1, CommitFacts DEF Subject
  <2> HIDE DEF c, d
  <2>3. /\ decision'[c] = d
        /\ \A x \in Candidate \ {c} : decision'[x] = decision[x]
    BY <2>1 DEF StoreType
  <2>4. ASSUME NEW x \in Candidate, confirmed'[x] # NoDecision
        PROVE  Approved(x, confirmed[x])'
    <3>1. CASE x = c
      <4>1. confirmed[c] = NoDecision
        BY <2>1 DEF AsDecided, Approved
      <4> QED
        BY <2>1, <2>3, <2>4, <3>1, <4>1 DEF Approved, StoreType
    <3>2. CASE x # c
      BY <2>1, <2>3, <2>4, <3>2 DEF AsDecided, Approved, StoreType
    <3> QED
      BY <3>1, <3>2
  <2>5. ASSUME NEW x \in Candidate, outbox'[x] \in Decision
        PROVE  Approved(x, outbox[x])'
    <3>1. CASE x = c
      <4>1. outbox[c] \notin Decision
        BY <2>1, NotADecision DEF AsDecided, Approved
      <4> QED
        BY <2>1, <2>3, <2>5, <3>1, <4>1 DEF Approved, StoreType
    <3>2. CASE x # c
      BY <2>1, <2>3, <2>5, <3>2 DEF AsDecided, Approved, StoreType
    <3> QED
      BY <3>1, <3>2
  <2>6. ASSUME NEW q \in Replica, NEW e \in batch'[q]
        PROVE  Approved(e.candidate, e.decision)'
    <3>1. e \in Event /\ Approved(e.candidate, e.decision)
      BY <2>1, <2>6 DEF StoreType, AsDecided
    <3>2. e.candidate \in Candidate /\ e.decision \in Decision
      BY <3>1 DEF Event
    <3>3. e.candidate # c
      BY <2>1, <3>1, <3>2, NotADecision DEF Approved
    <3> QED
      BY <2>3, <3>1, <3>2, <3>3 DEF Approved
  <2>7. ASSUME NEW q \in Replica, call'[q].step = "publish"
        PROVE  Approved(Subject(q), call[q].decision)'
    BY <2>2, <2>3, <2>7 DEF Approved, OneReplica
  <2> QED
    BY <2>4, <2>5, <2>6, <2>7 DEF AsDecided
<1>2. CASE \A r \in Replica : ~Commit(r)
  <2>1. decision' = decision /\ confirmed' = confirmed
    BY <1>2, CommitWrites
  <2>2. \A c \in Candidate : outbox'[c] \in Decision => outbox'[c] = outbox[c]
    BY <1>2, NothingNewToPublish
  <2>3. ASSUME NEW r \in Replica, NEW e \in batch'[r]
        PROVE  Approved(e.candidate, e.decision)
    BY <1>2, <2>3, NothingNewToPublish DEF AsDecided
  <2>4. ASSUME NEW r \in Replica, call'[r].step = "publish"
        PROVE  call'[r] = call[r] /\ Subject(r)' = Subject(r)
    BY <1>2, <2>4, NothingNewToPublish DEF Subject
  <2> QED
    BY <2>1, <2>2, <2>3, <2>4 DEF AsDecided, Approved
<1> QED
  BY <1>1, <1>2

LEMMA SoloInvariance == ASSUME OneReplica PROVE Spec => []SoloInv
<1>1. Init => SoloInv
  <2> SUFFICES ASSUME Init PROVE SoloInv
    OBVIOUS
  <2>1. Deciding /\ AsDecided
    BY NotADecision DEF Init, Deciding, AsDecided, Idle
  <2> QED
    BY <2>1, InitType DEF SoloInv
<1>2. SoloInv /\ [Next]_vars => SoloInv'
  BY NextType, NextDeciding, NextAsDecided DEF SoloInv
<1> QED
  BY <1>1, <1>2, PTL DEF Spec

\* One process never replaces a stored decision by another.
LEMMA DecisionKept ==
  ASSUME OneReplica, SoloInv, [Next]_vars, NEW c \in Candidate,
         decision[c] # NoDecision
  PROVE  decision'[c] = decision[c]
<1>1. ASSUME NEW r \in Replica, Commit(r) PROVE decision'[c] = decision[c]
  BY <1>1, CommitFacts DEF SoloInv, StoreType
<1> QED
  BY <1>1, CommitWrites

\* With one Eval process a decision is final, whatever is redelivered and
\* whenever the process stops (eval_service.py, process_candidate_message).
THEOREM FinalWithOneReplica ==
  ASSUME OneReplica PROVE Spec => DecisionIsFinal
<1>1. SoloInv /\ [Next]_vars =>
        [\A c \in Candidate :
            decision[c] # NoDecision => decision'[c] = decision[c]]_vars
  BY DecisionKept
<1> QED
  BY <1>1, SoloInvariance, PTL DEF Spec, DecisionIsFinal

-----------------------------------------------------------------------------
(* What one process does is a behaviour of EvalContract: a commit is a      *)
(* Decide, a publication that adds to the stream an Announce, and every     *)
(* other step leaves what the contract speaks of alone.                     *)

LEMMA SamePolicy ==
  ASSUME NEW cand, NEW previous
  PROVE  /\ Contract!Evaluate(cand, previous) = Evaluate(cand, previous)
         /\ Contract!BandAfter(cand, previous) = BandAfter(cand, previous)
         /\ Contract!EpisodeKey(cand) = EpisodeKey(cand)
<1>1. /\ Contract!BaseVerdict(cand) = BaseVerdict(cand)
      /\ Contract!SeverityBand(cand) = SeverityBand(cand)
      /\ Contract!WeatherReason(cand.weather) = WeatherReason(cand.weather)
      /\ Contract!EpisodeKey(cand) = EpisodeKey(cand)
  BY DEF Contract!BaseVerdict, BaseVerdict, Contract!Grounding, Grounding,
     Contract!SeverityBand, SeverityBand, Contract!WeatherReason, WeatherReason,
     Contract!EpisodeKey, EpisodeKey
<1>2. Contract!BaseReason(cand) = BaseReason(cand)
  BY <1>1 DEF Contract!BaseReason, BaseReason
<1>3. Contract!Evaluate(cand, previous) = Evaluate(cand, previous)
  BY <1>1, <1>2 DEF Contract!Evaluate, Evaluate
<1> QED
  BY <1>1, <1>3 DEF Contract!BandAfter, BandAfter

LEMMA CommitDecides ==
  ASSUME SoloInv, NEW r \in Replica, Commit(r)
  PROVE  Contract!Decide(Subject(r)) /\ Subject(r) \in Candidate
<1> DEFINE c        == Subject(r)
           fact     == Fact[c]
           previous == band[EpisodeKey(fact)]
<1>1. /\ c \in Candidate /\ decision[c] = NoDecision
      /\ decision' = [decision EXCEPT ![c] = Evaluate(fact, previous)]
      /\ band' = [band EXCEPT ![EpisodeKey(fact)] = BandAfter(fact, previous)]
      /\ stream' = stream
  BY CommitFacts DEF SoloInv
<1> QED
  BY <1>1, SamePolicy DEF Contract!Decide, Contract!Undecided, NoDecision

\* What a step other than a commit can do to the stream.
LEMMA StreamStep ==
  ASSUME SoloInv, [Next]_vars, \A r \in Replica : ~Commit(r)
  PROVE  \/ stream' = stream
         \/ \E c \in Candidate :
               /\ decision[c] \in Decision /\ decision[c].verdict # "SUPPRESS"
               /\ stream' = stream \cup
                               {[candidate |-> c, decision |-> decision[c]]}
<1> DEFINE Announced ==
             \E c \in Candidate :
               /\ decision[c] \in Decision /\ decision[c].verdict # "SUPPRESS"
               /\ stream' = stream \cup
                               {[candidate |-> c, decision |-> decision[c]]}
<1> SUFFICES ASSUME stream' # stream PROVE Announced
  OBVIOUS
<1>1. ASSUME NEW e \in Event, Approved(e.candidate, e.decision),
             stream' = stream \cup {e}
      PROVE  Announced
  <2>1. /\ e.candidate \in Candidate /\ e.decision \in Decision
        /\ e = [candidate |-> e.candidate, decision |-> e.decision]
    BY DEF Event
  <2> QED
    BY <1>1, <2>1 DEF Approved
<1>2. ASSUME NEW e, Publish(e) PROVE stream' = stream \cup {e}
  BY <1>2 DEF Publish
<1>3. ASSUME NEW r \in Replica, PublishConfirmed(r) PROVE Announced
  <2> DEFINE e == [candidate |-> Subject(r), decision |-> call[r].decision]
  <2>1. Subject(r) \in Candidate /\ call[r].decision \in Decision
    BY <1>3, CallFacts DEF PublishConfirmed, SoloInv
  <2>2. e \in Event /\ Approved(e.candidate, e.decision)
    BY <1>3, <2>1 DEF PublishConfirmed, SoloInv, AsDecided, Event
  <2>3. stream' = stream \cup {e}
    BY <1>2, <1>3 DEF PublishConfirmed
  <2> QED
    BY <1>1, <2>2, <2>3
<1>4. ASSUME NEW r \in Replica, NEW e,
             DrainPublish(r, e) \/ DrainFails(r, e)
      PROVE  Announced
  <2>1. e \in batch[r] /\ Publish(e)
    BY <1>4 DEF DrainPublish, DrainFails
  <2>2. e \in Event /\ Approved(e.candidate, e.decision)
    BY <2>1 DEF SoloInv, AsDecided, StoreType
  <2> QED
    BY <1>1, <1>2, <2>1, <2>2
<1>5. ASSUME NEW c \in Candidate, ForceRedelivery(c) PROVE Announced
  <2> DEFINE e == [candidate |-> c, decision |-> confirmed[c]]
  <2>1. confirmed[c] \in Decision /\ Approved(c, confirmed[c])
    BY <1>5 DEF ForceRedelivery, SoloInv, AsDecided, StoreType
  <2>2. e \in Event /\ Approved(e.candidate, e.decision)
    BY <2>1 DEF Event
  <2>3. stream' = stream \cup {e}
    BY <1>5 DEF ForceRedelivery
  <2> QED
    BY <1>1, <2>2, <2>3
<1>6. ASSUME NEW r \in Replica, Handle(r) PROVE Announced
  BY <1>3, <1>6 DEF Handle, Deliver, Consume, Receive, CheckDecision,
     EvaluateCandidate, DeletePublished, PublicationFails, Ack, StepRaises,
     Raises, RetryOrQuarantine, PutDeadLetter, Term, ErrorPathRaises, stored
<1>7. ASSUME NEW r \in Replica, Drain(r) PROVE Announced
  BY <1>4, <1>7 DEF Drain, ListOutbox, DrainDelete, DrainAborts, stored
<1> QED
  BY <1>5, <1>6, <1>7 DEF Next, PublishCandidate, LateAck, Crash, vars, stored

\* What the services around one Eval process observe is the contract: each
\* candidate decided once, by the policy, atomically with its episode's band,
\* and published only as decided (eval_service.py; travel_eval/policy.py).
THEOREM ImplementsWithOneReplica ==
  ASSUME OneReplica PROVE Spec => ImplementsContract
<1>1. Init => Contract!Init
  BY DEF Init, Contract!Init, Contract!Undecided, NoDecision, NoBand,
     Contract!NoBand, Episode, EpisodeKey, Contract!EpisodeKey
<1>2. SoloInv /\ [Next]_vars => [Contract!Next]_Contract!vars
  <2> SUFFICES ASSUME SoloInv, [Next]_vars
               PROVE  [Contract!Next]_Contract!vars
    OBVIOUS
  <2>1. ASSUME NEW r \in Replica, Commit(r) PROVE Contract!Next
    BY <2>1, CommitDecides DEF Contract!Next
  <2>2. CASE \A r \in Replica : ~Commit(r)
    <3>1. decision' = decision /\ band' = band
      BY <2>2, CommitWrites
    <3>2. CASE stream' = stream
      BY <3>1, <3>2 DEF Contract!vars
    <3>3. ASSUME NEW c \in Candidate, decision[c] \in Decision,
                 decision[c].verdict # "SUPPRESS",
                 stream' = stream \cup
                              {[candidate |-> c, decision |-> decision[c]]}
          PROVE  Contract!Announce(c)
      BY <3>1, <3>3 DEF Contract!Announce, Decision, Verdict
    <3> QED
      BY <2>2, <3>2, <3>3, StreamStep DEF Contract!Next
  <2> QED
    BY <2>1, <2>2
<1> QED
  BY <1>1, <1>2, SoloInvariance, PTL DEF Spec, ImplementsContract, Contract!Spec
-----------------------------------------------------------------------------
(* A repeat that calls for a search.  The highest band is reached only by a *)
(* verdict that starts a search, as long as the search threshold is the     *)
(* boundary of that band: severity_band has it as a literal, the policy     *)
(* file as a setting.                                                       *)

\* An episode's highest band was put there by a search.
SearchBacked ==
    \A e \in Episode :
        band[e] = 3 => \E d \in Candidate :
                          /\ EpisodeKey(Fact[d]) = e
                          /\ decision[d].verdict = "NOTIFY_AND_SEARCH"

LEMMA TopBandSearches ==
  ASSUME SearchDelay = 90, NEW cand, cand.category \in Category,
         cand.delay \in Nat, NEW previous \in Band \cup {NoBand}
  PROVE  /\ BaseVerdict(cand) = "NOTIFY_AND_SEARCH" => SeverityBand(cand) = 3
         /\ Evaluate(cand, previous).verdict # "SUPPRESS"
              => Evaluate(cand, previous).verdict = BaseVerdict(cand)
         /\ BaseVerdict(cand) # "SUPPRESS" /\ SeverityBand(cand) = 3
              => BaseVerdict(cand) = "NOTIFY_AND_SEARCH"
         /\ BaseVerdict(cand) = "NOTIFY_AND_SEARCH"
            /\ Evaluate(cand, previous).verdict = "SUPPRESS"
              => previous = 3
<1>1. BaseVerdict(cand) = "NOTIFY_AND_SEARCH" => SeverityBand(cand) = 3
  BY DEF BaseVerdict, SeverityBand
<1>2. Evaluate(cand, previous).verdict # "SUPPRESS"
         => Evaluate(cand, previous).verdict = BaseVerdict(cand)
  BY DEF Evaluate
<1>3. BaseVerdict(cand) # "SUPPRESS" /\ SeverityBand(cand) = 3
         => BaseVerdict(cand) = "NOTIFY_AND_SEARCH"
  BY ThresholdAssumption DEF BaseVerdict, SeverityBand, Grounding
<1>4. BaseVerdict(cand) = "NOTIFY_AND_SEARCH"
      /\ Evaluate(cand, previous).verdict = "SUPPRESS" => previous = 3
  BY <1>1 DEF Evaluate, Band, NoBand
<1> QED
  BY <1>1, <1>2, <1>3, <1>4

LEMMA NextNotMasked ==
  ASSUME OneReplica, SearchDelay = 90,
         SoloInv, SearchBacked, SearchNotMasked, [Next]_vars
  PROVE  SearchBacked' /\ SearchNotMasked'
<1>1. ASSUME NEW r \in Replica, Commit(r)
      PROVE  SearchBacked' /\ SearchNotMasked'
  <2> DEFINE c        == Subject(r)
             fact     == Fact[c]
             key      == EpisodeKey(fact)
             previous == band[key]
             d        == Evaluate(fact, previous)
             b        == BandAfter(fact, previous)
  <2>1. /\ c \in Candidate /\ decision[c] = NoDecision /\ d \in Decision
        /\ previous \in Band \cup {NoBand} /\ key \in Episode
        /\ decision' = [decision EXCEPT ![c] = d]
        /\ band' = [band EXCEPT ![key] = b]
    BY <1>1, CommitFacts DEF SoloInv
  <2>2. /\ fact.category \in Category /\ fact.delay \in Nat
    BY <2>1, FactAssumption
  <2>3. /\ b = previous
           \/ (b = SeverityBand(fact) /\ d.verdict # "SUPPRESS")
        /\ d.verdict # "SUPPRESS" /\ SeverityBand(fact) = 3
             => d.verdict = "NOTIFY_AND_SEARCH"
        /\ d.verdict = "SUPPRESS" /\ BaseVerdict(fact) = "NOTIFY_AND_SEARCH"
             => previous = 3
    BY <2>1, <2>2, TopBandSearches DEF BandAfter
  <2> HIDE DEF d, b, previous
  <2>4. /\ decision'[c] = d
        /\ \A x \in Candidate \ {c} : decision'[x] = decision[x]
        /\ band'[key] = b
        /\ \A e \in Episode \ {key} : band'[e] = band[e]
    BY <2>1 DEF SoloInv, StoreType
  <2>5. ASSUME NEW x \in Candidate, decision[x].verdict = "NOTIFY_AND_SEARCH"
        PROVE  decision'[x].verdict = "NOTIFY_AND_SEARCH"
    BY <2>1, <2>4, <2>5 DEF NoDecision
  <2>6. ASSUME NEW e \in Episode, band'[e] = 3
        PROVE  \E x \in Candidate :
                  /\ EpisodeKey(Fact[x]) = e
                  /\ decision'[x].verdict = "NOTIFY_AND_SEARCH"
    <3>1. CASE band[e] = 3
      BY <2>5, <3>1 DEF SearchBacked
    <3>2. CASE band[e] # 3
      <4>1. e = key /\ d.verdict = "NOTIFY_AND_SEARCH"
        BY <2>3, <2>4, <2>6, <3>2 DEF previous
      <4> QED
        BY <2>1, <2>4, <4>1
    <3> QED
      BY <3>1, <3>2
  <2>7. ASSUME NEW x \in Candidate, decision'[x].verdict = "SUPPRESS",
               BaseVerdict(Fact[x]) = "NOTIFY_AND_SEARCH"
        PROVE  \E y \in Candidate :
                  /\ EpisodeKey(Fact[y]) = EpisodeKey(Fact[x])
                  /\ decision'[y].verdict = "NOTIFY_AND_SEARCH"
    <3>1. CASE x = c
      <4>1. band[key] = 3
        BY <2>3, <2>4, <2>7, <3>1 DEF previous
      <4>2. \E y \in Candidate :
               /\ EpisodeKey(Fact[y]) = key
               /\ decision[y].verdict = "NOTIFY_AND_SEARCH"
        BY <2>1, <4>1 DEF SearchBacked
      <4> QED
        BY <2>5, <3>1, <4>2
    <3>2. CASE x # c
      <4>1. decision[x].verdict = "SUPPRESS"
        BY <2>4, <2>7, <3>2
      <4> QED
        BY <2>5, <2>7, <4>1 DEF SearchNotMasked
    <3> QED
      BY <3>1, <3>2
  <2> QED
    BY <2>6, <2>7 DEF SearchBacked, SearchNotMasked
<1>2. CASE \A r \in Replica : ~Commit(r)
  BY <1>2, CommitWrites DEF SearchBacked, SearchNotMasked
<1> QED
  BY <1>1, <1>2

\* With one process, and a policy file whose search threshold is the boundary
\* of the highest band, no disruption that calls for a search is suppressed
\* as the repeat of one that only notified (travel_eval/policy.py,
\* severity_band and evaluate).
THEOREM SearchReached ==
  ASSUME OneReplica, SearchDelay = 90 PROVE Spec => []SearchNotMasked
<1> DEFINE Inv == SoloInv /\ SearchBacked /\ SearchNotMasked
<1>1. Init => SearchBacked /\ SearchNotMasked
  BY DEF Init, SearchBacked, SearchNotMasked, NoDecision, NoBand
<1>2. SoloInv /\ SearchBacked /\ SearchNotMasked /\ [Next]_vars
      => SearchBacked' /\ SearchNotMasked'
  BY NextNotMasked
<1> QED
  BY <1>1, <1>2, SoloInvariance, PTL DEF Spec
=============================================================================
