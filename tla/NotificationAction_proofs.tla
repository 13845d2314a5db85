------------------------ MODULE NotificationAction_proofs ------------------------
(***************************************************************************)
(* Theorems about NotificationAction for every set of decisions, messages,  *)
(* replicas, webhook requests and SMS, and every bound.                     *)
(***************************************************************************)
EXTENDS NotificationAction, FiniteSetTheorems, TLAPS

-----------------------------------------------------------------------------
(* The statuses of an SMS and their order.                                  *)

LEMMA ProgressSet ==
  Progress = {"accepted", "scheduled", "queued", "sending", "sent"}
BY DEF Progress, ProgressRank

\* Terminal statuses, and only they, rank above all progress.
LEMMA RankType ==
  ASSUME NEW status \in Progress \cup Terminal
  PROVE  /\ Rank(status) \in 0 .. 4
         /\ status \notin Terminal => Rank(status) < 4
BY ProgressSet DEF Rank, Terminal, ProgressRank

LEMMA StatusOfType ==
  ASSUME NEW rec \in Record \cup {NoRecord}
  PROVE  StatusOf(rec) \in Progress \cup Terminal
BY ProgressSet DEF StatusOf, Record, NoRecord

LEMMA ActionStatusType ==
  ASSUME NEW status \in Progress \cup Terminal
  PROVE  ActionStatus(status) \in {"delivered", "failed", "accepted"}
BY DEF ActionStatus

\* The records the consumer writes.
LEMMA WrittenRecords ==
  /\ Rejected \in Record
  /\ \A retryable \in BOOLEAN : Failure(retryable) \in Record
  /\ \A status \in Done, s \in Sid : Submitted(status, s) \in Record
BY ProgressSet DEF Rejected, Failure, Submitted, Record, Done

LEMMA NotARecord == NoRecord \notin Record /\ NoRecord.status \notin Done
BY DEF NoRecord, Record, Done

\* What the webhook writes is a record again; the provider's status in it is
\* that of the callback.
LEMMA ReplacementType ==
  ASSUME NEW h, hook[h].expected \in Record, hook[h].callback \in Callback
  PROVE  /\ Replacement(h) \in Record
         /\ Replacement(h).providerStatus = hook[h].callback.status
         /\ StatusOf(Replacement(h)) = hook[h].callback.status
<1> DEFINE status == hook[h].callback.status
           action == ActionStatus(status)
           e == hook[h].expected
           f == [e EXCEPT !.status = action]
           g == [f EXCEPT !.providerStatus = status]
<1>1. status \in Progress \cup Terminal /\ status # None
  BY NotificationAssumption DEF Callback
<1>2. action \in {"delivered", "failed", "accepted"}
  BY <1>1, ActionStatusType
<1>3. Replacement(h) = g
  BY DEF Replacement
<1> HIDE DEF status, action
<1>4. f \in Record
  BY <1>2 DEF Record, Done
<1> HIDE DEF f
<1>5. g \in Record /\ g.providerStatus = status
  BY <1>1, <1>4 DEF Record
<1> QED
  BY <1>1, <1>3, <1>5 DEF StatusOf, status

-----------------------------------------------------------------------------
(* Type correctness, with what the actors rely on: a callback holds a       *)
(* message while it is not idle, past decoding one that carries a decision, *)
(* and at the write a record; a webhook request that is about to write has  *)
(* found the delivery's decision, and that decision has a record.           *)

\* The steps between decoding and acknowledgement.
AtWork == {"decoded", "verify", "recipient", "explain", "send", "put", "ack"}

Holding(p) ==
    /\ p.step # "idle" => p.message \in Message
    /\ p.step \in AtWork => Body[p.message] \in DecisionId
    /\ p.step = "put" => p.record \in Record

CallType ==
    /\ call \in [Replica -> Call]
    /\ \A r \in Replica : Holding(call[r])

HookType ==
    /\ hook \in [Hook -> Request]
    /\ \A h \in Hook :
          /\ hook[h].step # "idle" => hook[h].callback \in Callback
          /\ hook[h].step = "write" =>
                /\ hook[h].expected \in Record
                /\ index[hook[h].callback.sid] \in DecisionId

StoreType ==
    /\ approved \subseteq DecisionId
    /\ record \in [DecisionId -> Record \cup {NoRecord}]
    /\ index \in [Sid -> DecisionId \cup {None}]
    /\ \A s \in Sid : index[s] # None => record[index[s]] \in Record

TwilioType ==
    /\ receipts \in [DecisionId -> Sid \cup {None}]
    /\ sms \in [Sid -> DecisionId \cup {None}]
    /\ carrier \in [Sid -> Progress \cup Terminal \cup {None}]
    /\ callbacks \subseteq Callback
    /\ restarts \in 0 .. MaxRestarts /\ timeouts \in 0 .. MaxTimeouts

\* A message the broker may still deliver has deliveries left.
BrokerType ==
    /\ message \in [Message -> MessageState]
    /\ deliveries \in [Message -> 0 .. MaxDeliveries]
    /\ deadLetters \subseteq DecisionId \cup {Unreadable}
    /\ faults \in 0 .. MaxFaults
    /\ \A m \in Message : message[m] \in {"unpublished", "available"}
                            => deliveries[m] < MaxDeliveries

TypeInv == CallType /\ HookType /\ StoreType /\ TwilioType /\ BrokerType

LEMMA IdleType == Idle \in Call /\ Holding(Idle)
<1>1. Idle \in Call
  BY NotificationAssumption DEF Idle, Call, Step
<1>2. Holding(Idle)
  BY DEF Idle, Holding, AtWork
<1> QED
  BY <1>1, <1>2

\* A callback that replaces its locals by well-formed ones.
LEMMA CallUpdate ==
  ASSUME CallType, NEW r \in Replica, NEW p \in Call, Holding(p),
         call' = [call EXCEPT ![r] = p]
  PROVE  CallType'
<1>1. call' \in [Replica -> Call]
  BY DEF CallType
<1>2. ASSUME NEW q \in Replica PROVE Holding(call'[q])
  <2>1. CASE q = r
    BY <2>1 DEF CallType
  <2>2. CASE q # r
    BY <2>2 DEF CallType
  <2> QED
    BY <2>1, <2>2
<1> QED
  BY <1>1, <1>2 DEF CallType, Holding

LEMMA ReturnType ==
  ASSUME CallType, NEW r \in Replica, Return(r)
  PROVE  CallType'
BY IdleType, CallUpdate DEF Return

\* What a callback holds, by the step it is at.
LEMMA CallFacts ==
  ASSUME CallType, NEW r \in Replica, call[r].step # "idle"
  PROVE  /\ call[r] \in Call
         /\ call[r].message \in Message
         /\ Subject(r) = Body[call[r].message]
         /\ Subject(r) \in DecisionId \cup {Unreadable}
         /\ call[r].step \in AtWork => Subject(r) \in DecisionId
         /\ call[r].step = "put" => call[r].record \in Record
BY NotificationAssumption DEF CallType, Holding, Subject

\* A callback that moves on, keeping its message.
LEMMA MoveType ==
  ASSUME CallType, NEW r \in Replica, call[r].step # "idle", NEW p \in Call,
         call' = [call EXCEPT ![r] = p], p.message = call[r].message,
         p.step \in AtWork => Subject(r) \in DecisionId,
         p.step = "put" => p.record \in Record
  PROVE  CallType'
<1>1. Holding(p)
  BY CallFacts DEF Holding
<1> QED
  BY <1>1, CallUpdate

LEMMA GotoType ==
  ASSUME CallType, NEW r \in Replica, NEW s \in Step \ {"put"}, Goto(r, s),
         call[r].step # "idle", s \in AtWork => Subject(r) \in DecisionId
  PROVE  CallType'
<1> DEFINE p == [call[r] EXCEPT !.step = s]
<1>1. p \in Call /\ p.step = s /\ p.message = call[r].message
  BY CallFacts DEF Call
<1>2. call' = [call EXCEPT ![r] = p]
  BY DEF Goto
<1> HIDE DEF p
<1> QED
  BY <1>1, <1>2, MoveType

\* Settlement in the try block, which sets the callback's guard.
LEMMA SettleType ==
  ASSUME CallType, NEW r \in Replica,
         NEW s \in {"ack", "failed", "quarantine"}, Settle(r, s),
         call[r].step \in AtWork
  PROVE  CallType'
<1> DEFINE g == s # "ack"
           d == [call[r] EXCEPT !.step = s]
           p == [d EXCEPT !.guarded = g]
<1>2. call[r] \in Call /\ call[r].step # "idle" /\ Subject(r) \in DecisionId
  BY CallFacts DEF AtWork
<1>3. d \in Call /\ d.step = s /\ d.message = call[r].message
  BY <1>2 DEF Call, Step
<1>4. g \in BOOLEAN
  OBVIOUS
<1>5. call' = [call EXCEPT ![r] = p]
  BY DEF Settle
<1> HIDE DEF d, g
<1>6. p \in Call /\ p.step = s /\ p.message = call[r].message
  BY <1>3, <1>4 DEF Call
<1> HIDE DEF p
<1> QED
  BY <1>2, <1>5, <1>6, MoveType

\* The record a callback carries to put_notification.
LEMMA HoldType ==
  ASSUME CallType, NEW r \in Replica, NEW rec \in Record, Hold(r, "put", rec),
         call[r].step \in AtWork
  PROVE  CallType'
<1> DEFINE d == [call[r] EXCEPT !.step = "put"]
           p == [d EXCEPT !.record = rec]
<1>2. call[r] \in Call /\ call[r].step # "idle" /\ Subject(r) \in DecisionId
  BY CallFacts DEF AtWork
<1>3. d \in Call /\ d.step = "put" /\ d.message = call[r].message
  BY <1>2 DEF Call, Step
<1>5. call' = [call EXCEPT ![r] = p]
  BY DEF Hold
<1> HIDE DEF d
<1>6. p \in Call /\ p.step = "put" /\ p.message = call[r].message /\ p.record = rec
  BY <1>3 DEF Call
<1> HIDE DEF p
<1> QED
  BY <1>2, <1>5, <1>6, MoveType

\* The locals a callback starts with.
LEMMA ReceivedCall ==
  ASSUME BrokerType, NEW r \in Replica, NEW m \in Message, Receive(r, m)
  PROVE  \E p \in Call : /\ call' = [call EXCEPT ![r] = p]
                         /\ p.step \in {"decoded", "quarantine"}
                         /\ Holding(p)
<1> DEFINE s == IF Body[m] = Unreadable THEN "quarantine" ELSE "decoded"
           p == [Idle EXCEPT !.step = s, !.message = m,
                             !.attempt = deliveries[m] + 1]
<1>1. s \in Step /\ s \in {"decoded", "quarantine"}
  BY DEF Step
<1>2. s = "decoded" => Body[m] \in DecisionId
  BY NotificationAssumption
<1>3. deliveries[m] + 1 \in 0 .. MaxDeliveries
  BY NotificationAssumption DEF Receive, BrokerType
<1>4. call' = [call EXCEPT ![r] = p]
  BY DEF Receive
<1> HIDE DEF s
<1>5. p \in Call /\ p.step = s /\ p.message = m
  BY <1>1, <1>3, IdleType DEF Call
<1> HIDE DEF p
<1>6. Holding(p)
  BY <1>1, <1>2, <1>5 DEF Holding, AtWork
<1> QED
  BY <1>1, <1>4, <1>5, <1>6

LEMMA FaultType ==
  ASSUME faults \in 0 .. MaxFaults, Fault
  PROVE  faults' \in 0 .. MaxFaults
BY NotificationAssumption DEF Fault

\* A request the webhook has not received, or has answered.
LEMMA EndRequestType ==
  ASSUME HookType, NEW h \in Hook, EndRequest(h), UNCHANGED index
  PROVE  HookType'
<1>1. NoRequest \in Request /\ NoRequest.step = "idle"
  BY NotificationAssumption DEF NoRequest, Request
<1>2. hook' = [hook EXCEPT ![h] = NoRequest]
  BY DEF EndRequest
<1>3. hook' \in [Hook -> Request]
  BY <1>1, <1>2 DEF HookType
<1> QED
  BY <1>1, <1>2, <1>3 DEF HookType

\* A request that goes on.
LEMMA RequestUpdate ==
  ASSUME HookType, NEW h \in Hook, NEW q \in Request,
         hook' = [hook EXCEPT ![h] = q], UNCHANGED index,
         q.callback \in Callback,
         q.step = "write" => /\ q.expected \in Record
                             /\ index[q.callback.sid] \in DecisionId
  PROVE  HookType'
<1>1. hook' \in [Hook -> Request]
  BY DEF HookType
<1>2. ASSUME NEW k \in Hook
      PROVE  /\ hook'[k].step # "idle" => hook'[k].callback \in Callback
             /\ hook'[k].step = "write" =>
                   /\ hook'[k].expected \in Record
                   /\ index[hook'[k].callback.sid] \in DecisionId
  <2>1. CASE k = h
    BY <2>1 DEF HookType
  <2>2. CASE k # h
    BY <2>2 DEF HookType
  <2> QED
    BY <2>1, <2>2
<1> QED
  BY <1>1, <1>2 DEF HookType

LEMMA InitType == Init => TypeInv
<1> SUFFICES ASSUME Init PROVE TypeInv
  OBVIOUS
<1>1. BrokerType /\ StoreType /\ TwilioType
  BY NotificationAssumption
     DEF Init, BrokerType, StoreType, TwilioType, MessageState
<1>2. CallType
  BY IdleType DEF Init, CallType
<1>3. HookType
  BY NotificationAssumption DEF Init, HookType, NoRequest, Request
<1> QED
  BY <1>1, <1>2, <1>3 DEF TypeInv
\* Twilio creates an SMS, and keeps its status.
LEMMA CreateType ==
  ASSUME TwilioType, NEW d \in DecisionId, NEW s, CreateSms(d, s)
  PROVE  /\ s \in Sid
         /\ sms' \in [Sid -> DecisionId \cup {None}]
         /\ carrier' \in [Sid -> Progress \cup Terminal \cup {None}]
BY ProgressSet DEF CreateSms, NewSid, TwilioType

\* A step that leaves a group of variables alone keeps its type.
LEMMA Unchanged ==
  /\ CallType /\ UNCHANGED call => CallType'
  /\ HookType /\ UNCHANGED <<hook, index>> => HookType'
  /\ StoreType /\ UNCHANGED storage => StoreType'
  /\ TwilioType /\ UNCHANGED <<provider, twilio>> => TwilioType'
  /\ BrokerType /\ UNCHANGED transport /\ (UNCHANGED faults \/ Fault)
        => BrokerType'
<1>1. CallType /\ UNCHANGED call => CallType'
  BY DEF CallType, Holding
<1>2. HookType /\ UNCHANGED <<hook, index>> => HookType'
  BY DEF HookType
<1>3. StoreType /\ UNCHANGED storage => StoreType'
  BY DEF StoreType, storage
<1>4. TwilioType /\ UNCHANGED <<provider, twilio>> => TwilioType'
  BY DEF TwilioType, provider, twilio
<1>5. BrokerType /\ UNCHANGED transport /\ (UNCHANGED faults \/ Fault)
        => BrokerType'
  BY FaultType DEF BrokerType, transport
<1> QED
  BY <1>1, <1>2, <1>3, <1>4, <1>5

\* The broker's side of a delivery.
LEMMA DeliverType ==
  ASSUME TypeInv, NEW r \in Replica, Deliver(r)
  PROVE  TypeInv'
<1> USE NotificationAssumption DEF TypeInv
<1>1. HookType' /\ StoreType' /\ TwilioType'
  BY Unchanged DEF Deliver, storage
<1>2. ASSUME NEW m \in Message, Receive(r, m)
      PROVE  CallType' /\ BrokerType'
  <2>1. CallType'
    BY <1>2, ReceivedCall, CallUpdate
  <2>2. BrokerType'
    BY <1>2 DEF Receive, BrokerType, MessageState
  <2> QED
    BY <2>1, <2>2
<1>3. ASSUME Ack(r)
      PROVE  CallType' /\ BrokerType'
  <2>1. CallType'
    BY <1>3, GotoType, ReturnType DEF Ack, Step, AtWork
  <2>2. BrokerType'
    BY <1>3, CallFacts, FaultType DEF Ack, Settled, BrokerType, MessageState
  <2> QED
    BY <2>1, <2>2
<1>4. ASSUME RetryOrQuarantine(r)
      PROVE  CallType' /\ BrokerType'
  <2>1. CallType'
    BY <1>4, GotoType, ReturnType DEF RetryOrQuarantine, Step, AtWork
  <2>2. BrokerType'
    BY <1>4, CallFacts DEF RetryOrQuarantine, Nak, Requeued, BrokerType,
       MessageState
  <2> QED
    BY <2>1, <2>2
<1>5. ASSUME PutDeadLetter(r)
      PROVE  CallType' /\ BrokerType'
  <2>1. CallType'
    BY <1>5, GotoType DEF PutDeadLetter, Step, AtWork
  <2>2. BrokerType'
    BY <1>5, CallFacts DEF PutDeadLetter, BrokerType
  <2> QED
    BY <2>1, <2>2
<1>6. ASSUME Term(r)
      PROVE  CallType' /\ BrokerType'
  <2>1. CallType'
    BY <1>6, ReturnType DEF Term
  <2>2. BrokerType'
    BY <1>6, CallFacts DEF Term, Settled, BrokerType, MessageState
  <2> QED
    BY <2>1, <2>2
<1>7. ASSUME ErrorPathRaises(r)
      PROVE  CallType' /\ BrokerType'
  <2>1. CallType'
    BY <1>7, ReturnType DEF ErrorPathRaises
  <2>2. BrokerType'
    BY <1>7, Unchanged DEF ErrorPathRaises, transport
  <2> QED
    BY <2>1, <2>2
<1>8. ASSUME GuardedSettlementRaises(r)
      PROVE  CallType' /\ BrokerType'
  <2>1. BrokerType'
    BY <1>8, Unchanged DEF GuardedSettlementRaises, transport
  <2>2. call[r].step # "idle" /\ call[r] \in Call
    BY <1>8, CallFacts DEF GuardedSettlementRaises
  <2> DEFINE d == [call[r] EXCEPT !.step = "failed"]
             p == [d EXCEPT !.guarded = FALSE]
  <2>3. d \in Call /\ d.step = "failed" /\ d.message = call[r].message
    BY <2>2 DEF Call, Step
  <2>4. call' = [call EXCEPT ![r] = p]
    BY <1>8 DEF GuardedSettlementRaises
  <2> HIDE DEF d
  <2>5. p \in Call /\ p.step = "failed" /\ p.message = call[r].message
    BY <2>3 DEF Call
  <2> HIDE DEF p
  <2>6. CallType'
    BY <2>2, <2>4, <2>5, MoveType DEF AtWork
  <2> QED
    BY <2>1, <2>6
<1> QED
  BY <1>1, <1>2, <1>3, <1>4, <1>5, <1>6, <1>7, <1>8 DEF Deliver, Consume

\* The steps of process_confirmed_event between decoding and settlement.
LEMMA ConsumerType ==
  ASSUME TypeInv, NEW r \in Replica, Handle(r), ~Deliver(r)
  PROVE  TypeInv'
<1> USE NotificationAssumption DEF TypeInv
<1>1. CASE StepRaises(r)
  <2>1. CallType'
    BY <1>1, GotoType DEF StepRaises, Raises, Step, AtWork
  <2>2. HookType' /\ StoreType' /\ TwilioType' /\ BrokerType'
    BY <1>1, Unchanged DEF StepRaises, Raises, transport, storage
  <2> QED
    BY <2>1, <2>2
<1>2. CASE LookUpRecord(r)
  <2>1. CallType'
    BY <1>2, CallFacts, GotoType DEF LookUpRecord, Step, AtWork
  <2>2. HookType' /\ StoreType' /\ TwilioType' /\ BrokerType'
    BY <1>2, Unchanged DEF LookUpRecord, storage
  <2> QED
    BY <2>1, <2>2
<1>3. CASE VerifyDecision(r)
  <2>1. HookType' /\ StoreType' /\ TwilioType' /\ BrokerType'
    BY <1>3, Unchanged DEF VerifyDecision, storage
  <2>2. call[r].step \in AtWork /\ call[r].step # "idle"
    BY <1>3 DEF VerifyDecision, AtWork
  <2>3. CallType'
    <3>1. CASE Subject(r) \in approved
      BY <1>3, <2>2, <3>1, CallFacts, GotoType DEF VerifyDecision, Step
    <3>2. CASE Subject(r) \notin approved
      BY <1>3, <2>2, <3>2, SettleType DEF VerifyDecision
    <3> QED
      BY <3>1, <3>2
  <2> QED
    BY <2>1, <2>3
<1>4. CASE ResolveRecipient(r)
  <2>1. HookType' /\ StoreType' /\ TwilioType' /\ BrokerType'
    BY <1>4, Unchanged DEF ResolveRecipient, storage
  <2>2. call[r].step \in AtWork /\ call[r].step # "idle"
    BY <1>4 DEF ResolveRecipient, AtWork
  <2>3. CallType'
    BY <1>4, <2>2, CallFacts, GotoType, HoldType, WrittenRecords
       DEF ResolveRecipient, Step
  <2> QED
    BY <2>1, <2>3
<1>5. CASE ExplainDecision(r)
  <2>1. CallType'
    BY <1>5, CallFacts, GotoType DEF ExplainDecision, Step, AtWork
  <2>2. HookType' /\ StoreType' /\ TwilioType' /\ BrokerType'
    BY <1>5, Unchanged DEF ExplainDecision, storage
  <2> QED
    BY <2>1, <2>2
<1>6. CASE Send(r)
  <2>1. call[r].step \in AtWork /\ Subject(r) \in DecisionId
    BY <1>6, CallFacts DEF Send, AtWork
  <2>2. HookType' /\ StoreType' /\ BrokerType'
    BY <1>6, Unchanged DEF Send, storage
  <2>3. CASE receipts[Subject(r)] # None
    <3>1. receipts[Subject(r)] \in Sid
      BY <2>1, <2>3 DEF TwilioType
    <3>2. TwilioType'
      BY <1>6, <2>3 DEF Send, TwilioType
    <3>3. \E rec \in Record : Hold(r, "put", rec)
      BY <1>6, <2>3, <3>1, WrittenRecords DEF Send, Done
    <3>4. CallType'
      BY <2>1, <3>3, HoldType
    <3> QED
      BY <2>2, <3>2, <3>4
  <2>4. CASE receipts[Subject(r)] = None
    <3>1. PICK s \in Sid :
             /\ CreateSms(Subject(r), s)
             /\ receipts' = [receipts EXCEPT ![Subject(r)] = s]
             /\ \/ Hold(r, "put", Submitted("accepted", s))
                \/ Hold(r, "put", Failure(TRUE))
      BY <1>6, <2>4 DEF Send
    <3>2. TwilioType'
      BY <1>6, <2>1, <3>1, CreateType DEF Send, TwilioType
    <3>3. \E rec \in Record : Hold(r, "put", rec)
      BY <3>1, WrittenRecords DEF Done
    <3>4. CallType'
      BY <2>1, <3>3, HoldType
    <3> QED
      BY <2>2, <3>2, <3>4
  <2> QED
    BY <2>3, <2>4
<1>7. CASE SendFails(r)
  <2>1. \E rec \in Record : Hold(r, "put", rec)
    BY <1>7, WrittenRecords DEF SendFails
  <2>2. CallType'
    BY <1>7, <2>1, HoldType DEF SendFails, AtWork
  <2>3. HookType' /\ StoreType' /\ TwilioType' /\ BrokerType'
    BY <1>7, Unchanged DEF SendFails, storage
  <2> QED
    BY <2>2, <2>3
<1>8. CASE SendTimesOut(r)
  <2>1. call[r].step \in AtWork /\ Subject(r) \in DecisionId
    BY <1>8, CallFacts DEF SendTimesOut, AtWork
  <2>2. \E rec \in Record : Hold(r, "put", rec)
    BY <1>8, WrittenRecords DEF SendTimesOut
  <2>3. CallType'
    BY <2>1, <2>2, HoldType
  <2>4. /\ sms' \in [Sid -> DecisionId \cup {None}]
        /\ carrier' \in [Sid -> Progress \cup Terminal \cup {None}]
    BY <1>8, <2>1, CreateType DEF SendTimesOut, TwilioType
  <2>5. TwilioType'
    BY <1>8, <2>4 DEF SendTimesOut, TwilioType
  <2>6. HookType' /\ StoreType' /\ BrokerType'
    BY <1>8, Unchanged DEF SendTimesOut, storage
  <2> QED
    BY <2>3, <2>5, <2>6
<1>9. CASE PutNotification(r)
  <2> DEFINE d == Subject(r)
             rec == call[r].record
  <2>1. d \in DecisionId /\ rec \in Record /\ rec.sid \in Sid \cup {None}
    BY <1>9, CallFacts DEF PutNotification, AtWork, Record
  <2>2. /\ record' = [record EXCEPT ![d] = rec]
        /\ index' = IF rec.sid = None THEN index
                    ELSE [index EXCEPT ![rec.sid] = d]
    BY <1>9 DEF PutNotification
  <2>3. call[r].step \in AtWork /\ call[r].step # "idle"
    BY <1>9 DEF PutNotification, AtWork
  <2>4. \E s \in {"ack", "failed", "quarantine"} :
           Settle(r, s) \/ Goto(r, "failed")
    <3>1. Settlement(rec) \in {"ack", "failed", "quarantine"}
      BY DEF Settlement
    <3> QED
      BY <1>9, <3>1 DEF PutNotification
  <2> HIDE DEF d, rec
  <2>5. StoreType'
    <3>1. approved' \subseteq DecisionId
      BY <1>9 DEF PutNotification, StoreType
    <3>2. /\ record' \in [DecisionId -> Record \cup {NoRecord}]
          /\ record'[d] = rec
          /\ \A c \in DecisionId : record[c] \in Record => record'[c] \in Record
      BY <2>1, <2>2 DEF StoreType
    <3>3. /\ index' \in [Sid -> DecisionId \cup {None}]
          /\ \A s \in Sid : index'[s] = index[s] \/ index'[s] = d
      BY <2>1, <2>2 DEF StoreType
    <3>4. ASSUME NEW s \in Sid, index'[s] # None
          PROVE  record'[index'[s]] \in Record
      BY <2>1, <3>2, <3>3, <3>4 DEF StoreType
    <3> QED
      BY <3>1, <3>2, <3>3, <3>4 DEF StoreType
  <2>6. \A s \in Sid : index[s] \in DecisionId => index'[s] \in DecisionId
    BY <2>1, <2>2 DEF StoreType
  <2>7. HookType'
    BY <1>9, <2>6 DEF PutNotification, HookType, Callback
  <2>8. CallType'
    BY <2>3, <2>4, SettleType, GotoType DEF Step, AtWork
  <2>9. TwilioType' /\ BrokerType'
    BY <1>9, Unchanged DEF PutNotification
  <2> QED
    BY <2>5, <2>7, <2>8, <2>9
<1> QED
  BY <1>1, <1>2, <1>3, <1>4, <1>5, <1>6, <1>7, <1>8, <1>9 DEF Handle

\* The requests of the webhook.
LEMMA WebhookType ==
  ASSUME TypeInv, NEW h \in Hook, Reconcile(h)
  PROVE  TypeInv'
<1> USE NotificationAssumption DEF TypeInv
<1>1. ASSUME NEW cb \in callbacks, ReceiveCallback(h, cb)
      PROVE  TypeInv'
  <2> DEFINE d == [NoRequest EXCEPT !.step = "read"]
             q == [d EXCEPT !.callback = cb]
  <2>1. cb \in Callback
    BY DEF TwilioType
  <2>2. d \in Request /\ d.step = "read"
    BY DEF NoRequest, Request
  <2>3. hook' = [hook EXCEPT ![h] = q]
    BY <1>1 DEF ReceiveCallback
  <2> HIDE DEF d
  <2>4. q \in Request /\ q.step = "read" /\ q.callback = cb
    BY <2>1, <2>2 DEF Request
  <2> HIDE DEF q
  <2>5. HookType'
    BY <1>1, <2>1, <2>3, <2>4, RequestUpdate DEF ReceiveCallback, storage
  <2>6. TwilioType'
    BY <1>1 DEF ReceiveCallback, TwilioType, provider
  <2>7. CallType' /\ StoreType' /\ BrokerType'
    BY <1>1, Unchanged DEF ReceiveCallback
  <2> QED
    BY <2>5, <2>6, <2>7
<1>2. CASE ReadRecord(h)
  <2> DEFINE c == hook[h].callback
             d == index[c.sid]
  <2>1. hook[h] \in Request /\ c \in Callback /\ d \in DecisionId \cup {None}
    BY <1>2 DEF ReadRecord, HookType, StoreType, Callback
  <2>2. CASE EndRequest(h)
    BY <1>2, <2>2, EndRequestType, Unchanged DEF ReadRecord, storage
  <2>3. CASE ~EndRequest(h)
    <3> DEFINE p == [hook[h] EXCEPT !.step = "write"]
               q == [p EXCEPT !.expected = record[d]]
    <3>1. d # None /\ hook' = [hook EXCEPT ![h] = q]
      BY <1>2, <2>3 DEF ReadRecord
    <3>2. d \in DecisionId /\ record[d] \in Record
      BY <2>1, <3>1 DEF StoreType, Callback
    <3>3. p \in Request /\ p.step = "write" /\ p.callback = c
      BY <2>1 DEF Request
    <3> HIDE DEF p
    <3>4. /\ q \in Request /\ q.step = "write" /\ q.callback = c
          /\ q.expected = record[d]
      BY <3>2, <3>3 DEF Request
    <3> HIDE DEF q
    <3>5. HookType'
      BY <1>2, <2>1, <3>1, <3>2, <3>4, RequestUpdate DEF ReadRecord, storage
    <3> QED
      BY <1>2, <3>5, Unchanged DEF ReadRecord
  <2> QED
    BY <2>2, <2>3
<1>3. CASE CompareAndSet(h)
  <2> DEFINE d == index[hook[h].callback.sid]
  <2>1. /\ hook[h] \in Request /\ hook[h].callback \in Callback
        /\ d \in DecisionId /\ hook[h].expected \in Record
        /\ Replacement(h) \in Record
    BY <1>3, ReplacementType DEF CompareAndSet, HookType
  <2>2. CallType' /\ TwilioType' /\ BrokerType' /\ UNCHANGED index
    BY <1>3, Unchanged DEF CompareAndSet
  <2>3. StoreType'
    BY <1>3, <2>1 DEF CompareAndSet, StoreType
  <2>4. CASE EndRequest(h)
    BY <2>2, <2>3, <2>4, EndRequestType
  <2>5. CASE ~EndRequest(h)
    <3> DEFINE n == hook[h].attempts + 1
               p == [hook[h] EXCEPT !.step = "read"]
               q == [p EXCEPT !.attempts = n]
    <3>1. n < MaxAttempts /\ hook' = [hook EXCEPT ![h] = q]
      BY <1>3, <2>5 DEF CompareAndSet
    <3>2. n \in 0 .. MaxAttempts
      BY <2>1, <3>1 DEF Request
    <3>3. p \in Request /\ p.step = "read" /\ p.callback = hook[h].callback
      BY <2>1 DEF Request
    <3> HIDE DEF n, p
    <3>4. q \in Request /\ q.step = "read" /\ q.callback = hook[h].callback
      BY <3>2, <3>3 DEF Request
    <3> HIDE DEF q
    <3>5. HookType'
      BY <2>1, <2>2, <3>1, <3>4, RequestUpdate
    <3> QED
      BY <2>2, <2>3, <3>5
  <2> QED
    BY <2>4, <2>5
<1>4. CASE RequestFails(h)
  BY <1>4, EndRequestType, Unchanged DEF RequestFails, storage
<1> QED
  BY <1>1, <1>2, <1>3, <1>4 DEF Reconcile

LEMMA NextType == TypeInv /\ [Next]_vars => TypeInv'
<1> SUFFICES ASSUME TypeInv, [Next]_vars PROVE TypeInv'
  OBVIOUS
<1> USE NotificationAssumption DEF TypeInv
<1>1. ASSUME NEW m \in Message, PublishConfirmed(m)
      PROVE  TypeInv'
  <2>1. BrokerType'
    BY <1>1 DEF PublishConfirmed, Offer, BrokerType, MessageState
  <2> QED
    BY <1>1, <2>1, Unchanged DEF PublishConfirmed, Offer, storage
<1>2. ASSUME NEW m \in Message, LateAck(m)
      PROVE  TypeInv'
  <2>1. BrokerType'
    BY <1>2, FaultType DEF LateAck, AckWaitExpires, Requeued, BrokerType,
       MessageState
  <2> QED
    BY <1>2, <2>1, Unchanged DEF LateAck, AckWaitExpires, storage
<1>3. ASSUME NEW d \in DecisionId, Revoke(d)
      PROVE  TypeInv'
  <2>1. StoreType'
    BY <1>3 DEF Revoke, StoreType
  <2> QED
    BY <1>3, <2>1, Unchanged DEF Revoke
<1>4. ASSUME NEW r \in Replica, Crash(r)
      PROVE  TypeInv'
  BY <1>4, ReturnType, Unchanged DEF Crash, storage
<1>5. ASSUME NEW s \in Sid, NEW status \in CarrierStatus, Report(s, status)
      PROVE  TypeInv'
  <2>1. [sid |-> s, status |-> status] \in Callback
    BY DEF Callback
  <2>2. TwilioType'
    BY <1>5, <2>1 DEF Report, TwilioType, provider
  <2> QED
    BY <1>5, <2>2, Unchanged DEF Report, storage
<1>6. CASE RestartMcp
  <2>1. TwilioType'
    BY <1>6 DEF RestartMcp, TwilioType, twilio
  <2> QED
    BY <1>6, <2>1, Unchanged DEF RestartMcp, storage
<1>7. CASE UNCHANGED vars
  BY <1>7, Unchanged DEF vars, storage
<1> QED
  BY <1>1, <1>2, <1>3, <1>4, <1>5, <1>6, <1>7, DeliverType, ConsumerType,
     WebhookType DEF Next

\* Every variable of the notification service, the webhook and Twilio stays in
\* its type: for every number of decisions, messages, replicas and requests.
THEOREM NotificationTypeCorrect == Spec => []TypeOK
<1>1. TypeInv => TypeOK
  BY DEF TypeInv, CallType, HookType, StoreType, TwilioType, BrokerType, TypeOK
<1> QED
  BY <1>1, InitType, NextType, PTL DEF Spec
-----------------------------------------------------------------------------
(* What a step can do to the callbacks, the SMS and the stores.             *)

\* Only a replica's own step changes its callback.
LEMMA OwnCall ==
  ASSUME CallType, [Next]_vars, NEW r \in Replica, call'[r] # call[r]
  PROVE  Handle(r) \/ Crash(r)
<1>1. ASSUME NEW q \in Replica, Handle(q) \/ Crash(q), q # r
      PROVE  call'[r] = call[r]
  BY <1>1 DEF Handle, Deliver, Consume, Receive, Ack, RetryOrQuarantine,
     PutDeadLetter, Term, ErrorPathRaises, GuardedSettlementRaises, StepRaises,
     Raises, LookUpRecord, VerifyDecision, ResolveRecipient, ExplainDecision,
     Send, SendFails, SendTimesOut, PutNotification, Crash, Return, Goto, Settle,
     Hold, CallType
<1>2. \E q \in Replica : Handle(q) \/ Crash(q)
  BY DEF Next, PublishConfirmed, Offer, LateAck, AckWaitExpires, Revoke,
     Reconcile, ReceiveCallback, ReadRecord, CompareAndSet, RequestFails, Report,
     RestartMcp, vars
<1> QED
  BY <1>1, <1>2

\* How a callback comes to the steps that write or settle.
LEMMA NewStep ==
  ASSUME TypeInv, NEW r \in Replica, Handle(r) \/ Crash(r), call'[r] # call[r],
         call'[r].step \in {"put", "ack", "term"}
  PROVE  /\ Subject(r)' = Subject(r)
         /\ call'[r].step = "put" => \/ ResolveRecipient(r) \/ Send(r)
                                     \/ SendFails(r) \/ SendTimesOut(r)
         /\ call'[r].step = "ack" => LookUpRecord(r) \/ PutNotification(r)
         /\ call'[r].step = "term" => PutDeadLetter(r)
<1> USE DEF TypeInv, CallType
<1>1. ~Crash(r) /\ ~(\E m \in Message : Receive(r, m)) /\ ~Ack(r) /\ ~Term(r)
  <2>1. ~Crash(r) /\ ~Term(r)
    BY DEF Crash, Term, Return, Idle
  <2>2. ASSUME NEW m \in Message, Receive(r, m) PROVE FALSE
    BY <2>2, ReceivedCall
  <2>3. ~Ack(r)
    BY DEF Ack, Return, Goto, Idle, Call
  <2> QED
    BY <2>1, <2>2, <2>3
<1>2. ~RetryOrQuarantine(r) /\ ~ErrorPathRaises(r) /\ ~GuardedSettlementRaises(r)
      /\ ~StepRaises(r)
  BY DEF RetryOrQuarantine, ErrorPathRaises, GuardedSettlementRaises,
     StepRaises, Raises, Return, Goto, Idle, Call
<1>3. CASE PutDeadLetter(r)
  BY <1>3 DEF PutDeadLetter, Goto, Call, Subject
<1>4. CASE LookUpRecord(r)
  BY <1>4 DEF LookUpRecord, Goto, Call, Subject
<1>5. CASE VerifyDecision(r)
  BY <1>5 DEF VerifyDecision, Goto, Settle, Call, Subject
<1>6. CASE ResolveRecipient(r) \/ ExplainDecision(r)
  BY <1>6 DEF ResolveRecipient, ExplainDecision, Goto, Hold, Call, Subject
<1>7. ASSUME NEW rec, Hold(r, "put", rec)
      PROVE  call'[r].step = "put" /\ Subject(r)' = Subject(r)
  <2>1. call'[r] = [call[r] EXCEPT !.step = "put", !.record = rec]
    BY <1>7 DEF Hold
  <2>2. call[r] \in Call
    OBVIOUS
  <2>3. call'[r].step = "put" /\ call'[r].message = call[r].message
    BY <2>1, <2>2 DEF Call
  <2> QED
    BY <2>3 DEF Subject
<1>8. CASE Send(r) \/ SendFails(r) \/ SendTimesOut(r)
  <2>1. \E rec : Hold(r, "put", rec)
    <3>1. CASE Send(r)
      BY <3>1 DEF Send
    <3>2. CASE SendFails(r) \/ SendTimesOut(r)
      BY <3>2 DEF SendFails, SendTimesOut
    <3> QED
      BY <1>8, <3>1, <3>2
  <2> QED
    BY <1>7, <1>8, <2>1
<1>9. CASE PutNotification(r)
  BY <1>9 DEF PutNotification, Settle, Goto, Settlement, Call, Subject
<1> QED
  BY <1>1, <1>2, <1>3, <1>4, <1>5, <1>6, <1>7, <1>8, <1>9
     DEF Handle, Deliver, Consume

\* Twilio's SMS are there to stay; a new one is created by a submission.
LEMMA SmsLasts ==
  ASSUME TypeInv, [Next]_vars
  PROVE  /\ \A s \in Sid : sms[s] # None => sms'[s] = sms[s]
         /\ sms' = sms \/ \E r \in Replica, s \in Sid :
                             /\ Send(r) \/ SendTimesOut(r)
                             /\ CreateSms(Subject(r), s)
<1>1. sms' = sms \/ \E r \in Replica : Send(r) \/ SendTimesOut(r)
  BY DEF Next, Handle, Deliver, StepRaises, LookUpRecord, VerifyDecision,
     ResolveRecipient, ExplainDecision, SendFails, PutNotification, Crash,
     PublishConfirmed, LateAck, Revoke, Reconcile, ReceiveCallback, ReadRecord,
     CompareAndSet, RequestFails, Report, RestartMcp, vars, provider
<1>2. ASSUME NEW r \in Replica, Send(r) \/ SendTimesOut(r)
      PROVE  sms' = sms \/ \E s \in Sid : CreateSms(Subject(r), s)
  BY <1>2 DEF Send, SendTimesOut
<1>3. ASSUME NEW d, NEW s \in Sid, CreateSms(d, s)
      PROVE  \A t \in Sid : sms[t] # None => sms'[t] = sms[t]
  BY <1>3 DEF CreateSms, NewSid, TypeInv, TwilioType
<1> QED
  BY <1>1, <1>2, <1>3

\* Receipts are issued by a submission, and lost with the MCP's process.
LEMMA ReceiptsChange ==
  ASSUME TypeInv, [Next]_vars
  PROVE  \/ receipts' = receipts
         \/ RestartMcp
         \/ \E r \in Replica, s \in Sid :
               /\ Send(r) /\ CreateSms(Subject(r), s)
               /\ receipts[Subject(r)] = None
               /\ receipts' = [receipts EXCEPT ![Subject(r)] = s]
<1>1. \/ receipts' = receipts \/ RestartMcp
      \/ \E r \in Replica : Send(r)
  BY DEF Next, Handle, Deliver, StepRaises, LookUpRecord, VerifyDecision,
     ResolveRecipient, ExplainDecision, SendFails, SendTimesOut,
     PutNotification, Crash, PublishConfirmed, LateAck, Revoke, Reconcile,
     ReceiveCallback, ReadRecord, CompareAndSet, RequestFails, Report, vars,
     provider
<1> QED
  BY <1>1 DEF Send

\* A record is written by the consumer or by a request of the webhook.
LEMMA RecordChange ==
  ASSUME TypeInv, [Next]_vars, NEW d \in DecisionId, record'[d] # record[d]
  PROVE  \/ \E r \in Replica : /\ PutNotification(r) /\ Subject(r) = d
                               /\ record'[d] = call[r].record
         \/ \E h \in Hook : /\ CompareAndSet(h)
                            /\ hook[h].step = "write"
                            /\ index[hook[h].callback.sid] = d
                            /\ record[d] = hook[h].expected
                            /\ record'[d] = Replacement(h)
<1>1. \/ \E r \in Replica : PutNotification(r)
      \/ \E h \in Hook : CompareAndSet(h)
  BY DEF Next, Handle, Deliver, StepRaises, LookUpRecord, VerifyDecision,
     ResolveRecipient, ExplainDecision, Send, SendFails, SendTimesOut, Crash,
     PublishConfirmed, LateAck, Revoke, Reconcile, ReceiveCallback, ReadRecord,
     RequestFails, Report, RestartMcp, vars, storage
<1>2. ASSUME NEW r \in Replica, PutNotification(r)
      PROVE  Subject(r) = d /\ record'[d] = call[r].record
  BY <1>2 DEF PutNotification, TypeInv, StoreType
<1>3. ASSUME NEW h \in Hook, CompareAndSet(h)
      PROVE  /\ hook[h].step = "write"
             /\ index[hook[h].callback.sid] = d
             /\ record[d] = hook[h].expected
             /\ record'[d] = Replacement(h)
  BY <1>3 DEF CompareAndSet, TypeInv, StoreType
<1> QED
  BY <1>1, <1>2, <1>3

-----------------------------------------------------------------------------
(* A settled message has its result.  The strengthening links the stores:   *)
(* what is indexed, receipted or about to be recorded under a decision is   *)
(* an SMS that was created for it; a done record is one that callbacks can  *)
(* find, whoever wrote it, the consumer or the webhook.                     *)

\* An SMS was created for the decision and is indexed.
Indexed(d) == \E s \in Sid : sms[s] = d /\ index[s] = d

Linked ==
    /\ \A s \in Sid : index[s] # None => sms[s] = index[s]
    /\ \A d \in DecisionId : receipts[d] # None => sms[receipts[d]] = d
    /\ \A r \in Replica : call[r].step = "put" =>
          /\ call[r].record.sid # None => sms[call[r].record.sid] = Subject(r)
          /\ call[r].record.status \in Done => call[r].record.sid # None

DoneIndexed ==
    /\ \A d \in DecisionId : record[d].status \in Done => Indexed(d)
    /\ \A r \in Replica :
          /\ call[r].step = "ack" => Indexed(Subject(r))
          /\ call[r].step = "term" => Subject(r) \in deadLetters

\* Only a callback with a decoded event acknowledges.
AckedDecoded ==
    \A m \in Message : message[m] = "acked" => Body[m] \in DecisionId

SettleInv == Linked /\ DoneIndexed /\ AckedDecoded /\ SettledOnlyWithResult

\* The index and the dead letters change only by what is added to them.
LEMMA StoresLast ==
  ASSUME TypeInv, Linked, [Next]_vars
  PROVE  /\ \A s \in Sid : index[s] # None => index'[s] = index[s]
         /\ deadLetters \subseteq deadLetters'
<1>1. ASSUME NEW r \in Replica, PutNotification(r)
      PROVE  \A s \in Sid : index[s] # None => index'[s] = index[s]
  BY <1>1 DEF PutNotification, Linked, TypeInv, StoreType
<1>2. index' = index \/ \E r \in Replica : PutNotification(r)
  BY DEF Next, Handle, Deliver, StepRaises, LookUpRecord, VerifyDecision,
     ResolveRecipient, ExplainDecision, Send, SendFails, SendTimesOut, Crash,
     PublishConfirmed, LateAck, Revoke, Reconcile, ReceiveCallback, ReadRecord,
     CompareAndSet, RequestFails, Report, RestartMcp, vars, storage
<1>3. deadLetters \subseteq deadLetters'
  BY DEF Next, Handle, Deliver, Consume, Receive, Ack, RetryOrQuarantine,
     PutDeadLetter, Term, ErrorPathRaises, GuardedSettlementRaises, StepRaises,
     Raises, LookUpRecord, VerifyDecision, ResolveRecipient, ExplainDecision,
     Send, SendFails, SendTimesOut, PutNotification, Crash, PublishConfirmed,
     Offer, LateAck, AckWaitExpires, Revoke, Reconcile, ReceiveCallback,
     ReadRecord, CompareAndSet, RequestFails, Report, RestartMcp, vars, transport
<1> QED
  BY <1>1, <1>2, <1>3

\* What is indexed stays indexed.
LEMMA IndexedLasts ==
  ASSUME TypeInv, Linked, [Next]_vars, NEW d \in DecisionId, Indexed(d)
  PROVE  Indexed(d)'
<1>1. PICK s \in Sid : sms[s] = d /\ index[s] = d
  BY DEF Indexed
<1>2. d # None
  BY NotificationAssumption
<1>3. sms'[s] = d /\ index'[s] = d
  BY <1>1, <1>2, SmsLasts, StoresLast
<1> QED
  BY <1>3 DEF Indexed

LEMMA NextLinked ==
  TypeInv /\ Linked /\ [Next]_vars => Linked'
<1> SUFFICES ASSUME TypeInv, Linked, [Next]_vars PROVE Linked'
  OBVIOUS
<1> USE NotificationAssumption
<1>1. ASSUME NEW s \in Sid, index'[s] # None
      PROVE  sms'[s] = index'[s]
  <2>1. CASE index[s] # None
    BY <2>1, SmsLasts, StoresLast DEF Linked
  <2>2. CASE index[s] = None
    <3>1. PICK r \in Replica : PutNotification(r)
      BY <1>1, <2>2 DEF Next, Handle, Deliver, StepRaises, LookUpRecord,
         VerifyDecision, ResolveRecipient, ExplainDecision, Send, SendFails,
         SendTimesOut, Crash, PublishConfirmed, LateAck, Revoke, Reconcile,
         ReceiveCallback, ReadRecord, CompareAndSet, RequestFails, Report,
         RestartMcp, vars, storage
    <3>2. index'[s] = Subject(r) /\ call[r].record.sid = s
      BY <1>1, <2>2, <3>1 DEF PutNotification, TypeInv, StoreType
    <3>3. sms[s] = Subject(r) /\ sms' = sms
      BY <3>1, <3>2 DEF PutNotification, Linked, provider
    <3> QED
      BY <3>2, <3>3
  <2> QED
    BY <2>1, <2>2
<1>2. ASSUME NEW d \in DecisionId, receipts'[d] # None
      PROVE  sms'[receipts'[d]] = d
  <2>1. CASE receipts'[d] = receipts[d]
    <3>1. receipts[d] \in Sid /\ sms[receipts[d]] = d
      BY <1>2, <2>1 DEF Linked, TypeInv, TwilioType
    <3> QED
      BY <2>1, <3>1, SmsLasts
  <2>2. CASE receipts'[d] # receipts[d]
    <3>1. PICK r \in Replica, s \in Sid :
             /\ CreateSms(Subject(r), s)
             /\ receipts' = [receipts EXCEPT ![Subject(r)] = s]
      BY <1>2, <2>2, ReceiptsChange DEF RestartMcp
    <3> QED
      BY <2>2, <3>1 DEF CreateSms, TypeInv, TwilioType
  <2> QED
    BY <2>1, <2>2
<1>3. ASSUME NEW r \in Replica, call'[r].step = "put"
      PROVE  /\ call'[r].record.sid # None
                  => sms'[call'[r].record.sid] = Subject(r)'
             /\ call'[r].record.status \in Done => call'[r].record.sid # None
  <2>1. CASE call'[r] = call[r]
    <3>1. Subject(r)' = Subject(r) /\ Subject(r) \in DecisionId
      BY <1>3, <2>1, CallFacts DEF TypeInv, Subject, AtWork
    <3>2. call[r].record \in Record /\ call[r].record.sid \in Sid \cup {None}
      BY <1>3, <2>1, CallFacts DEF TypeInv, Record
    <3>3. /\ call[r].record.sid # None => sms[call[r].record.sid] = Subject(r)
          /\ call[r].record.status \in Done => call[r].record.sid # None
      BY <1>3, <2>1 DEF Linked
    <3>4. ASSUME call[r].record.sid # None
          PROVE  sms'[call[r].record.sid] = Subject(r)
      BY <3>1, <3>2, <3>3, <3>4, SmsLasts
    <3> QED
      BY <2>1, <3>1, <3>3, <3>4
  <2>2. CASE call'[r] # call[r]
    <3>1. /\ Subject(r)' = Subject(r)
          /\ ResolveRecipient(r) \/ Send(r) \/ SendFails(r) \/ SendTimesOut(r)
      BY <1>3, <2>2, NewStep, OwnCall DEF TypeInv
    <3>2. ASSUME NEW rec, Hold(r, "put", rec) PROVE call'[r].record = rec
      BY <3>2 DEF Hold, TypeInv, CallType, Call
    <3>3. CASE ResolveRecipient(r)
      <4>1. Hold(r, "put", Rejected)
        BY <1>3, <3>3 DEF ResolveRecipient, Goto, TypeInv, CallType, Call
      <4> QED
        BY <3>2, <4>1 DEF Rejected, Done
    <3>4. CASE SendFails(r) \/ SendTimesOut(r)
      <4>1. \E retryable \in BOOLEAN : Hold(r, "put", Failure(retryable))
        BY <3>4 DEF SendFails, SendTimesOut
      <4> QED
        BY <3>2, <4>1 DEF Failure, Done
    <3>5. CASE Send(r)
      <4>1. Subject(r) \in DecisionId
        BY <3>5, CallFacts DEF Send, TypeInv, AtWork
      <4>2. CASE Hold(r, "put", Failure(TRUE))
        BY <3>2, <4>2 DEF Failure, Done
      <4>3. ASSUME NEW status \in Done, NEW s \in Sid,
                   Hold(r, "put", Submitted(status, s)), sms'[s] = Subject(r)
            PROVE  /\ call'[r].record.sid # None
                        => sms'[call'[r].record.sid] = Subject(r)
                   /\ call'[r].record.sid # None
        <5>1. call'[r].record.sid = s
          BY <3>2, <4>3 DEF Submitted
        <5> QED
          BY <4>3, <5>1
      <4>4. CASE receipts[Subject(r)] # None
        <5>1. /\ receipts[Subject(r)] \in Sid
              /\ sms[receipts[Subject(r)]] = Subject(r) /\ sms' = sms
          BY <3>5, <4>1, <4>4 DEF Send, Linked, TypeInv, TwilioType
        <5> QED
          BY <3>1, <3>5, <4>2, <4>3, <4>4, <5>1 DEF Send, Done
      <4>5. CASE receipts[Subject(r)] = None
        <5>1. PICK s \in Sid :
                 /\ CreateSms(Subject(r), s)
                 /\ \/ Hold(r, "put", Submitted("accepted", s))
                    \/ Hold(r, "put", Failure(TRUE))
          BY <3>5, <4>5 DEF Send
        <5>2. sms'[s] = Subject(r)
          BY <5>1 DEF CreateSms, TypeInv, TwilioType
        <5> QED
          BY <3>1, <4>2, <4>3, <5>1, <5>2 DEF Done
      <4> QED
        BY <4>4, <4>5
    <3> QED
      BY <3>1, <3>3, <3>4, <3>5
  <2> QED
    BY <2>1, <2>2
<1> QED
  BY <1>1, <1>2, <1>3 DEF Linked, Subject

LEMMA NextDoneIndexed ==
  TypeInv /\ Linked /\ DoneIndexed /\ [Next]_vars => DoneIndexed'
<1> SUFFICES ASSUME TypeInv, Linked, DoneIndexed, [Next]_vars
             PROVE  DoneIndexed'
  OBVIOUS
<1> USE NotificationAssumption
<1>1. ASSUME NEW r \in Replica, PutNotification(r),
             call[r].record.status \in Done
      PROVE  Indexed(Subject(r))' /\ Subject(r) \in DecisionId
  <2> DEFINE s == call[r].record.sid
  <2>1. /\ s # None /\ sms[s] = Subject(r) /\ s \in Sid
        /\ Subject(r) \in DecisionId
    BY <1>1, CallFacts DEF PutNotification, Linked, TypeInv, Record, AtWork
  <2>2. index'[s] = Subject(r) /\ sms' = sms
    BY <1>1, <2>1 DEF PutNotification, TypeInv, StoreType, provider
  <2> QED
    BY <1>1, <2>1, <2>2 DEF Indexed, PutNotification, Subject, Settle, Goto,
       TypeInv, CallType, Call
<1>2. ASSUME NEW d \in DecisionId, record'[d].status \in Done
      PROVE  Indexed(d)'
  <2>1. CASE record'[d] = record[d]
    BY <1>2, <2>1, IndexedLasts DEF DoneIndexed
  <2>2. ASSUME NEW r \in Replica, PutNotification(r), Subject(r) = d,
               record'[d] = call[r].record
        PROVE  Indexed(d)'
    <3> DEFINE s == call[r].record.sid
    <3>1. s # None /\ sms[s] = d /\ s \in Sid
      BY <1>2, <2>2, CallFacts DEF PutNotification, Linked, TypeInv, Record
    <3>2. index'[s] = d /\ sms' = sms
      BY <2>2, <3>1 DEF PutNotification, TypeInv, StoreType, provider
    <3> QED
      BY <3>1, <3>2 DEF Indexed
  <2>3. ASSUME NEW h \in Hook, hook[h].step = "write",
               index[hook[h].callback.sid] = d
        PROVE  Indexed(d)'
    <3>1. hook[h].callback.sid \in Sid
      BY <2>3 DEF TypeInv, HookType, Callback
    <3>2. Indexed(d)
      BY <2>3, <3>1 DEF Linked, Indexed
    <3> QED
      BY <3>2, IndexedLasts
  <2> QED
    BY <2>1, <2>2, <2>3, RecordChange
<1>3. ASSUME NEW r \in Replica, call'[r].step = "ack"
      PROVE  Indexed(Subject(r))'
  <2>1. CASE call'[r] = call[r]
    <3>1. Subject(r)' = Subject(r) /\ Subject(r) \in DecisionId
      BY <1>3, <2>1, CallFacts DEF TypeInv, Subject, AtWork
    <3>2. Indexed(Subject(r))
      BY <1>3, <2>1 DEF DoneIndexed
    <3>3. PICK s \in Sid : sms[s] = Subject(r) /\ index[s] = Subject(r)
      BY <3>2 DEF Indexed
    <3>4. sms'[s] = Subject(r) /\ index'[s] = Subject(r)
      BY <3>1, <3>3, SmsLasts, StoresLast
    <3> QED
      BY <3>1, <3>4 DEF Indexed
  <2>2. CASE call'[r] # call[r]
    <3>1. Subject(r)' = Subject(r)
          /\ (LookUpRecord(r) \/ PutNotification(r))
      BY <1>3, <2>2, NewStep, OwnCall DEF TypeInv
    <3>2. CASE LookUpRecord(r)
      <4>1. /\ Subject(r) \in DecisionId
            /\ record[Subject(r)].status \in Done
        BY <1>3, <3>2, CallFacts
           DEF LookUpRecord, Goto, TypeInv, CallType, Call, AtWork
      <4>2. PICK s \in Sid : sms[s] = Subject(r) /\ index[s] = Subject(r)
        BY <4>1 DEF DoneIndexed, Indexed
      <4>3. sms'[s] = Subject(r) /\ index'[s] = Subject(r)
        BY <4>1, <4>2, SmsLasts, StoresLast
      <4> QED
        BY <3>1, <4>3 DEF Indexed
    <3>3. CASE PutNotification(r)
      <4>1. call[r].record.status \in Done
        BY <1>3, <3>3 DEF PutNotification, Settle, Goto, Settlement, TypeInv,
           CallType, Call
      <4> QED
        BY <1>1, <3>3, <4>1
    <3> QED
      BY <3>1, <3>2, <3>3
  <2> QED
    BY <2>1, <2>2
<1>4. ASSUME NEW r \in Replica, call'[r].step = "term"
      PROVE  Subject(r)' \in deadLetters'
  <2>1. CASE call'[r] = call[r]
    BY <1>4, <2>1, StoresLast DEF DoneIndexed, Subject
  <2>2. CASE call'[r] # call[r]
    BY <1>4, <2>2, NewStep, OwnCall DEF TypeInv, PutDeadLetter
  <2> QED
    BY <2>1, <2>2
<1> QED
  BY <1>2, <1>3, <1>4 DEF DoneIndexed, Indexed, Subject

\* An acknowledgement comes from a callback whose decision is indexed, a
\* termination from one whose dead letter is stored.
LEMMA NextSettled ==
  TypeInv /\ SettleInv /\ [Next]_vars => AckedDecoded' /\ SettledOnlyWithResult'
<1> SUFFICES ASSUME TypeInv, SettleInv, [Next]_vars, NEW m \in Message
             PROVE  /\ message'[m] = "acked"
                          => Body[m] \in DecisionId /\ Indexed(Body[m])'
                    /\ message'[m] = "termed" => Body[m] \in deadLetters'
  BY DEF AckedDecoded, SettledOnlyWithResult, Indexed
<1> USE NotificationAssumption DEF SettleInv
<1> DEFINE Good == /\ message'[m] = "acked"
                         => Body[m] \in DecisionId /\ Indexed(Body[m])'
                   /\ message'[m] = "termed" => Body[m] \in deadLetters'
           Open == {"unpublished", "available", "inflight", "exhausted"}
<1>1. CASE message'[m] \in {message[m]} \cup Open
  <2>1. message[m] = "acked" => Body[m] \in DecisionId /\ Indexed(Body[m])
    BY DEF AckedDecoded, SettledOnlyWithResult, Indexed
  <2>2. message[m] = "termed" => Body[m] \in deadLetters'
    BY StoresLast DEF SettledOnlyWithResult
  <2>3. message[m] = "acked" => Indexed(Body[m])'
    <3>1. ASSUME NEW d \in DecisionId, Indexed(d) PROVE Indexed(d)'
      BY <3>1, IndexedLasts
    <3>2. ASSUME message[m] = "acked"
          PROVE  \E s \in Sid : sms'[s] = Body[m] /\ index'[s] = Body[m]
      BY <2>1, <3>1, <3>2 DEF Indexed
    <3> QED
      BY <3>2 DEF Indexed
  <2> QED
    BY <1>1, <2>1, <2>2, <2>3
<1>2. ASSUME NEW r \in Replica, Ack(r), UNCHANGED <<storage, provider>>
      PROVE  Good
  <2>1. /\ Subject(r) \in DecisionId /\ call[r].message \in Message
        /\ Subject(r) = Body[call[r].message] /\ Indexed(Subject(r))
    BY <1>2, CallFacts DEF Ack, TypeInv, DoneIndexed, AtWork
  <2>2. CASE call[r].message = m
    <3>1. Indexed(Body[m])'
      BY <1>2, <2>1, <2>2 DEF Indexed, storage, provider
    <3>2. message'[m] \in {message[m], "acked"}
      BY <1>2, <2>1, <2>2 DEF Ack, Settled, TypeInv, BrokerType
    <3> QED
      BY <1>1, <2>1, <2>2, <3>1, <3>2
  <2>3. CASE call[r].message # m
    BY <1>1, <1>2, <2>1, <2>3 DEF Ack, Settled, TypeInv, BrokerType
  <2> QED
    BY <2>2, <2>3
<1>3. ASSUME NEW r \in Replica, Term(r)
      PROVE  Good
  <2>1. /\ call[r].message \in Message /\ Subject(r) \in deadLetters
        /\ Subject(r) = Body[call[r].message] /\ deadLetters' = deadLetters
    BY <1>3, CallFacts DEF Term, TypeInv, DoneIndexed
  <2>2. message'[m] \in {message[m], "termed"}
        /\ (call[r].message # m => message'[m] = message[m])
    BY <1>3, <2>1 DEF Term, Settled, TypeInv, BrokerType
  <2> QED
    BY <1>1, <2>1, <2>2
<1>4. ASSUME NEW r \in Replica, Handle(r), ~Ack(r), ~Term(r)
      PROVE  message'[m] \in {message[m]} \cup Open
  BY <1>4 DEF Handle, Deliver, Consume, Receive, RetryOrQuarantine, Nak,
     Requeued, PutDeadLetter, ErrorPathRaises, GuardedSettlementRaises,
     StepRaises, Raises, LookUpRecord, VerifyDecision, ResolveRecipient,
     ExplainDecision, Send, SendFails, SendTimesOut, PutNotification, transport,
     TypeInv, BrokerType
<1>5. ASSUME NEW n \in Message, PublishConfirmed(n) \/ LateAck(n)
      PROVE  message'[m] \in {message[m]} \cup Open
  BY <1>5 DEF PublishConfirmed, Offer, LateAck, AckWaitExpires, Requeued,
     TypeInv, BrokerType
<1>6. ASSUME NEW r \in Replica, Handle(r)
      PROVE  Good
  <2>1. CASE Ack(r)
    <3>1. UNCHANGED <<storage, provider>>
      BY <1>6, <2>1 DEF Handle, Deliver, Ack, StepRaises, Raises, LookUpRecord,
         VerifyDecision, ResolveRecipient, ExplainDecision, Send, SendFails,
         SendTimesOut, PutNotification
    <3> QED
      BY <1>2, <2>1, <3>1
  <2>2. CASE Term(r)
    BY <1>3, <2>2
  <2>3. CASE ~Ack(r) /\ ~Term(r)
    BY <1>1, <1>4, <1>6, <2>3
  <2> QED
    BY <2>1, <2>2, <2>3
<1>7. CASE message' = message
  BY <1>1, <1>7
<1> QED
  BY <1>1, <1>5, <1>6, <1>7 DEF Next, Revoke, Crash, Reconcile, ReceiveCallback,
     ReadRecord, CompareAndSet, RequestFails, Report, RestartMcp, vars, transport

\* Of every confirmed event that leaves the consumer there is an SMS callbacks
\* can find, or a dead letter: for every number of replicas and webhook
\* requests, failures, timeouts and restarts of the MCP.
THEOREM ActionSettledWithResult == Spec => []SettledOnlyWithResult
<1> DEFINE Inv == TypeInv /\ SettleInv
<1>1. Init => Inv
  <2>1. Init => SettleInv
    BY NotARecord DEF Init, SettleInv, Linked, DoneIndexed, AckedDecoded,
       SettledOnlyWithResult, Idle
  <2> QED
    BY <2>1, InitType
<1>2. Inv /\ [Next]_vars => Inv'
  BY NextType, NextLinked, NextDoneIndexed, NextSettled DEF SettleInv
<1>3. Inv => SettledOnlyWithResult
  BY DEF SettleInv
<1> QED
  BY <1>1, <1>2, <1>3, PTL DEF Spec

-----------------------------------------------------------------------------
(* SMS per decision.  At most one SMS of a decision is on a receipt; every *)
(* other one was created before a restart of the MCP, or by a submission    *)
(* Twilio did not answer, and each of these accounts for one of them.       *)

Told(d) == {s \in Sid : sms[s] = d}

OnReceipt(d) == IF receipts[d] = None THEN 0 ELSE 1

Counted ==
    \A d \in DecisionId :
        /\ IsFiniteSet(Told(d))
        /\ Cardinality(Told(d)) <= restarts + timeouts + OnReceipt(d)

\* What a step may do to the counts: a restart creates no SMS, and an unanswered
\* submission leaves the receipts alone.
LEMMA CountsChange ==
  ASSUME TypeInv, [Next]_vars
  PROVE  \/ restarts' = restarts /\ timeouts' = timeouts
         \/ /\ restarts' = restarts + 1 /\ timeouts' = timeouts
            /\ sms' = sms
         \/ /\ restarts' = restarts /\ timeouts' = timeouts + 1
            /\ receipts' = receipts
            /\ \E r \in Replica : SendTimesOut(r)
<1>1. CASE RestartMcp
  BY <1>1 DEF RestartMcp
<1>2. ASSUME NEW r \in Replica, Handle(r) \/ Crash(r)
      PROVE  \/ restarts' = restarts /\ timeouts' = timeouts
             \/ /\ restarts' = restarts /\ timeouts' = timeouts + 1
                /\ receipts' = receipts /\ SendTimesOut(r)
  BY <1>2 DEF Handle, Deliver, StepRaises, LookUpRecord, VerifyDecision,
     ResolveRecipient, ExplainDecision, Send, SendFails, SendTimesOut,
     PutNotification, Crash, provider
<1>3. CASE \/ \E m \in Message : PublishConfirmed(m) \/ LateAck(m)
           \/ \E d \in DecisionId : Revoke(d)
           \/ \E h \in Hook : Reconcile(h)
           \/ \E s \in Sid, status \in CarrierStatus : Report(s, status)
           \/ UNCHANGED vars
  BY <1>3 DEF PublishConfirmed, LateAck, Revoke, Reconcile, ReceiveCallback,
     ReadRecord, CompareAndSet, RequestFails, Report, vars, provider
<1> QED
  BY <1>1, <1>2, <1>3 DEF Next

\* A new SMS adds one to the SMS of its decision and none to the others'.
LEMMA OneMore ==
  ASSUME TypeInv, NEW d \in DecisionId, NEW s \in Sid, CreateSms(d, s),
         NEW e \in DecisionId, IsFiniteSet(Told(e))
  PROVE  /\ IsFiniteSet(Told(e)')
         /\ e # d => Told(e)' = Told(e)
         /\ Cardinality(Told(d)') = Cardinality(Told(d)) + 1 \/ e # d
<1>1. sms' = [sms EXCEPT ![s] = d] /\ sms[s] = None
  BY DEF CreateSms, NewSid
<1>2. None # d /\ None # e
  BY NotificationAssumption
<1>3. CASE e = d
  <2>1. Told(d)' = Told(d) \cup {s} /\ s \notin Told(d)
    BY <1>1, <1>2 DEF Told, TypeInv, TwilioType
  <2> QED
    BY <1>3, <2>1, FS_AddElement
<1>4. CASE e # d
  <2>1. Told(e)' = Told(e)
    BY <1>1, <1>2, <1>4 DEF Told, TypeInv, TwilioType
  <2> QED
    BY <1>4, <2>1
<1> QED
  BY <1>3, <1>4

LEMMA NextCounted ==
  TypeInv /\ Counted /\ [Next]_vars => Counted'
<1> SUFFICES ASSUME TypeInv, Counted, [Next]_vars, NEW e \in DecisionId
             PROVE  /\ IsFiniteSet(Told(e)')
                    /\ Cardinality(Told(e)')
                         <= restarts' + timeouts' + OnReceipt(e)'
  BY DEF Counted
<1>1. /\ IsFiniteSet(Told(e)) /\ Cardinality(Told(e)) \in Nat
      /\ Cardinality(Told(e)) <= restarts + timeouts + OnReceipt(e)
  BY FS_CardinalityType DEF Counted
<1>2. /\ restarts \in Nat /\ timeouts \in Nat
      /\ OnReceipt(e) \in {0, 1} /\ OnReceipt(e)' \in {0, 1}
  BY NotificationAssumption DEF TypeInv, TwilioType, OnReceipt
<1>3. CASE sms' = sms
  <2>1. Told(e)' = Told(e)
    BY <1>3 DEF Told
  <2>2. CASE receipts' = receipts
    <3>1. OnReceipt(e)' = OnReceipt(e)
      BY <2>2 DEF OnReceipt
    <3>2. /\ IsFiniteSet(Told(e)')
          /\ Cardinality(Told(e)') = Cardinality(Told(e))
      BY <1>1, <2>1
    <3>3. CASE restarts' = restarts /\ timeouts' = timeouts
      BY <1>1, <1>2, <3>1, <3>2, <3>3
    <3>4. CASE restarts' = restarts + 1 /\ timeouts' = timeouts
      BY <1>1, <1>2, <3>1, <3>2, <3>4
    <3>5. CASE restarts' = restarts /\ timeouts' = timeouts + 1
      BY <1>1, <1>2, <3>1, <3>2, <3>5
    <3> QED
      BY <3>3, <3>4, <3>5, CountsChange
  <2>3. CASE RestartMcp
    <3>1. restarts' = restarts + 1 /\ timeouts' = timeouts
      BY <2>3 DEF RestartMcp
    <3> QED
      BY <1>1, <1>2, <2>1, <3>1
  <2>4. CASE receipts' # receipts /\ ~RestartMcp
    <3>1. PICK r \in Replica, s \in Sid : Send(r) /\ CreateSms(Subject(r), s)
      BY <2>4, ReceiptsChange
    <3>2. Subject(r) \in DecisionId
      BY <3>1, CallFacts DEF Send, TypeInv, AtWork
    <3>3. sms'[s] = Subject(r) /\ sms[s] = None
      BY <3>1 DEF CreateSms, NewSid, TypeInv, TwilioType
    <3> QED
      BY <1>3, <3>2, <3>3, NotificationAssumption
  <2> QED
    BY <2>2, <2>3, <2>4
<1>4. CASE sms' # sms
  <2>1. PICK r \in Replica, s \in Sid :
           (Send(r) \/ SendTimesOut(r)) /\ CreateSms(Subject(r), s)
    BY <1>4, SmsLasts
  <2>2. Subject(r) \in DecisionId
    BY <2>1, CallFacts DEF Send, SendTimesOut, TypeInv, AtWork
  <2>3. /\ IsFiniteSet(Told(e)')
        /\ e # Subject(r) => Told(e)' = Told(e)
        /\ e = Subject(r) => Cardinality(Told(e)') = Cardinality(Told(e)) + 1
    BY <1>1, <2>1, <2>2, OneMore
  <2>4. CASE Send(r)
    <3>1. receipts[Subject(r)] = None /\ restarts' = restarts /\ timeouts' = timeouts
      BY <1>4, <2>4 DEF Send
    <3>2. \E n \in Sid : receipts' = [receipts EXCEPT ![Subject(r)] = n]
      BY <2>4, <3>1 DEF Send
    <3>3. receipts \in [DecisionId -> Sid \cup {None}]
      BY DEF TypeInv, TwilioType
    <3>4. CASE e = Subject(r)
      <4>1. receipts[e] = None /\ receipts'[e] # None
        BY <3>1, <3>2, <3>3, <3>4, NotificationAssumption
      <4>2. OnReceipt(e) = 0 /\ OnReceipt(e)' = 1
        BY <4>1 DEF OnReceipt
      <4>3. /\ IsFiniteSet(Told(e)')
            /\ Cardinality(Told(e)') = Cardinality(Told(e)) + 1
        BY <2>3, <3>4
      <4> QED
        BY <1>1, <1>2, <3>1, <4>2, <4>3
    <3>5. CASE e # Subject(r)
      <4>1. receipts'[e] = receipts[e]
        BY <3>2, <3>3, <3>5
      <4>2. OnReceipt(e)' = OnReceipt(e) /\ Told(e)' = Told(e)
        BY <2>3, <3>5, <4>1 DEF OnReceipt
      <4> QED
        BY <1>1, <1>2, <3>1, <4>2
    <3> QED
      BY <3>4, <3>5
  <2>5. CASE SendTimesOut(r)
    <3>1. /\ receipts[Subject(r)] = None /\ receipts' = receipts
          /\ restarts' = restarts /\ timeouts' = timeouts + 1
      BY <2>5 DEF SendTimesOut
    <3>2. OnReceipt(Subject(r)) = 0 /\ OnReceipt(e)' = OnReceipt(e)
      BY <3>1 DEF OnReceipt
    <3> QED
      BY <1>1, <1>2, <2>3, <3>1, <3>2
  <2> QED
    BY <2>1, <2>4, <2>5
<1> QED
  BY <1>3, <1>4

\* However often the event of a decision is published, delivered and retried,
\* and however many replicas work on it, the traveler gets one SMS, and at
\* most one more for each restart of the MCP, which forgets its receipts
\* (notification.py:142), and each submission without an answer (:201).
THEOREM RepeatsBounded == Spec => []RepeatsAccountedFor
<1> DEFINE Inv == TypeInv /\ Counted
<1>1. Init => Inv
  <2> SUFFICES ASSUME Init PROVE Counted
    BY InitType
  <2>1. ASSUME NEW d \in DecisionId PROVE Told(d) = {}
    BY NotificationAssumption DEF Init, Told
  <2>2. restarts = 0 /\ timeouts = 0 /\ \A d \in DecisionId : OnReceipt(d) = 0
    BY DEF Init, OnReceipt
  <2> QED
    BY <2>1, <2>2, FS_EmptySet DEF Counted
<1>2. Inv /\ [Next]_vars => Inv'
  BY NextType, NextCounted
<1>3. Inv => RepeatsAccountedFor
  <2> SUFFICES ASSUME Inv, NEW d \in DecisionId
               PROVE  Cardinality(Told(d)) <= 1 + restarts + timeouts
    BY DEF RepeatsAccountedFor, Told
  <2>1. /\ IsFiniteSet(Told(d))
        /\ Cardinality(Told(d)) <= restarts + timeouts + OnReceipt(d)
    BY DEF Counted
  <2>2. /\ Cardinality(Told(d)) \in Nat /\ OnReceipt(d) \in {0, 1}
        /\ restarts \in Nat /\ timeouts \in Nat
    BY <2>1, FS_CardinalityType, NotificationAssumption
       DEF OnReceipt, TypeInv, TwilioType
  <2> QED
    BY <2>1, <2>2
<1> QED
  BY <1>1, <1>2, <1>3, PTL DEF Spec

-----------------------------------------------------------------------------
(* Callbacks only advance.  What a request is about to write was found to   *)
(* advance the record it expects.                                           *)

WritesAdvance ==
    \A h \in Hook : hook[h].step = "write"
        => Applies(hook[h].expected, hook[h].callback.status)
LEMMA NextWritesAdvance ==
  TypeInv /\ WritesAdvance /\ [Next]_vars => WritesAdvance'
<1> SUFFICES ASSUME TypeInv, WritesAdvance, [Next]_vars, NEW h \in Hook,
                    hook'[h].step = "write"
             PROVE  Applies(hook'[h].expected, hook'[h].callback.status)
  BY DEF WritesAdvance, Applies
<1>1. CASE hook'[h] = hook[h]
  BY <1>1 DEF WritesAdvance
<1>2. CASE hook'[h] # hook[h]
  <2>1. PICK k \in Hook : Reconcile(k)
    BY <1>2 DEF Next, PublishConfirmed, LateAck, Revoke, Handle, Deliver,
       StepRaises, LookUpRecord, VerifyDecision, ResolveRecipient,
       ExplainDecision, Send, SendFails, SendTimesOut, PutNotification, Crash,
       Report, RestartMcp, vars
  <2>2. k = h
    BY <1>2, <2>1 DEF Reconcile, ReceiveCallback, ReadRecord, CompareAndSet,
       RequestFails, EndRequest, TypeInv, HookType
  <2>3. ReadRecord(h)
    <3>1. hook[h] \in Request /\ hook \in [Hook -> Request]
      BY DEF TypeInv, HookType
    <3>2. ~EndRequest(h)
      BY <3>1 DEF EndRequest, NoRequest
    <3>3. ASSUME NEW cb \in callbacks, ReceiveCallback(h, cb) PROVE FALSE
      BY <3>1, <3>3 DEF ReceiveCallback, NoRequest
    <3>4. ~CompareAndSet(h) /\ ~RequestFails(h)
      BY <3>1, <3>2 DEF CompareAndSet, RequestFails, Request
    <3> QED
      BY <2>1, <2>2, <3>3, <3>4 DEF Reconcile
  <2> DEFINE d == index[hook[h].callback.sid]
             p == [hook[h] EXCEPT !.step = "write"]
             q == [p EXCEPT !.expected = record[d]]
  <2>4. /\ Applies(record[d], hook[h].callback.status)
        /\ hook' = [hook EXCEPT ![h] = q]
    <3>1. ~EndRequest(h)
      BY DEF EndRequest, NoRequest, TypeInv, HookType
    <3> QED
      BY <2>3, <3>1 DEF ReadRecord
  <2>5. hook'[h] = q
    BY <2>4 DEF TypeInv, HookType
  <2>6. q.expected = record[d] /\ q.callback = hook[h].callback
    BY DEF TypeInv, HookType, Request
  <2> QED
    BY <2>4, <2>5, <2>6
<1> QED
  BY <1>1, <1>2

\* What the webhook writes is further along than what it overwrites: for every
\* number of requests and every order, loss and repetition of callbacks, beside
\* the consumer's unconditional writes.
THEOREM WebhookOnlyAdvances == Spec => CallbacksOnlyAdvance
<1> DEFINE Inv == TypeInv /\ WritesAdvance
           Advance == \A d \in DecisionId :
                         hook' # hook /\ record'[d] # record[d]
                         => Rank(StatusOf(record'[d])) > Rank(StatusOf(record[d]))
<1>1. Init => Inv
  <2>1. Init => WritesAdvance
    BY DEF Init, WritesAdvance, NoRequest
  <2> QED
    BY <2>1, InitType
<1>2. Inv /\ [Next]_vars => Inv'
  BY NextType, NextWritesAdvance
<1>3. Inv /\ [Next]_vars => [Advance]_vars
  <2> SUFFICES ASSUME Inv, [Next]_vars, NEW d \in DecisionId, hook' # hook,
                      record'[d] # record[d]
               PROVE  Rank(StatusOf(record'[d])) > Rank(StatusOf(record[d]))
    OBVIOUS
  <2>1. \A r \in Replica : ~PutNotification(r)
    BY DEF PutNotification
  <2>2. PICK h \in Hook : /\ hook[h].step = "write"
                          /\ record[d] = hook[h].expected
                          /\ record'[d] = Replacement(h)
    BY <2>1, RecordChange
  <2>3. /\ hook[h].expected \in Record /\ hook[h].callback \in Callback
    BY <2>2 DEF TypeInv, HookType
  <2>4. StatusOf(record'[d]) = hook[h].callback.status
    BY <2>2, <2>3, ReplacementType
  <2> QED
    BY <2>2, <2>4 DEF WritesAdvance, Applies
<1>4. Spec => [][Advance]_vars
  BY <1>1, <1>2, <1>3, PTL DEF Spec
<1> QED
  BY <1>4 DEF CallbacksOnlyAdvance
==================================================================================
