-------------------------- MODULE NotificationAction --------------------------
(***************************************************************************)
(* From a confirmed disruption to the traveler's phone:                    *)
(*   - the notification action service consumes confirmed events, checks   *)
(*     them against the stored decision, submits an SMS through the        *)
(*     notification MCP and records the action                             *)
(*     (flight_agent/notification_action_service.py);                      *)
(*   - the MCP's Twilio provider keeps its receipts in memory              *)
(*     (flight_agent/notification.py);                                     *)
(*   - Twilio reports the progress of each SMS in callbacks, in any order, *)
(*     to the webhook, which advances the record by compare-and-set        *)
(*     (flight_agent/notification_webhook.py).                             *)
(***************************************************************************)
EXTENDS DisruptionWording

CONSTANTS
    DecisionId,     \* decisions whose confirmed events are on the stream
    Event,          \* category and reasons of each
    Candidate,      \* the candidate each was made on, or None if it is gone
    Message,        \* messages of travel.disruption_confirmed.v1
    Body,           \* the decision each message carries, or Unreadable
    Unreadable,     \* a body decode_envelope rejects
    Replica,        \* processes of the queue group
    Hook,           \* concurrent requests of the webhook
    Sid,            \* bound: provider ids of the SMS Twilio creates, 1 .. n
    CarrierStatus,  \* bound: the statuses the carrier reports
    MaxDeliveries,  \* EVENT_MAX_DELIVERIES
    MaxAttempts,    \* maximum_attempts of reconcile_twilio_sms_status
    MaxFaults,      \* bound: failures, crashes, late acks, lost callbacks
    MaxRestarts,    \* bound: restarts of the notification MCP
    MaxTimeouts     \* bound: submissions Twilio does not answer

VARIABLES
    approved,       \* decisions whose DECISION and CONFIRMED_EVENT match
    record,         \* DECISION#d / NOTIFICATION
    index,          \* PROVIDER#twilio / DELIVERY#sid: the decision
    receipts,       \* the MCP's receipts, by idempotency key
    sms,            \* the decision each SMS was created for
    carrier,        \* the status of each SMS at Twilio
    callbacks,      \* status callbacks on their way
    hook,           \* the webhook's requests
    restarts, timeouts,
    message, deliveries, deadLetters, call, faults

transport == <<message, deliveries, deadLetters>>
storage   == <<approved, record, index>>
provider  == <<receipts, sms, restarts, timeouts>>
twilio    == <<carrier, callbacks>>
vars == <<storage, provider, twilio, hook, transport, call, faults>>

\* _PROGRESS_RANK and _TERMINAL_PROVIDER_STATUSES
ProgressRank == [accepted |-> 0, scheduled |-> 0, queued |-> 1, sending |-> 2,
                 sent |-> 3]
Progress == DOMAIN ProgressRank
Terminal == {"delivered", "undelivered", "failed", "canceled"}

\* How far a status has come; every terminal one is past all progress.
Rank(status) == IF status \in Terminal THEN 4 ELSE ProgressRank[status]

ASSUME NotificationAssumption ==
    /\ Unreadable \notin DecisionId
    /\ None \notin DecisionId \cup Message \cup Sid
    /\ None \notin Progress \cup Terminal
    /\ Body \in [Message -> DecisionId \cup {Unreadable}]
    /\ Sid \subseteq Nat
    /\ CarrierStatus \subseteq Progress \cup Terminal
    /\ MaxDeliveries \in Nat \ {0} /\ MaxAttempts \in Nat \ {0}
    /\ MaxFaults \in Nat /\ MaxRestarts \in Nat /\ MaxTimeouts \in Nat

\* What process_confirmed_event takes for done.
Done == {"accepted", "delivered", "duplicate"}

\* NotificationActionRecord: the action status, the provider's id and status
\* if it has any, and whether a recorded failure may be retried.
Record == [status : Done \cup {"failed", "rejected"}, sid : Sid \cup {None},
           providerStatus : Progress \cup Terminal \cup {None},
           retryable : BOOLEAN]

NoRecord == [status |-> "none", sid |-> None, providerStatus |-> None,
             retryable |-> FALSE]

Submitted(status, s) == [status |-> status, sid |-> s,
                         providerStatus |-> "queued", retryable |-> FALSE]
Failure(retryable)   == [status |-> "failed", sid |-> None,
                         providerStatus |-> None, retryable |-> retryable]
Rejected             == [status |-> "rejected", sid |-> None,
                         providerStatus |-> None, retryable |-> FALSE]

Callback == [sid : Sid, status : CarrierStatus]

Step == {"idle", "decoded", "verify", "recipient", "explain", "send", "put", "ack",
         "failed", "quarantine", "term"}

\* The locals of process_confirmed_message and process_confirmed_event;
\* guarded while the settlement of a record is still inside the try block.
Call == [step : Step, message : Message \cup {None},
         attempt : 0 .. MaxDeliveries, record : Record \cup {NoRecord},
         guarded : BOOLEAN]

Idle == [step |-> "idle", message |-> None, attempt |-> 0,
         record |-> NoRecord, guarded |-> FALSE]

INSTANCE EventDelivery

\* The locals of reconcile_twilio_sms_status.
Request == [step : {"idle", "read", "write"},
            callback : Callback \cup {None},
            expected : Record \cup {NoRecord}, attempts : 0 .. MaxAttempts]

NoRequest == [step |-> "idle", callback |-> None, expected |-> NoRecord,
              attempts |-> 0]

Init ==
    /\ approved = DecisionId
    /\ record = [d \in DecisionId |-> NoRecord]
    /\ index = [s \in Sid |-> None]
    /\ receipts = [d \in DecisionId |-> None]
    /\ sms = [s \in Sid |-> None]
    /\ carrier = [s \in Sid |-> None]
    /\ callbacks = {}
    /\ hook = [h \in Hook |-> NoRequest]
    /\ restarts = 0 /\ timeouts = 0
    /\ message = [m \in Message |-> "unpublished"]
    /\ deliveries = [m \in Message |-> 0]
    /\ deadLetters = {}
    /\ call = [r \in Replica |-> Idle]
    /\ faults = 0

-----------------------------------------------------------------------------
(* The consumer.                                                           *)

\* The Eval Agent, its outbox drain or an operator publishes the event.
PublishConfirmed(m) ==
    Offer(m) /\ UNCHANGED <<storage, provider, twilio, hook>>

LateAck(m) == AckWaitExpires(m) /\ UNCHANGED <<storage, provider, twilio, hook>>

Deliver(r) ==
    /\ \/ Consume(r)
       \/ ~call[r].guarded /\ ErrorPathRaises(r)
       \/ call[r].guarded /\ GuardedSettlementRaises(r)
    /\ UNCHANGED <<storage, provider, twilio, hook>>

StepRaises(r) ==
    /\ Raises(r, {"decoded", "verify", "explain", "put"})
    /\ UNCHANGED <<storage, provider, twilio, hook>>

\* A second evaluation of the candidate replaced the stored decision.
Revoke(d) ==
    /\ d \in approved
    /\ Fault
    /\ approved' = approved \ {d}
    /\ UNCHANGED <<record, index, provider, twilio, hook, transport, call>>

\* Mutant: an event whose action is done is dropped, not acknowledged.
LookUpWithoutAck(r) ==
    /\ call[r].step = "decoded"
    /\ IF record[Subject(r)].status \in Done THEN Return(r)
                                             ELSE Goto(r, "verify")
    /\ UNCHANGED <<storage, provider, twilio, hook, transport, faults>>

\* An action that is already done is not repeated; a failed one is.
LookUpRecord(r) ==
    /\ call[r].step = "decoded"
    /\ Goto(r, IF record[Subject(r)].status \in Done THEN "ack" ELSE "verify")
    /\ UNCHANGED <<storage, provider, twilio, hook, transport, faults>>

Settle(r, step) ==
    call' = [call EXCEPT ![r].step = step, ![r].guarded = step # "ack"]

\* _verified_decision.  A mismatch is rejected without a record.
VerifyDecision(r) ==
    /\ call[r].step = "verify"
    /\ IF Subject(r) \in approved THEN Goto(r, "recipient")
                                 ELSE Settle(r, "quarantine")
    /\ UNCHANGED <<storage, provider, twilio, hook, transport, faults>>

Hold(r, step, rec) ==
    call' = [call EXCEPT ![r].step = step, ![r].record = rec]

\* Without a consented number, or a resolver that answers, the action is
\* rejected, and this time recorded.
ResolveRecipient(r) ==
    /\ call[r].step = "recipient"
    /\ \/ Goto(r, "explain") /\ UNCHANGED faults
       \/ Hold(r, "put", Rejected) /\ Fault
    /\ UNCHANGED <<storage, provider, twilio, hook, transport>>

\* The stored candidate is read and the wording asked for.  Whatever becomes
\* of the wording, the action goes on; but evidence outside the request's
\* contract raises, as often as the event is delivered.
ExplainDecision(r) ==
    LET d == Subject(r)
    IN /\ call[r].step = "explain"
       /\ Goto(r, IF ExplanationRequest(Event[d], Candidate[d]) # None
                  THEN "send" ELSE "failed")
       /\ UNCHANGED <<storage, provider, twilio, hook, transport, faults>>

\* Twilio creates an SMS.
NewSid(s) == s \in Sid /\ sms[s] = None /\ \A t \in Sid : t < s => sms[t] # None

CreateSms(d, s) ==
    /\ NewSid(s)
    /\ sms' = [sms EXCEPT ![s] = d]
    /\ carrier' = [carrier EXCEPT ![s] = "queued"]

\* Mutant: the provider does not look for a receipt.
SendAgain(r) ==
    LET d == Subject(r)
    IN /\ call[r].step = "send"
       /\ \E s \in Sid :
             /\ CreateSms(d, s)
             /\ receipts' = [receipts EXCEPT ![d] = s]
             /\ \/ Hold(r, "put", Submitted("accepted", s)) /\ UNCHANGED faults
                \/ Hold(r, "put", Failure(TRUE)) /\ Fault
       /\ UNCHANGED <<storage, restarts, timeouts, callbacks, hook, transport>>

\* TwilioNotificationProvider.send under its lock: a receipt for the
\* idempotency key answers "duplicate", otherwise a message is created.  The
\* MCP's answer may not reach the service.
Send(r) ==
    LET d == Subject(r)
    IN /\ call[r].step = "send"
       /\ \/ /\ receipts[d] # None
             /\ \/ /\ Hold(r, "put", Submitted("duplicate", receipts[d]))
                   /\ UNCHANGED faults
                \/ Hold(r, "put", Failure(TRUE)) /\ Fault
             /\ UNCHANGED <<receipts, sms, carrier>>
          \/ /\ receipts[d] = None
             /\ \E s \in Sid :
                   /\ CreateSms(d, s)
                   /\ receipts' = [receipts EXCEPT ![d] = s]
                   /\ \/ /\ Hold(r, "put", Submitted("accepted", s))
                         /\ UNCHANGED faults
                      \/ Hold(r, "put", Failure(TRUE)) /\ Fault
       /\ UNCHANGED <<storage, restarts, timeouts, callbacks, hook, transport>>

\* The MCP is unreachable or refuses, or Twilio rejects the message, for now
\* (429, 5xx) or for good.
SendFails(r) ==
    /\ call[r].step = "send"
    /\ Fault
    /\ \E retryable \in BOOLEAN : Hold(r, "put", Failure(retryable))
    /\ UNCHANGED <<storage, provider, twilio, hook, transport>>

\* Twilio does not answer, or names no message: a failure not to be retried,
\* whether or not the SMS exists.
SendTimesOut(r) ==
    /\ call[r].step = "send" /\ receipts[Subject(r)] = None
    /\ timeouts < MaxTimeouts
    /\ timeouts' = timeouts + 1
    /\ \/ \E s \in Sid : CreateSms(Subject(r), s)
       \/ UNCHANGED <<sms, carrier>>
    /\ Hold(r, "put", Failure(FALSE))
    /\ UNCHANGED <<storage, receipts, restarts, callbacks, hook, transport,
                   faults>>

\* How process_confirmed_message settles a record.
Settlement(rec) ==
    CASE rec.status \in Done -> "ack"
      [] rec.status = "rejected" -> "quarantine"
      [] rec.status = "failed" /\ ~rec.retryable -> "quarantine"
      [] OTHER -> "failed"

\* Mutant: the reverse index is left to a second write that never comes.
PutUnindexed(r) ==
    /\ call[r].step = "put"
    /\ record' = [record EXCEPT ![Subject(r)] = call[r].record]
    /\ Settle(r, Settlement(call[r].record))
    /\ UNCHANGED <<approved, index, provider, twilio, hook, transport, faults>>

\* put_notification: an unconditional write, with the reverse index in the
\* same transaction when the provider named the message.
PutNotification(r) ==
    LET rec == call[r].record
    IN /\ call[r].step = "put"
       /\ record' = [record EXCEPT ![Subject(r)] = rec]
       /\ index' = IF rec.sid = None THEN index
                   ELSE [index EXCEPT ![rec.sid] = Subject(r)]
       /\ \/ Settle(r, Settlement(rec)) /\ UNCHANGED faults
          \/ Goto(r, "failed") /\ Fault      \* written, but the reply was lost
       /\ UNCHANGED <<approved, provider, twilio, hook, transport>>

Crash(r) ==
    /\ call[r].step # "idle"
    /\ Fault
    /\ Return(r)
    /\ UNCHANGED <<storage, provider, twilio, hook, transport>>

\* The receipts are a dictionary of the MCP process.
RestartMcp ==
    /\ restarts < MaxRestarts
    /\ restarts' = restarts + 1
    /\ receipts' = [d \in DecisionId |-> None]
    /\ UNCHANGED <<storage, sms, timeouts, twilio, hook, transport, call,
                   faults>>

-----------------------------------------------------------------------------
(* Twilio and the webhook.                                                 *)

\* The carrier advances an SMS and Twilio sends a callback; later callbacks
\* may overtake earlier ones.
Report(s, status) ==
    /\ carrier[s] \in Progress
    /\ Rank(status) > Rank(carrier[s])
    /\ carrier' = [carrier EXCEPT ![s] = status]
    /\ callbacks' = callbacks \cup {[sid |-> s, status |-> status]}
    /\ UNCHANGED <<storage, provider, hook, transport, call, faults>>

\* A request arrives; Twilio may send the same callback once more.
ReceiveCallback(h, cb) ==
    /\ cb \in callbacks
    /\ hook[h].step = "idle"
    /\ hook' = [hook EXCEPT ![h] = [NoRequest EXCEPT !.step = "read",
                                                     !.callback = cb]]
    /\ \/ callbacks' = callbacks \ {cb} /\ UNCHANGED faults
       \/ Fault /\ UNCHANGED callbacks
    /\ UNCHANGED <<storage, provider, carrier, transport, call>>

EndRequest(h) == hook' = [hook EXCEPT ![h] = NoRequest]

StatusOf(rec) == IF rec.providerStatus = None THEN "accepted"
                 ELSE rec.providerStatus

\* Neither a duplicate nor stale, and the record not terminal.
Applies(rec, status) ==
    /\ StatusOf(rec) # status
    /\ StatusOf(rec) \notin Terminal /\ rec.status \notin {"delivered", "failed"}
    /\ Rank(status) > Rank(StatusOf(rec))

\* The delivery is located by the reverse index and its record read.  The
\* update is dropped when there is no such delivery or it does not apply.
ReadRecord(h) ==
    LET d == index[hook[h].callback.sid]
    IN /\ hook[h].step = "read"
       /\ IF d # None /\ Applies(record[d], hook[h].callback.status)
          THEN hook' = [hook EXCEPT ![h].step = "write",
                                    ![h].expected = record[d]]
          ELSE EndRequest(h)
       /\ UNCHANGED <<storage, provider, twilio, transport, call, faults>>

\* Mutant: a failure keeps the provider's word for it.
ActionStatusAsReported(status) ==
    IF status \in Terminal THEN status ELSE "accepted"

ActionStatus(status) ==
    CASE status = "delivered" -> "delivered"
      [] status \in Terminal \ {"delivered"} -> "failed"
      [] OTHER -> "accepted"

Replacement(h) ==
    [hook[h].expected EXCEPT
        !.status = ActionStatus(hook[h].callback.status),
        !.providerStatus = hook[h].callback.status]

\* Mutant: the replacement is written without a condition.
WriteBlindly(h) ==
    /\ hook[h].step = "write"
    /\ record' = [record EXCEPT ![index[hook[h].callback.sid]] = Replacement(h)]
    /\ EndRequest(h)
    /\ UNCHANGED <<approved, index, provider, twilio, transport, call, faults>>

\* compare_and_set_notification; a conflict starts over, maximum_attempts
\* times in all.
CompareAndSet(h) ==
    LET d == index[hook[h].callback.sid]
    IN /\ hook[h].step = "write"
       /\ \/ /\ record[d] = hook[h].expected
             /\ record' = [record EXCEPT ![d] = Replacement(h)]
             /\ EndRequest(h)
          \/ /\ record[d] # hook[h].expected
             /\ IF hook[h].attempts + 1 < MaxAttempts
                THEN hook' = [hook EXCEPT ![h].step = "read",
                                          ![h].attempts = @ + 1]
                ELSE EndRequest(h)
             /\ UNCHANGED record
       /\ UNCHANGED <<approved, index, provider, twilio, transport, call,
                      faults>>

\* The request raises or the webhook stops; Twilio does not repeat it.
RequestFails(h) ==
    /\ hook[h].step # "idle"
    /\ Fault
    /\ EndRequest(h)
    /\ UNCHANGED <<storage, provider, twilio, transport, call>>

-----------------------------------------------------------------------------
Handle(r) ==
    \/ Deliver(r) \/ StepRaises(r)
    \/ LookUpRecord(r) \/ VerifyDecision(r) \/ ResolveRecipient(r)
    \/ ExplainDecision(r)
    \/ Send(r) \/ SendFails(r) \/ SendTimesOut(r) \/ PutNotification(r)

Reconcile(h) ==
    \/ \E cb \in callbacks : ReceiveCallback(h, cb)
    \/ ReadRecord(h) \/ CompareAndSet(h) \/ RequestFails(h)

Next ==
    \/ \E m \in Message : PublishConfirmed(m) \/ LateAck(m)
    \/ \E d \in DecisionId : Revoke(d)
    \/ \E r \in Replica : Handle(r) \/ Crash(r)
    \/ \E h \in Hook : Reconcile(h)
    \/ \E s \in Sid, status \in CarrierStatus : Report(s, status)
    \/ RestartMcp

Spec == Init /\ [][Next]_vars

\* The service, the webhook and the broker's timer keep running.  The carrier
\* need not report anything.
Fairness ==
    /\ \A r \in Replica : WF_vars(Handle(r))
    /\ \A m \in Message : WF_vars(LateAck(m))
    /\ \A h \in Hook : WF_vars(Reconcile(h))

FairSpec == Spec /\ Fairness

-----------------------------------------------------------------------------
TypeOK ==
    /\ approved \subseteq DecisionId
    /\ record \in [DecisionId -> Record \cup {NoRecord}]
    /\ index \in [Sid -> DecisionId \cup {None}]
    /\ receipts \in [DecisionId -> Sid \cup {None}]
    /\ sms \in [Sid -> DecisionId \cup {None}]
    /\ carrier \in [Sid -> Progress \cup Terminal \cup {None}]
    /\ callbacks \subseteq Callback
    /\ hook \in [Hook -> Request]
    /\ restarts \in 0 .. MaxRestarts /\ timeouts \in 0 .. MaxTimeouts
    /\ message \in [Message -> MessageState]
    /\ deliveries \in [Message -> 0 .. MaxDeliveries]
    /\ deadLetters \subseteq DecisionId \cup {Unreadable}
    /\ call \in [Replica -> Call]
    /\ faults \in 0 .. MaxFaults

\* A confirmed event is acknowledged only after an SMS was created for it and
\* its provider id indexed, so that callbacks find the record; it is
\* terminated only after its dead letter is stored.
SettledOnlyWithResult ==
    \A m \in Message :
        /\ message[m] = "acked" =>
             \E s \in Sid : sms[s] = Body[m] /\ index[s] = Body[m]
        /\ message[m] = "termed" => Body[m] \in deadLetters

\* Whatever is redelivered, retried or lost on the way back, a decision is one
\* SMS; each restart of the MCP, which forgets its receipts, and each submission
\* Twilio did not answer accounts for at most one more.
RepeatsAccountedFor ==
    \A d \in DecisionId :
        Cardinality({s \in Sid : sms[s] = d}) <= 1 + restarts + timeouts

\* However callbacks are reordered, repeated or handled concurrently, what
\* the webhook writes is further along than what it overwrites.
CallbacksOnlyAdvance ==
    [][\A d \in DecisionId :
          hook' # hook /\ record'[d] # record[d]
          => Rank(StatusOf(record'[d])) > Rank(StatusOf(record[d]))]_vars

\* Every confirmed event ends acknowledged or dead-lettered.
EveryEventSettled ==
    \A m \in Message :
        message[m] = "available" ~> message[m] \in {"acked", "termed"}
=============================================================================
