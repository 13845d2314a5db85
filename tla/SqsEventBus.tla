----------------------------- MODULE SqsEventBus -----------------------------
(***************************************************************************)
(* The SQS transport (flight_agent/event_bus.py, SqsEventBus) between an    *)
(* outbox and its consumers, with the dead letters of event_delivery.py.    *)
(*                                                                         *)
(* An event is sent to one queue per consumer, one call after the other.    *)
(* A receiver is the _poll loop of one process: it takes a batch, claims    *)
(* each event id in DynamoDB, runs the consumer's callback, and settles.    *)
(* A step is one call; a call may raise, and where the exception lands      *)
(* depends on what encloses it: the callback, the loop's try, or nothing,   *)
(* in which case the loop is over while its process lives on.               *)
(***************************************************************************)
EXTENDS Integers, FiniteSets

CONSTANTS
    Event,          \* event ids
    Consumer,       \* durable consumers of the subject, one queue each
    Receiver,       \* processes that poll
    Serves,         \* the consumer each of them serves
    Request,        \* request ids of operators' re-drives
    MaxCopies,      \* bound: copies of one event that a queue ever holds
    MaxDeliveries,  \* EVENT_MAX_DELIVERIES, and the queue's maxReceiveCount
    BatchSize,      \* MaxNumberOfMessages
    MaxFaults,      \* bound: calls that raise, crashes, late calls
    Outbox,         \* the source of a copy that is not a re-drive
    None

VARIABLES
    row,        \* OUTBOX#... / EVENT#e
    sending,    \* queues the publisher has still to send the event to
    copy,       \* each message of each queue
    claim,      \* the idempotency table: consumer#event
    expired,    \* claims whose lease_expires_at has passed
    handled,    \* events whose callback did its work, per consumer
    dead,       \* DEADLETTER#consumer / EVENT#e
    poll,       \* each receiver's loop and the message it is at
    faults      \* how many of each kind there were

queues == <<row, sending, copy>>
work   == <<claim, expired, handled, dead, poll>>
vars   == <<queues, work, faults>>

Key  == Consumer \X Event
Copy == Key \X (1 .. MaxCopies)

KeyOf(m) == m[1]
Queue(m) == m[1][1]

Unsent == [state |-> "unsent", received |-> 0, holder |-> None, via |-> Outbox]

Receipt == [copy : Copy, attempt : 1 .. MaxDeliveries]

ASSUME SqsAssumption ==
    /\ Serves \in [Receiver -> Consumer]
    /\ MaxCopies \in Nat \ {0}
    /\ MaxDeliveries \in Nat \ {0}
    /\ BatchSize \in Nat \ {0}
    /\ MaxFaults \in Nat
    /\ None \notin Receiver \cup Receipt
    /\ Outbox \notin Request

\* Where a raised exception lands.
Guard == {"callback", "try", "none"}

\* poll[r]: the receipts of the batch still to do, the one at hand, and
\* whether its heartbeat task still runs.
Idle == [step |-> "receive", todo |-> {}, at |-> None, guard |-> "none",
         heartbeat |-> FALSE]

Init ==
    /\ row = [e \in Event |-> "pending"]
    /\ sending = [e \in Event |-> {}]
    /\ copy = [m \in Copy |-> Unsent]
    /\ claim = [k \in Key |-> "absent"]
    /\ expired = {}
    /\ handled = {}
    /\ dead = [k \in Key |-> "absent"]
    /\ poll = [r \in Receiver |-> Idle]
    /\ faults = [call |-> 0, lease |-> 0, other |-> 0]

\* A call of a receiver raises, a lease runs out under one, or anything else.
Faults == faults.call + faults.lease + faults.other

Fault(kind) ==
    Faults < MaxFaults /\ faults' = [faults EXCEPT ![kind] = @ + 1]

At(r)    == poll[r].at.copy
KeyAt(r) == KeyOf(At(r))

-----------------------------------------------------------------------------
(* publish.                                                                *)

\* send_message: one more copy in the queue.
Send(k, source) ==
    \E n \in 1 .. MaxCopies :
        /\ copy[<<k, n>>] = Unsent
        /\ \A i \in 1 .. (n - 1) : copy[<<k, i>>] # Unsent
        /\ copy' = [copy EXCEPT ![<<k, n>>] =
                       [Unsent EXCEPT !.state = "visible", !.via = source]]

\* Without a target the event goes to every queue mapped to its subject.
StartPublish(e) ==
    /\ row[e] = "pending" /\ sending[e] = {}
    /\ sending' = [sending EXCEPT ![e] = Consumer]
    /\ UNCHANGED <<row, copy, work, faults>>

\* Mutant: the row is deleted with the first copy that is sent.
SendToFirst(e, c) ==
    /\ c \in sending[e]
    /\ Send(<<c, e>>, Outbox)
    /\ sending' = [sending EXCEPT ![e] = {}]
    /\ row' = [row EXCEPT ![e] = "deleted"]
    /\ UNCHANGED <<work, faults>>

\* The last destination's answer ends publish; the row is deleted then.
SendTo(e, c) ==
    /\ c \in sending[e]
    /\ Send(<<c, e>>, Outbox)
    /\ sending' = [sending EXCEPT ![e] = @ \ {c}]
    /\ row' = IF sending[e] = {c} THEN [row EXCEPT ![e] = "deleted"] ELSE row
    /\ UNCHANGED <<work, faults>>

\* A send (its answer lost or not sent at all) or the deletion raises: the
\* row stays, with the failure noted, and what was sent stays sent.
PublishRaises(e, c) ==
    /\ c \in sending[e]
    /\ Fault("other")
    /\ Send(<<c, e>>, Outbox) \/ UNCHANGED copy
    /\ sending' = [sending EXCEPT ![e] = {}]
    /\ UNCHANGED <<row, work>>

-----------------------------------------------------------------------------
(* The queue.                                                              *)

\* receive_message returns up to BatchSize visible messages.
Receive(r) ==
    /\ poll[r].step = "receive"
    /\ \E taken \in SUBSET {m \in Copy : /\ Queue(m) = Serves[r]
                                         /\ copy[m].state = "visible"
                                         /\ copy[m].received < MaxDeliveries} :
        /\ taken # {} /\ Cardinality(taken) <= BatchSize
        /\ copy' = [m \in Copy |->
              IF m \in taken
              THEN [copy[m] EXCEPT !.state = "inflight", !.holder = r,
                                   !.received = @ + 1]
              ELSE copy[m]]
        /\ poll' = [poll EXCEPT ![r].step = "next",
              ![r].todo = {[copy |-> m, attempt |-> copy[m].received + 1] :
                           m \in taken}]
    /\ UNCHANGED <<row, sending, claim, expired, handled, dead, faults>>

\* The queue's redrive policy: received that often, a message goes to the
\* queue's own dead-letter queue, of which the service knows nothing.
MoveToNativeQueue(m) ==
    /\ copy[m].state = "visible"
    /\ copy[m].received >= MaxDeliveries
    /\ copy' = [copy EXCEPT ![m].state = "native"]
    /\ UNCHANGED <<row, sending, work, faults>>

\* A receiver is busy with the message, or has it in its batch.
Held(m) ==
    LET r == copy[m].holder
    IN \/ \E t \in poll[r].todo : t.copy = m
       \/ /\ poll[r].at # None /\ At(r) = m
          /\ poll[r].heartbeat \/ poll[r].guard = "none"

\* The visibility timeout passes.  The heartbeat prevents it for the message
\* at hand only, so that for a batch it takes a slow callback.
VisibilityExpires(m) ==
    /\ copy[m].state = "inflight"
    /\ copy' = [copy EXCEPT ![m].state = "visible"]
    /\ IF Held(m) THEN Fault("other") ELSE UNCHANGED faults
    /\ UNCHANGED <<row, sending, work>>

\* The lease of a claim passes.  No heartbeat extends it.
LeaseExpires(k) ==
    /\ claim[k] = "processing" /\ k \notin expired
    /\ expired' = expired \cup {k}
    /\ IF \E r \in Receiver : poll[r].at # None /\ KeyAt(r) = k
       THEN Fault("lease") ELSE UNCHANGED faults
    /\ UNCHANGED <<queues, claim, handled, dead, poll>>

-----------------------------------------------------------------------------
(* _poll.                                                                  *)

Goto(r, step) == poll' = [poll EXCEPT ![r].step = step]

\* The loop's next message.  After a callback the finally block cancels the
\* heartbeat and awaits it, which raises if the heartbeat had failed.
Continue(r) ==
    poll' = [poll EXCEPT ![r] =
        IF poll[r].guard # "none" /\ ~poll[r].heartbeat
        THEN [Idle EXCEPT !.step = "stopped"]
        ELSE [Idle EXCEPT !.todo = poll[r].todo,
                 !.step = IF poll[r].todo = {} THEN "receive" ELSE "next"]]

\* Mutant: a claim past its lease is taken over even if it was completed.
ClaimAnyExpired(r, t) ==
    LET k == KeyOf(t.copy)
    IN /\ poll[r].step = "next"
       /\ t \in poll[r].todo
       /\ claim' = [claim EXCEPT ![k] = "processing"]
       /\ expired' = expired \ {k}
       /\ poll' = [poll EXCEPT ![r].todo = @ \ {t}, ![r].at = t,
                     ![r].step = "callback", ![r].guard = "callback",
                     ![r].heartbeat = TRUE]
       /\ UNCHANGED <<queues, handled, dead, faults>>

\* put_item on condition that there is no claim or its lease has expired; a
\* completed claim has no lease.  Otherwise the claim's status is read.
Claim(r, t) ==
    LET k    == KeyOf(t.copy)
        free == claim[k] = "absent" \/ k \in expired
    IN /\ poll[r].step = "next"
       /\ t \in poll[r].todo
       /\ claim' = IF free THEN [claim EXCEPT ![k] = "processing"] ELSE claim
       /\ expired' = expired \ {k}
       /\ poll' = [poll EXCEPT ![r].todo = @ \ {t}, ![r].at = t,
             ![r].step = IF free THEN "callback"
                         ELSE IF claim[k] = "complete" THEN "complete" ELSE "busy",
             ![r].guard = IF free THEN "callback" ELSE "none",
             ![r].heartbeat = free]
       /\ UNCHANGED <<queues, handled, dead, faults>>

\* Another receiver is at work: come back in EVENT_RETRY_DELAY_SECONDS.
ExtendBusy(r) ==
    /\ poll[r].step = "busy"
    /\ copy' = [copy EXCEPT ![At(r)].state =
                   IF @ = "inflight" THEN "visible" ELSE @]
    /\ Continue(r)
    /\ UNCHANGED <<row, sending, claim, expired, handled, dead, faults>>

\* retry_or_quarantine, on the receive count this delivery carries.
RetryOrQuarantine(r) ==
    Goto(r, IF poll[r].at.attempt >= MaxDeliveries THEN "quarantine"
                                                  ELSE "release")

\* The consumer's callback succeeds, or raises inside its try block.
RunCallback(r) ==
    /\ poll[r].step = "callback"
    /\ \/ handled' = handled \cup {KeyAt(r)} /\ Goto(r, "complete")
       \/ UNCHANGED handled /\ RetryOrQuarantine(r)
    /\ UNCHANGED <<queues, claim, expired, dead, faults>>

\* _heartbeat: change_message_visibility raises and ends the task.
HeartbeatFails(r) ==
    /\ poll[r].heartbeat
    /\ Fault("other")
    /\ poll' = [poll EXCEPT ![r].heartbeat = FALSE]
    /\ UNCHANGED <<queues, claim, expired, handled, dead>>

\* ack_sync: complete the claim, whatever became of it, then delete.
Complete(r) ==
    /\ poll[r].step = "complete"
    /\ claim' = [claim EXCEPT ![KeyAt(r)] = "complete"]
    /\ expired' = expired \ {KeyAt(r)}
    /\ Goto(r, "delete")
    /\ UNCHANGED <<queues, handled, dead, faults>>

\* delete_message.  The receipt of an earlier delivery may have no effect.
Delete(r) ==
    /\ poll[r].step \in {"delete", "term_delete"}
    /\ \/ copy' = [copy EXCEPT ![At(r)].state = "deleted"]
       \/ copy[At(r)].holder # r /\ UNCHANGED copy
    /\ Continue(r)
    /\ UNCHANGED <<row, sending, claim, expired, handled, dead, faults>>

\* Mutant: the message is terminated though its dead letter was not stored.
TermUnstored(r) ==
    /\ poll[r].step = "quarantine"
    /\ Goto(r, "term")
    /\ UNCHANGED <<queues, claim, expired, handled, dead, faults>>

\* quarantine_message: the dead letter, active whatever it was, then term(),
\* whose first call copies the message to the configured queue.
PutDeadLetter(r) ==
    /\ poll[r].step = "quarantine"
    /\ dead' = [dead EXCEPT ![KeyAt(r)] = "active"]
    /\ Goto(r, "term")
    /\ UNCHANGED <<queues, claim, expired, handled, faults>>

\* An exception leaves the callback: the loop gives the message back itself.
\* Outside its try nothing catches: the task ends, its process goes on.
Escape(r) ==
    poll' = IF poll[r].guard = "callback"
            THEN [poll EXCEPT ![r].step = "release", ![r].guard = "try"]
            ELSE [poll EXCEPT ![r] = [Idle EXCEPT !.step = "stopped"]]

\* release: delete_item on condition that the claim says "processing",
\* whoever holds it; the condition failing raises.
Release(r) ==
    /\ poll[r].step \in {"release", "term"}
    /\ \/ /\ claim[KeyAt(r)] = "processing"
          /\ claim' = [claim EXCEPT ![KeyAt(r)] = "absent"]
          /\ expired' = expired \ {KeyAt(r)}
          /\ Goto(r, IF poll[r].step = "term" THEN "term_delete" ELSE "extend")
       \/ /\ claim[KeyAt(r)] # "processing"
          /\ Escape(r)
          /\ UNCHANGED <<claim, expired>>
    /\ UNCHANGED <<queues, handled, dead, faults>>

\* nak: visible again after the retry delay.
MakeVisible(r) ==
    /\ poll[r].step = "extend"
    /\ copy' = [copy EXCEPT ![At(r)].state =
                   IF @ = "inflight" THEN "visible" ELSE @]
    /\ Continue(r)
    /\ UNCHANGED <<row, sending, claim, expired, handled, dead, faults>>

\* A call raises before it had an effect.  An acknowledgement inside the
\* callback is still in the consumer's try block.
CallRaises(r) ==
    /\ poll[r].step \in {"next", "busy", "complete", "delete", "quarantine",
                         "release", "term", "term_delete", "extend"}
    /\ Fault("call")
    /\ IF poll[r].step \in {"complete", "delete"} /\ poll[r].guard = "callback"
       THEN RetryOrQuarantine(r)
       ELSE Escape(r)
    /\ UNCHANGED <<queues, claim, expired, handled, dead>>

\* The process stops and is restarted; claims and messages stay as they are.
Restart(r) ==
    /\ poll[r].step # "receive"
    /\ Fault("other")
    /\ poll' = [poll EXCEPT ![r] = Idle]
    /\ UNCHANGED <<queues, claim, expired, handled, dead>>

Poll(r) ==
    \/ Receive(r) \/ ExtendBusy(r) \/ RunCallback(r) \/ Complete(r)
    \/ Delete(r) \/ PutDeadLetter(r) \/ Release(r) \/ MakeVisible(r)
    \/ \E t \in poll[r].todo : Claim(r, t)

Publisher == \E e \in Event : \/ StartPublish(e)
                             \/ \E c \in Consumer : SendTo(e, c)

Timers == \/ \E m \in Copy : MoveToNativeQueue(m) \/ VisibilityExpires(m)
          \/ \E k \in Key : LeaseExpires(k)

Transport ==
    \/ Publisher \/ Timers
    \/ \E e \in Event, c \in Consumer : PublishRaises(e, c)
    \/ \E r \in Receiver : Poll(r) \/ HeartbeatFails(r) \/ CallRaises(r)
                          \/ Restart(r)
=============================================================================
