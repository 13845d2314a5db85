---------------------------- MODULE EventDelivery ----------------------------
(***************************************************************************)
(* flight_agent/event_delivery.py and the JetStream durable consumer it    *)
(* configures: at-least-once delivery with explicit acknowledgement, an    *)
(* ack deadline, a delivery budget, and quarantine in the dead-letter      *)
(* store.  A consumer service INSTANCEs this module, gives Idle the shape  *)
(* of its callback's locals, and adds the steps between "decoded" and      *)
(* "ack".                                                                  *)
(*                                                                         *)
(* A replica is one process of the consumer's queue group; it runs one     *)
(* callback at a time.  call[r] is that callback: its step, the message,   *)
(* the delivery attempt it read, and the service's own fields.             *)
(***************************************************************************)
EXTENDS Integers

CONSTANTS
    Message,        \* messages of the consumer's subject
    Body,           \* what each message carries, or Unreadable
    Unreadable,     \* a body decode_envelope rejects
    Replica,        \* processes of the queue group
    MaxDeliveries,  \* EVENT_MAX_DELIVERIES, also the consumer's max_deliver
    MaxFaults,      \* bound: failures, crashes and late acks per behaviour
    Idle            \* call[r] of a replica that handles no message

VARIABLES
    message,        \* what JetStream knows of each message
    deliveries,     \* num_delivered of each message
    deadLetters,    \* event ids under DEADLETTER#<consumer>
    call,           \* each replica's callback
    faults          \* faults so far

Subject(r) == Body[call[r].message]

MessageState == {"unpublished", "available", "inflight", "acked", "termed",
                 "exhausted"}

Fault == faults < MaxFaults /\ faults' = faults + 1

Goto(r, step) == call' = [call EXCEPT ![r].step = step]

Return(r) == call' = [call EXCEPT ![r] = Idle]

-----------------------------------------------------------------------------
(* The broker.                                                             *)

\* A producer's publication is stored.
Offer(m) ==
    /\ message[m] = "unpublished"
    /\ message' = [message EXCEPT ![m] = "available"]
    /\ UNCHANGED <<deliveries, deadLetters, call, faults>>

\* max_deliver: a message delivered that often is not offered again.
Requeued(m) == IF deliveries[m] < MaxDeliveries THEN "available" ELSE "exhausted"

\* ack_wait passes.  It costs a fault only if a replica is still at work.
AckWaitExpires(m) ==
    /\ message[m] = "inflight"
    /\ message' = [message EXCEPT ![m] = Requeued(m)]
    /\ \/ /\ \A r \in Replica : call[r].step = "idle" \/ call[r].message # m
          /\ UNCHANGED faults
       \/ Fault
    /\ UNCHANGED <<deliveries, deadLetters, call>>

\* The first settlement the broker accepts is final.
Settled(m, state) ==
    message' = IF message[m] \in {"acked", "termed"} THEN message
               ELSE [message EXCEPT ![m] = state]

Nak(m) ==
    message' = IF message[m] = "inflight"
               THEN [message EXCEPT ![m] = Requeued(m)]
               ELSE message

-----------------------------------------------------------------------------
(* The callback.                                                           *)

\* decode_envelope comes first: what it rejects is quarantined at once.
Receive(r, m) ==
    /\ call[r].step = "idle"
    /\ message[m] = "available"
    /\ message' = [message EXCEPT ![m] = "inflight"]
    /\ deliveries' = [deliveries EXCEPT ![m] = @ + 1]
    /\ call' = [call EXCEPT ![r] =
          [Idle EXCEPT !.step = IF Body[m] = Unreadable THEN "quarantine"
                                                        ELSE "decoded",
                       !.message = m,
                       !.attempt = deliveries[m] + 1]]
    /\ UNCHANGED <<deadLetters, faults>>

Ack(r) ==
    /\ call[r].step = "ack"
    /\ \/ /\ Settled(call[r].message, "acked")
          /\ \/ Return(r) /\ UNCHANGED faults
             \/ Goto(r, "failed") /\ Fault    \* confirmation lost
       \/ /\ Goto(r, "failed") /\ Fault       \* not acknowledged
          /\ UNCHANGED message
    /\ UNCHANGED <<deliveries, deadLetters>>

\* A call of the handler's try block raises before it had an effect.
Raises(r, steps) ==
    /\ call[r].step \in steps
    /\ Fault
    /\ Goto(r, "failed")
    /\ UNCHANGED <<message, deliveries, deadLetters>>

\* retry_or_quarantine
RetryOrQuarantine(r) ==
    /\ call[r].step = "failed"
    /\ \/ /\ call[r].attempt >= MaxDeliveries
          /\ Goto(r, "quarantine")
          /\ UNCHANGED message
       \/ /\ call[r].attempt < MaxDeliveries
          /\ Nak(call[r].message)
          /\ Return(r)
    /\ UNCHANGED <<deliveries, deadLetters, faults>>

\* Mutant: quarantine_message terminates a message it could not store.
TermUnstored(r) ==
    /\ call[r].step = "quarantine"
    /\ \/ deadLetters' = deadLetters \cup {Subject(r)} /\ UNCHANGED faults
       \/ UNCHANGED deadLetters /\ Fault
    /\ Goto(r, "term")
    /\ UNCHANGED <<message, deliveries>>

\* quarantine_message: the dead letter first, then term().
PutDeadLetter(r) ==
    /\ call[r].step = "quarantine"
    /\ deadLetters' = deadLetters \cup {Subject(r)}
    /\ Goto(r, "term")
    /\ UNCHANGED <<message, deliveries, faults>>

Term(r) ==
    /\ call[r].step = "term"
    /\ Settled(call[r].message, "termed")
    /\ Return(r)
    /\ UNCHANGED <<deliveries, deadLetters, faults>>

\* What every consumer does around its own steps.
Consume(r) ==
    \/ \E m \in Message : Receive(r, m)
    \/ Ack(r) \/ RetryOrQuarantine(r) \/ PutDeadLetter(r) \/ Term(r)

\* A call of the error path raises: it leaves the callback and nothing is
\* settled.
ErrorPathRaises(r) ==
    /\ call[r].step \in {"failed", "quarantine", "term"}
    /\ Fault
    /\ Return(r)
    /\ UNCHANGED <<message, deliveries, deadLetters>>

\* The action services also settle by these steps inside the try block
\* (call[r].guarded); there the exception is caught, once.
GuardedSettlementRaises(r) ==
    /\ call[r].step \in {"failed", "quarantine", "term"}
    /\ Fault
    /\ call' = [call EXCEPT ![r].step = "failed", ![r].guarded = FALSE]
    /\ UNCHANGED <<message, deliveries, deadLetters>>
=============================================================================
