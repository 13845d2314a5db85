-------------------------- MODULE OperationsRedrive --------------------------
(***************************************************************************)
(* The operations service (flight_agent/operations_service.py) above the    *)
(* SQS transport: an operator's call reads a dead letter, claims its        *)
(* request id, publishes the stored event to the queue of the consumer      *)
(* that failed, marks the dead letter and finishes the claim.  Several      *)
(* calls may run at once, with the same or with different request ids.      *)
(***************************************************************************)
EXTENDS SqsEventBus

CONSTANT
    Call            \* operators' HTTP calls

VARIABLES
    redrive,    \* REDRIVE#consumer#event / REQUEST#id
    call        \* each operator call: the handler's step, its dead letter and
                \* the request id the operator gave

opsVars == <<redrive, call>>
allVars == <<vars, opsVars>>

Target  == Key \X Request
NoCall  == [step |-> "new", target |-> None]

OpsInit ==
    /\ Init
    /\ redrive = [x \in Target |-> "absent"]
    /\ call = [o \in Call |-> NoCall]

KeyOfCall(o) == call[o].target[1]

Step(o, step) == call' = [call EXCEPT ![o].step = step]

\* Only an active dead letter is re-driven; any other is answered with
\* already_redriven.
ReadDeadLetter(o, k, q) ==
    /\ call[o] = NoCall
    /\ dead[k] # "absent"
    /\ call' = [call EXCEPT ![o] = [target |-> <<k, q>>,
          step |-> IF dead[k] = "active" THEN "claim" ELSE "done"]]
    /\ UNCHANGED <<vars, redrive>>

\* Mutant: the claim is written without its condition.
ClaimUnconditionally(o) ==
    /\ call[o].step = "claim"
    /\ redrive' = [redrive EXCEPT ![call[o].target] = "publishing"]
    /\ Step(o, "publish")
    /\ UNCHANGED vars

\* claim_redrive: one claim per consumer, event and request.
ClaimRedrive(o) ==
    /\ call[o].step = "claim"
    /\ IF redrive[call[o].target] = "absent"
       THEN /\ redrive' = [redrive EXCEPT ![call[o].target] = "publishing"]
            /\ Step(o, "publish")
       ELSE Step(o, "done") /\ UNCHANGED redrive
    /\ UNCHANGED vars

\* publish_durable_event to the target's queue only; the answer may be lost.
PublishRedrive(o) ==
    /\ call[o].step = "publish"
    /\ Send(KeyOfCall(o), call[o].target[2])
    /\ \/ Step(o, "mark") /\ UNCHANGED faults
       \/ Step(o, "fail") /\ Fault("other")
    /\ UNCHANGED <<row, sending, work, redrive>>

\* Mutant: the dead letter is marked before the event is published.
MarkFirst(o) ==
    /\ call[o].step = "publish"
    /\ dead' = [dead EXCEPT ![KeyOfCall(o)] = "redriven"]
    /\ Step(o, "finish")
    /\ UNCHANGED <<queues, claim, expired, handled, poll, faults, redrive>>

\* mark_dead_letter_redriven, on condition that there is one, whatever its
\* status has become.
MarkRedriven(o) ==
    /\ call[o].step = "mark"
    /\ dead' = [dead EXCEPT ![KeyOfCall(o)] = "redriven"]
    /\ Step(o, "finish")
    /\ UNCHANGED <<queues, claim, expired, handled, poll, faults, redrive>>

FinishRedrive(o) ==
    /\ call[o].step \in {"finish", "fail"}
    /\ redrive' = [redrive EXCEPT ![call[o].target] =
                     IF call[o].step = "finish" THEN "published" ELSE "failed"]
    /\ Step(o, "done")
    /\ UNCHANGED vars

\* A call of the try block raises: the claim is finished as failed.  Before
\* it, and when that fails too, the handler gives up.
RedriveRaises(o) ==
    /\ call[o].step \in {"claim", "publish", "mark", "finish", "fail"}
    /\ Fault("other")
    /\ Step(o, IF call[o].step \in {"publish", "mark", "finish"}
               THEN "fail" ELSE "done")
    /\ UNCHANGED <<queues, work, redrive>>

\* The operations service is restarted.
OperationsRestart(o) ==
    /\ call[o].step \in {"claim", "publish", "mark", "finish", "fail"}
    /\ Fault("other")
    /\ Step(o, "done")
    /\ UNCHANGED <<queues, work, redrive>>

Operate(o) ==
    \/ ClaimRedrive(o) \/ PublishRedrive(o) \/ MarkRedriven(o)
    \/ FinishRedrive(o)

Next ==
    \/ Transport /\ UNCHANGED opsVars
    \/ \E o \in Call : \/ Operate(o) \/ RedriveRaises(o) \/ OperationsRestart(o)
                       \/ \E k \in Key, q \in Request : ReadDeadLetter(o, k, q)

Spec == OpsInit /\ [][Next]_allVars

\* The publisher's loop, the timers and each poll loop keep going; no call has
\* to fail and no operator has to call.
Fairness ==
    /\ WF_allVars(Publisher /\ UNCHANGED opsVars)
    /\ WF_allVars(Timers /\ UNCHANGED opsVars)
    /\ \A r \in Receiver : WF_allVars(Poll(r) /\ UNCHANGED opsVars)

FairSpec == Spec /\ Fairness

-----------------------------------------------------------------------------
PollStep == {"receive", "next", "busy", "callback", "complete", "delete",
             "quarantine", "release", "extend", "term",
             "term_delete", "stopped"}

TypeOK ==
    /\ row \in [Event -> {"pending", "deleted"}]
    /\ sending \in [Event -> SUBSET Consumer]
    /\ copy \in [Copy ->
          [state : {"unsent", "visible", "inflight", "deleted", "native"},
           received : 0 .. MaxDeliveries, holder : Receiver \cup {None},
           via : Request \cup {Outbox}]]
    /\ claim \in [Key -> {"absent", "processing", "complete"}]
    /\ expired \subseteq {k \in Key : claim[k] = "processing"}
    /\ handled \subseteq Key
    /\ dead \in [Key -> {"absent", "active", "redriven"}]
    /\ poll \in [Receiver -> [step : PollStep, todo : SUBSET Receipt,
                              at : Receipt \cup {None}, guard : Guard,
                              heartbeat : BOOLEAN]]
    /\ redrive \in [Target -> {"absent", "publishing", "published", "failed"}]
    /\ call \in [Call -> [step : {"new", "claim", "publish", "mark", "finish",
                                  "fail", "done"}, target : Target \cup {None}]]
    /\ faults \in [call : Nat, lease : Nat, other : Nat] /\ Faults <= MaxFaults

Sent(k) == {m \in Copy : KeyOf(m) = k /\ copy[m].state # "unsent"}

\* An event is not lost between its queues: once every copy a consumer's
\* queue got is deleted, the callback has done its work or the event is a
\* dead letter, whichever calls raised and whose lease ran out.
DeletedOnlyWithResult ==
    \A k \in Key :
        /\ Sent(k) # {}
        /\ \A m \in Sent(k) : copy[m].state = "deleted"
        => k \in handled \/ dead[k] # "absent"

\* The outbox row is gone only when every consumer's queue got the event.
FanOutComplete ==
    \A e \in Event : row[e] = "deleted" =>
        \A c \in Consumer : Sent(<<c, e>>) # {}

\* Two receivers run the callback of one event at once only after a lease ran
\* out under one of them, or a call of its settlement raised and the claim was
\* released once more than it was held.  Neither a second copy, nor a message
\* that became visible too soon, nor a restart does it.
Running(k) == {r \in Receiver : poll[r].step = "callback" /\ KeyAt(r) = k}

OneRunAtATime ==
    faults.lease = 0 /\ faults.call = 0 =>
        \A k \in Key : Cardinality(Running(k)) <= 1

\* A request id re-drives an event at most once, whoever repeats the call.
RedrivenOncePerRequest ==
    \A k \in Key, q \in Request :
        Cardinality({m \in Sent(k) : copy[m].via = q}) <= 1

\* A dead letter counts as re-driven only after a re-drive was published
\* (docs/vertical-slice-09.md, step 6 of the controlled re-drive).
MarkedAfterPublication ==
    \A k \in Key : dead[k] = "redriven" =>
        \E m \in Sent(k) : copy[m].via # Outbox

\* Every event of the outbox ends handled or in the dead-letter store of every
\* consumer that is polled.  Only a failing call, a crash or a late one leaves
\* it to the queue's own dead-letter queue, or to receive loops that are all
\* over.
EventsSettled ==
    \A k \in Key :
        LET polling == {r \in Receiver : Serves[r] = k[1]} IN
        polling # {} =>
            (row[k[2]] = "pending" ~>
                \/ k \in handled \/ dead[k] # "absent"
                \/ /\ Faults > 0
                   /\ \/ \E m \in Copy : KeyOf(m) = k /\ copy[m].state = "native"
                      \/ \A r \in polling : poll[r].step = "stopped")
=============================================================================
