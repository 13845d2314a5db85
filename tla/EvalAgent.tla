------------------------------ MODULE EvalAgent ------------------------------
(***************************************************************************)
(* The Eval Agent (flight_agent/eval_service.py) on the JetStream          *)
(* transport: replicas of the service consume disruption candidates        *)
(* at least once, decide each with the suppression policy, commit the      *)
(* decision together with its confirmed-event outbox, publish, and settle  *)
(* the message; a background loop drains the outbox.                       *)
(*                                                                         *)
(* A step of the handler is one call it makes: a DynamoDB read, the        *)
(* TransactWriteItems commit, a publication, an acknowledgement.  Each     *)
(* may fail, the process may stop between any two, and the ack deadline    *)
(* may pass while a replica is still working.                              *)
(***************************************************************************)
EXTENDS Integers, SuppressionPolicy

CONSTANTS
    Candidate,      \* candidate ids
    Fact,           \* the policy-relevant fields of each candidate
    Message,        \* messages of travel.disruption_candidate.v1
    Body,           \* the candidate each message carries, or Unreadable
    Unreadable,     \* a body decode_envelope rejects
    Replica,        \* processes of the queue group travel-eval-agent-v1
    MaxDeliveries,  \* EVENT_MAX_DELIVERIES, also the consumer's max_deliver
    MaxFaults,      \* bound: failures, crashes and late acks per behaviour
    None            \* "no message", "no candidate"

ASSUME EvalAssumption ==
    /\ Unreadable \notin Candidate
    /\ None \notin Candidate \cup Message
    /\ Body \in [Message -> Candidate \cup {Unreadable}]
    /\ MaxDeliveries \in Nat \ {0}
    /\ MaxFaults \in Nat

ASSUME FactAssumption ==
    \A c \in Candidate : /\ Fact[c].category \in Category
                         /\ Fact[c].delay \in Nat
                         /\ Fact[c].corroborated \in BOOLEAN

VARIABLES
    decision,       \* CANDIDATE#c / DECISION
    confirmed,      \* CANDIDATE#c / CONFIRMED_EVENT
    band,           \* POLICY#episode / HIGHEST_NOTIFIED_BAND
    outbox,         \* OUTBOX#disruption_confirmed / EVENT#decision-c
    stream,         \* events on travel.disruption_confirmed.v1
    message,        \* what JetStream knows of each candidate message
    deliveries,     \* num_delivered of each candidate message
    deadLetters,    \* event ids under DEADLETTER#travel-eval-agent-v1
    call,           \* each replica's message callback and its locals
    batch,          \* records the replica's drain loop listed, not yet done
    drained,        \* record it published and has not yet deleted
    faults          \* faults so far

stored    == <<decision, confirmed, band, outbox, stream>>
transport == <<message, deliveries, deadLetters>>
drainer   == <<batch, drained>>
vars      == <<stored, transport, call, drainer, faults>>

\* Absent items.  They are records so that TLC can compare them.
NoDecision == [verdict |-> "NONE", reasons |-> {}]
NoRow      == [verdict |-> "NO_ROW", reasons |-> {}]
\* An outbox row that note_outbox_failure created: counters, no payload.
GhostRow   == [verdict |-> "GHOST_ROW", reasons |-> {}]

Episode == {EpisodeKey(Fact[c]) : c \in Candidate}
Event   == [candidate : Candidate, decision : Decision]
NoEvent == [candidate |-> None, decision |-> NoDecision]

Step == {"idle", "decoded", "band", "commit", "publish", "delete", "ack",
         "failed", "quarantine", "term"}

\* The locals of process_candidate_message: the message, its delivery
\* attempt, and the decision and band computed but not yet committed.
Call == [step : Step, message : Message \cup {None},
         attempt : 0 .. MaxDeliveries,
         decision : Decision \cup {NoDecision}, band : Band \cup {NoBand}]

Idle == [step |-> "idle", message |-> None, attempt |-> 0,
         decision |-> NoDecision, band |-> NoBand]

INSTANCE EventDelivery

Init ==
    /\ decision  = [c \in Candidate |-> NoDecision]
    /\ confirmed = [c \in Candidate |-> NoDecision]
    /\ band = [e \in Episode |-> NoBand]
    /\ outbox = [c \in Candidate |-> NoRow]
    /\ deadLetters = {}
    /\ stream = {}
    /\ message = [m \in Message |-> "unpublished"]
    /\ deliveries = [m \in Message |-> 0]
    /\ call = [r \in Replica |-> Idle]
    /\ batch = [r \in Replica |-> {}]
    /\ drained = [r \in Replica |-> NoEvent]
    /\ faults = 0

-----------------------------------------------------------------------------
(* The transport.                                                          *)

\* The Monitoring Agent's publication of a candidate.
PublishCandidate(m) == Offer(m) /\ UNCHANGED <<stored, drainer>>

LateAck(m) == AckWaitExpires(m) /\ UNCHANGED <<stored, drainer>>

\* Receiving, settling, retrying and quarantining.
Deliver(r) ==
    /\ Consume(r) \/ ErrorPathRaises(r)
    /\ UNCHANGED <<stored, drainer>>

OnStream(c) == \E e \in stream : e.candidate = c

\* Nats-Msg-Id is the decision id: inside the duplicate window the broker
\* acknowledges a repeated publication and drops it.
Publish(e) ==
    \/ stream' = stream \cup {e}
    \/ OnStream(e.candidate) /\ UNCHANGED stream

-----------------------------------------------------------------------------
(* process_candidate_message.                                              *)

\* Mutant: the candidate is evaluated again whatever was decided.
CheckNothing(r) ==
    /\ call[r].step = "decoded"
    /\ Goto(r, "band")
    /\ UNCHANGED <<stored, transport, drainer, faults>>

\* Mutant: a candidate already decided is skipped without an acknowledgement.
CheckWithoutAck(r) ==
    /\ call[r].step = "decoded"
    /\ IF decision[Subject(r)] # NoDecision THEN Return(r) ELSE Goto(r, "band")
    /\ UNCHANGED <<stored, transport, drainer, faults>>

\* An existing decision is the whole answer: acknowledge and stop.
CheckDecision(r) ==
    /\ call[r].step = "decoded"
    /\ Goto(r, IF decision[Subject(r)] # NoDecision THEN "ack" ELSE "band")
    /\ UNCHANGED <<stored, transport, drainer, faults>>

\* Read the episode's band and evaluate; the advisory model never changes
\* what was computed here.
EvaluateCandidate(r) ==
    /\ call[r].step = "band"
    /\ LET fact     == Fact[Subject(r)]
           previous == band[EpisodeKey(fact)]
       IN call' = [call EXCEPT ![r].step = "commit",
                               ![r].decision = Evaluate(fact, previous),
                               ![r].band = BandAfter(fact, previous)]
    /\ UNCHANGED <<stored, transport, drainer, faults>>

\* Mutant: the transaction leaves the outbox record out.
CommitWithoutOutbox(r) ==
    LET c == Subject(r)
        p == call[r]
    IN /\ decision' = [decision EXCEPT ![c] = p.decision]
       /\ confirmed' = IF p.decision.verdict # "SUPPRESS"
                       THEN [confirmed EXCEPT ![c] = p.decision] ELSE confirmed
       /\ band' = IF p.band = NoBand THEN band
                  ELSE [band EXCEPT ![EpisodeKey(Fact[c])] = p.band]
       /\ UNCHANGED outbox

\* TransactWriteItems of unconditional Puts.  The band is written whenever
\* the evaluation ended with one, a suppressed repeat included.
CommitEvaluation(r) ==
    LET c == Subject(r)
        p == call[r]
        approved == p.decision.verdict # "SUPPRESS"
    IN /\ decision' = [decision EXCEPT ![c] = p.decision]
       /\ confirmed' = IF approved THEN [confirmed EXCEPT ![c] = p.decision]
                                   ELSE confirmed
       /\ outbox' = IF approved THEN [outbox EXCEPT ![c] = p.decision]
                                ELSE outbox
       /\ band' = IF p.band = NoBand THEN band
                  ELSE [band EXCEPT ![EpisodeKey(Fact[c])] = p.band]

Commit(r) ==
    /\ call[r].step = "commit"
    /\ CommitEvaluation(r)
    /\ \/ /\ Goto(r, IF call[r].decision.verdict # "SUPPRESS"
                     THEN "publish" ELSE "ack")
          /\ UNCHANGED faults
       \/ /\ Fault                      \* committed, but the reply was lost
          /\ Goto(r, "failed")
    /\ UNCHANGED <<stream, transport, drainer>>

PublishConfirmed(r) ==
    /\ call[r].step = "publish"
    /\ Publish([candidate |-> Subject(r), decision |-> call[r].decision])
    /\ \/ Goto(r, "delete") /\ UNCHANGED faults
       \/ Goto(r, "ack") /\ Fault       \* published, acknowledgement lost
    /\ UNCHANGED <<decision, confirmed, band, outbox, transport,
                   drainer>>

DeletePublished(r) ==
    /\ call[r].step = "delete"
    /\ outbox' = [outbox EXCEPT ![Subject(r)] = NoRow]
    /\ Goto(r, "ack")
    /\ UNCHANGED <<decision, confirmed, band, stream, transport,
                   drainer, faults>>

\* Mutant: the outbox row is cleaned up when the publication failed too.
PublicationFailsCleansUp(r) ==
    /\ call[r].step \in {"publish", "delete"}
    /\ Fault
    /\ Goto(r, "ack")
    /\ outbox' = [outbox EXCEPT ![Subject(r)] = NoRow]
    /\ UNCHANGED <<decision, confirmed, band, stream, transport,
                   drainer>>

\* Failures of the two calls above are swallowed: the outbox row stays.
PublicationFails(r) ==
    /\ call[r].step \in {"publish", "delete"}
    /\ Fault
    /\ Goto(r, "ack")
    /\ UNCHANGED <<stored, transport, drainer>>

\* A call of the try block raises before it had an effect.
StepRaises(r) ==
    /\ Raises(r, {"decoded", "band", "commit"})
    /\ UNCHANGED <<stored, drainer>>

-----------------------------------------------------------------------------
(* drain_confirmed_outbox / publish_pending_outbox.  The rows are listed    *)
(* once and then handled one by one, whatever became of them meanwhile.     *)

ListOutbox(r) ==
    /\ batch[r] = {} /\ drained[r] = NoEvent
    /\ batch' = [batch EXCEPT ![r] =
          {[candidate |-> c, decision |-> outbox[c]] :
             c \in {x \in Candidate : outbox[x] \notin {NoRow, GhostRow}}}]
    /\ UNCHANGED <<stored, transport, call, drained, faults>>

DrainPublish(r, e) ==
    /\ e \in batch[r] /\ drained[r] = NoEvent
    /\ Publish(e)
    /\ batch' = [batch EXCEPT ![r] = @ \ {e}]
    /\ drained' = [drained EXCEPT ![r] = e]
    /\ UNCHANGED <<decision, confirmed, band, outbox, transport,
                   call, faults>>

DrainDelete(r) ==
    /\ drained[r] # NoEvent
    /\ outbox' = [outbox EXCEPT ![drained[r].candidate] = NoRow]
    /\ drained' = [drained EXCEPT ![r] = NoEvent]
    /\ UNCHANGED <<decision, confirmed, band, stream, transport,
                   call, batch, faults>>

\* The publication (acknowledged by the broker or not) or the deletion
\* raises.  note_outbox_failure is an update without a condition: when the
\* row is already gone it creates one that has no payload.
DrainFails(r, e) ==
    /\ \/ /\ e \in batch[r] /\ drained[r] = NoEvent
          /\ Publish(e) \/ UNCHANGED stream
       \/ /\ e = drained[r] /\ e # NoEvent
          /\ UNCHANGED stream
    /\ Fault
    /\ batch' = [batch EXCEPT ![r] = @ \ {e}]
    /\ drained' = [drained EXCEPT ![r] = NoEvent]
    /\ outbox' = IF outbox[e.candidate] = NoRow
                 THEN [outbox EXCEPT ![e.candidate] = GhostRow]
                 ELSE outbox
    /\ UNCHANGED <<decision, confirmed, band, transport, call>>

\* The failure note raises as well: the loop gives up the rest of the batch.
DrainAborts(r) ==
    /\ batch[r] # {} \/ drained[r] # NoEvent
    /\ Fault
    /\ batch' = [batch EXCEPT ![r] = {}]
    /\ drained' = [drained EXCEPT ![r] = NoEvent]
    /\ UNCHANGED <<stored, transport, call>>

-----------------------------------------------------------------------------
\* The process stops and is restarted: the callback and the drain loop lose
\* what they held in memory.
Crash(r) ==
    /\ call[r].step # "idle" \/ batch[r] # {} \/ drained[r] # NoEvent
    /\ Fault
    /\ Return(r)
    /\ batch' = [batch EXCEPT ![r] = {}]
    /\ drained' = [drained EXCEPT ![r] = NoEvent]
    /\ UNCHANGED <<stored, transport>>

\* Mutant: the endpoint does not ask whether the candidate was confirmed.
ForceRedeliveryUnchecked(c) ==
    /\ stream' = stream \cup {[candidate |-> c, decision |-> confirmed[c]]}
    /\ UNCHANGED <<decision, confirmed, band, outbox, transport,
                   call, drainer, faults>>

\* POST /v1/reliability/events/{candidate_id}/redeliver publishes the stored
\* confirmed event under a message id of its own.
ForceRedelivery(c) ==
    /\ confirmed[c] # NoDecision
    /\ stream' = stream \cup {[candidate |-> c, decision |-> confirmed[c]]}
    /\ UNCHANGED <<decision, confirmed, band, outbox, transport,
                   call, drainer, faults>>

Handle(r) ==
    \/ Deliver(r) \/ StepRaises(r)
    \/ CheckDecision(r) \/ EvaluateCandidate(r) \/ Commit(r)
    \/ PublishConfirmed(r) \/ DeletePublished(r) \/ PublicationFails(r)

Drain(r) ==
    \/ ListOutbox(r) \/ DrainDelete(r) \/ DrainAborts(r)
    \/ \E e \in batch[r] : DrainPublish(r, e)
    \/ \E e \in batch[r] \cup {drained[r]} : DrainFails(r, e)

Next ==
    \/ \E m \in Message : PublishCandidate(m) \/ LateAck(m)
    \/ \E r \in Replica : Handle(r) \/ Drain(r) \/ Crash(r)
    \/ \E c \in Candidate : ForceRedelivery(c)

Spec == Init /\ [][Next]_vars

\* The callback and the drain loop keep running and the broker's ack timer
\* fires; failures, crashes and late acks are never required to happen.
Fairness ==
    /\ \A r \in Replica : WF_vars(Handle(r)) /\ WF_vars(Drain(r))
    /\ \A m \in Message : WF_vars(LateAck(m))

FairSpec == Spec /\ Fairness

-----------------------------------------------------------------------------
TypeOK ==
    /\ decision  \in [Candidate -> Decision \cup {NoDecision}]
    /\ confirmed \in [Candidate -> Decision \cup {NoDecision}]
    /\ band \in [Episode -> Band \cup {NoBand}]
    /\ outbox \in [Candidate -> Decision \cup {NoRow, GhostRow}]
    /\ deadLetters \subseteq Candidate \cup {Unreadable}
    /\ stream \subseteq Event
    /\ message \in [Message -> MessageState]
    /\ deliveries \in [Message -> 0 .. MaxDeliveries]
    /\ call \in [Replica -> Call]
    /\ batch \in [Replica -> SUBSET Event]
    /\ drained \in [Replica -> Event \cup {NoEvent}]
    /\ faults \in 0 .. MaxFaults

\* An approved disruption is never lost: from the commit on, a confirmed
\* event is either still a publishable outbox row or already on the stream,
\* whichever call failed and whoever crashed.
NoApprovedEventLost ==
    \A c \in Candidate : confirmed[c] # NoDecision =>
        outbox[c] \in Decision \/ OnStream(c)

\* A message leaves the consumer only with a lasting result: acknowledged
\* with its decision committed, terminated with its dead letter stored.
SettledOnlyWithResult ==
    \A m \in Message :
        /\ message[m] = "acked" => /\ Body[m] # Unreadable
                                   /\ decision[Body[m]] # NoDecision
        /\ message[m] = "termed" => Body[m] \in deadLetters

\* A disruption that calls for a search is suppressed as a repeat only if an
\* earlier disruption of the episode did start a search: the bands that the
\* repeat is judged by are finer than the verdicts they hide.
SearchNotMasked ==
    \A c \in Candidate :
        /\ decision[c].verdict = "SUPPRESS"
        /\ BaseVerdict(Fact[c]) = "NOTIFY_AND_SEARCH"
        => \E d \in Candidate :
             /\ EpisodeKey(Fact[d]) = EpisodeKey(Fact[c])
             /\ decision[d].verdict = "NOTIFY_AND_SEARCH"

\* A stored decision is never replaced by another one.
DecisionIsFinal ==
    [][\A c \in Candidate :
          decision[c] # NoDecision => decision'[c] = decision[c]]_vars

Contract == INSTANCE EvalContract WITH announced <- stream

\* One replica keeps the contract, however its steps are interleaved with
\* redeliveries, the drain loop, failures and crashes: a candidate is decided
\* once, atomically with its episode's band, although the band is read in one
\* call and written in another; and what is published is what is stored.
ImplementsContract == Contract!Spec

\* Every message the broker accepted ends acknowledged or dead-lettered.
EveryMessageSettled ==
    \A m \in Message :
        message[m] = "available" ~> message[m] \in {"acked", "termed"}

\* Every confirmed event reaches the stream.
ApprovedEventsPublished ==
    \A c \in Candidate :
        confirmed[c] # NoDecision ~> OnStream(c)
=============================================================================
