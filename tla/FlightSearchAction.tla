-------------------------- MODULE FlightSearchAction --------------------------
(***************************************************************************)
(* The flight search action service (flight_search_action_service.py): it   *)
(* consumes confirmed events beside the notification action service, checks *)
(* them against the stored decision, takes the flight from the leg's last   *)
(* observation, asks the search MCP for options, and records the ranked     *)
(* ones.  The search is read-only: asked twice it does no harm, but the     *)
(* later answer replaces the earlier.                                       *)
(***************************************************************************)
EXTENDS FlightSearchRanking

CONSTANTS
    DecisionId,     \* decisions whose confirmed events are on the stream
    Searches,       \* those with the verdict NOTIFY_AND_SEARCH
    Message,        \* messages of travel.disruption_confirmed.v1
    Body,           \* the decision each message carries, or Unreadable
    Unreadable,     \* a body decode_envelope rejects
    Answer,         \* what the provider may answer
    Command,        \* the search the flight's last observation asks for
    SearchedAt,     \* the time of the searches
    Replica,        \* processes of the queue group
    MaxDeliveries,  \* EVENT_MAX_DELIVERIES
    MaxFaults       \* bound: failures, crashes, late acks

VARIABLES
    approved,       \* decisions whose DECISION and CONFIRMED_EVENT match
    context,        \* decisions whose leg has a usable last observation
    record,         \* DECISION#d / SEARCH: its status and alternatives
    overlapped,     \* history: decisions that two callbacks worked on at once
    message, deliveries, deadLetters, call, faults

transport == <<message, deliveries, deadLetters>>
storage   == <<approved, context, record>>
vars      == <<storage, overlapped, transport, call, faults>>

ASSUME SearchAssumption ==
    /\ Searches \subseteq DecisionId
    /\ Unreadable \notin DecisionId
    /\ None \notin DecisionId \cup Message
    /\ Body \in [Message -> DecisionId \cup {Unreadable}]
    /\ MaxDeliveries \in Nat \ {0}
    /\ MaxFaults \in Nat

ASSUME AnswerAssumption ==
    /\ {SearchedAt, Command.earliest, Command.latest} \subseteq Int
    /\ {Command.stops, Command.connection} \subseteq Nat
    /\ \A answer \in Answer :
          /\ answer.offers \in Seq(ToSet(answer.offers))
          /\ \A o \in ToSet(answer.offers) : o.whole => Usable(o)

\* What process_search_event takes for done.
Done == {"completed", "no_options"}

\* A record, with the offers it was made from, which the code does not store.
Record(status, ranked, offers) ==
    [status |-> status, alternatives |-> ranked, offers |-> offers]

NoRecord == Record("none", <<>>, {})
Failed   == Record("failed", <<>>, {})

\* What one answer of the provider is recorded as.
Outcome(answer) ==
    LET batch  == ProviderSearch(answer)
        ranked == RankFeasibleOptions(Command, SearchedAt, batch.options)
    IN IF batch.failed THEN Failed
       ELSE Record(IF ranked # <<>> THEN "completed" ELSE "no_options", ranked,
                   ToSet(answer.offers))

Outcomes == {Outcome(answer) : answer \in Answer}

Step == {"idle", "decoded", "lookup", "verify", "context", "search", "put",
         "ack", "failed", "quarantine", "term"}

Call == [step : Step, message : Message \cup {None},
         attempt : 0 .. MaxDeliveries,
         result : Outcomes \cup {NoRecord, Failed}, guarded : BOOLEAN]

Idle == [step |-> "idle", message |-> None, attempt |-> 0, result |-> NoRecord,
         guarded |-> FALSE]

INSTANCE EventDelivery

Init ==
    /\ approved = Searches
    /\ context = Searches
    /\ record = [d \in DecisionId |-> NoRecord]
    /\ overlapped = {}
    /\ message = [m \in Message |-> "unpublished"]
    /\ deliveries = [m \in Message |-> 0]
    /\ deadLetters = {}
    /\ call = [r \in Replica |-> Idle]
    /\ faults = 0

-----------------------------------------------------------------------------
\* The Eval Agent, its outbox drain or an operator publishes the event.
PublishConfirmed(m) == Offer(m) /\ UNCHANGED <<storage, overlapped>>

LateAck(m) == AckWaitExpires(m) /\ UNCHANGED <<storage, overlapped>>

Deliver(r) ==
    /\ \/ Consume(r)
       \/ ~call[r].guarded /\ ErrorPathRaises(r)
       \/ call[r].guarded /\ GuardedSettlementRaises(r)
    /\ UNCHANGED <<storage, overlapped>>

StepRaises(r) ==
    /\ Raises(r, {"decoded", "lookup", "verify", "context", "put"})
    /\ UNCHANGED <<storage, overlapped>>

\* Meanwhile, elsewhere: the stored decision is replaced, or the leg's last
\* observation by one that names no airports.
Revoke(d) ==
    /\ Fault
    /\ \/ d \in approved /\ approved' = approved \ {d} /\ UNCHANGED context
       \/ d \in context /\ context' = context \ {d} /\ UNCHANGED approved
    /\ UNCHANGED <<record, overlapped, transport, call>>

Settle(r, step) ==
    call' = [call EXCEPT ![r].step = step, ![r].guarded = step # "ack"]

Hold(r, result) ==
    call' = [call EXCEPT ![r].step = "put", ![r].result = result]

\* Mutant: the verdict is left to the check of the authority.
CheckNothing(r) ==
    /\ call[r].step = "decoded"
    /\ Goto(r, "lookup")
    /\ UNCHANGED <<storage, overlapped, transport, faults>>

\* A decision to notify only is none of this consumer's business: the message
\* is acknowledged, without a record.
CheckVerdict(r) ==
    /\ call[r].step = "decoded"
    /\ Goto(r, IF Subject(r) \in Searches THEN "lookup" ELSE "ack")
    /\ overlapped' = overlapped \cup
           {d \in {Subject(r)} : \E q \in Replica \ {r} :
               call[q].step # "idle" /\ Subject(q) = d}
    /\ UNCHANGED <<storage, transport, faults>>

\* Mutant: a search on record is made again.
SearchAnew(r) ==
    /\ call[r].step = "lookup"
    /\ Goto(r, "verify")
    /\ UNCHANGED <<storage, overlapped, transport, faults>>

\* Mutant: a search on record is left without an acknowledgement.
LookUpWithoutAck(r) ==
    /\ call[r].step = "lookup"
    /\ IF record[Subject(r)].status \in Done THEN Return(r) ELSE Goto(r, "verify")
    /\ UNCHANGED <<storage, overlapped, transport, faults>>

LookUpRecord(r) ==
    /\ call[r].step = "lookup"
    /\ Goto(r, IF record[Subject(r)].status \in Done THEN "ack" ELSE "verify")
    /\ UNCHANGED <<storage, overlapped, transport, faults>>

\* _verified_decision: a mismatch is quarantined, without a record.
VerifyDecision(r) ==
    /\ call[r].step = "verify"
    /\ IF Subject(r) \in approved THEN Goto(r, "context")
                                 ELSE Settle(r, "quarantine")
    /\ UNCHANGED <<storage, overlapped, transport, faults>>

\* SEARCH_CONTEXT_MISSING and SEARCH_CONTEXT_INVALID are failures on record.
ReadContext(r) ==
    /\ call[r].step = "context"
    /\ IF Subject(r) \in context THEN Goto(r, "search") ELSE Hold(r, Failed)
    /\ UNCHANGED <<storage, overlapped, transport, faults>>

\* The MCP, the provider behind it, and the ranking of what it offers; a
\* failure of any of them is caught.
Search(r) ==
    /\ call[r].step = "search"
    /\ \E result \in Outcomes \cup {Failed} :
          /\ Hold(r, result)
          /\ IF result = Failed THEN Fault ELSE UNCHANGED faults
    /\ UNCHANGED <<storage, overlapped, transport>>

\* put_search, unconditional; a failure goes on to retry_or_quarantine.
PutSearch(r) ==
    /\ call[r].step = "put"
    /\ record' = [record EXCEPT ![Subject(r)] = call[r].result]
    /\ \/ /\ Settle(r, IF call[r].result.status \in Done THEN "ack" ELSE "failed")
          /\ UNCHANGED faults
       \/ Goto(r, "failed") /\ Fault      \* written, but the reply was lost
    /\ UNCHANGED <<approved, context, overlapped, transport>>

Crash(r) ==
    /\ call[r].step # "idle"
    /\ Fault
    /\ Return(r)
    /\ UNCHANGED <<storage, overlapped, transport>>

-----------------------------------------------------------------------------
Handle(r) ==
    \/ Deliver(r) \/ StepRaises(r)
    \/ CheckVerdict(r) \/ LookUpRecord(r) \/ VerifyDecision(r)
    \/ ReadContext(r) \/ Search(r) \/ PutSearch(r)

Next ==
    \/ \E m \in Message : PublishConfirmed(m) \/ LateAck(m)
    \/ \E d \in Searches : Revoke(d)
    \/ \E r \in Replica : Handle(r) \/ Crash(r)

Spec == Init /\ [][Next]_vars

\* The service and the broker's timer keep running.
FairSpec ==
    /\ Spec
    /\ \A r \in Replica : WF_vars(Handle(r))
    /\ \A m \in Message : WF_vars(LateAck(m))

-----------------------------------------------------------------------------
TypeOK ==
    /\ approved \subseteq Searches /\ context \subseteq Searches
    /\ record \in [DecisionId -> Outcomes \cup {NoRecord, Failed}]
    /\ overlapped \subseteq DecisionId \cup {Unreadable}
    /\ message \in [Message -> MessageState]
    /\ deliveries \in [Message -> 0 .. MaxDeliveries]
    /\ deadLetters \subseteq DecisionId \cup {Unreadable}
    /\ call \in [Replica -> Call]
    /\ faults \in 0 .. MaxFaults

\* A result, once on record, is replaced only by a callback that overlapped
\* with another: a redelivery or a repeated event finds it and stops.
ResultKept ==
    [][\A d \in DecisionId \ overlapped :
          record[d].status \in Done => record'[d] = record[d]]_vars

\* A decision to notify only leaves no trace here: the verdict is looked at
\* before the authority, so its event is neither searched for nor, unless calls
\* failed, dead-lettered as a mismatch.
NotifyOnlyLeftAlone ==
    \A d \in DecisionId \ Searches :
        record[d] = NoRecord /\ (faults = 0 => d \notin deadLetters)

\* Every confirmed event ends acknowledged or dead-lettered.
EveryEventSettled ==
    \A m \in Message :
        message[m] = "available" ~> message[m] \in {"acked", "termed"}

\* An offer seen by the traveller: starting at the origin when the command
\* allows, every flight leaves from where the last one arrived and late enough
\* to change, none is the cancelled one, and the last ends at the destination.
Flyable(offer) ==
    LET place(i) == IF i = 0 THEN Command.origin ELSE offer.segments[i].to
        ready(i) == IF i = 0 THEN Command.earliest
                    ELSE offer.segments[i].arrives + Command.connection
    IN /\ offer.whole
       /\ offer.expires # None => offer.expires > SearchedAt
       /\ Len(offer.segments) <= Command.stops + 1
       /\ Departs(offer) <= Command.latest
       /\ place(Len(offer.segments)) = Command.destination
       /\ \A i \in DOMAIN offer.segments :
             /\ offer.segments[i].flight # Command.original
             /\ offer.segments[i].from = place(i - 1)
             /\ offer.segments[i].departs >= ready(i - 1)
             /\ offer.segments[i].arrives > offer.segments[i].departs

\* Of a completed search the alternatives can all be flown, and nothing the
\* provider offered arrives earlier than the first of them, although the
\* provider's offers are cut before they are judged.
NothingBetterOffered ==
    \A d \in DecisionId : record[d].status = "completed" =>
        /\ \A o \in ToSet(record[d].alternatives) : Flyable(o)
        /\ \A o \in record[d].offers :
              Flyable(o) => Arrives(Head(record[d].alternatives)) <= Arrives(o)
=============================================================================
