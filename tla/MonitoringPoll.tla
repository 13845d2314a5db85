--------------------------- MODULE MonitoringPoll ---------------------------
(***************************************************************************)
(* The Monitoring Agent (monitoring_flow.py, monitoring_a2a.py) for one leg *)
(* of a trip, on its rows of the state table, with the flight agency that   *)
(* its flight evidence comes from and the weather provider's answers.       *)
(*                                                                         *)
(* A poll reads the flight, then the weather, then what was stored last,    *)
(* and compares.  A change is stored as a candidate with its outbox row,    *)
(* published, and only then is the evidence stored as the last known.       *)
(* Nothing keeps two polls of a leg apart but the scheduler's lease.  The   *)
(* drain loop publishes what is left in the outbox.                         *)
(***************************************************************************)
EXTENDS FlightAgency, CandidateRules

CONSTANTS
    Absent,         \* an outbox row that is not there
    Ghost,          \* one that note_outbox_failure made after it was deleted
    Weather,        \* forecasts the weather provider may answer with
    Poller,         \* polls of the leg that may run at a time
    OutboxLimit,    \* rows list_outbox asks for
    MaxFaults       \* bound: calls that raise, crashes, losses of the records

VARIABLES
    lastFlight,     \* LAST_OBSERVATION of the leg
    lastWeather,    \* LAST_WEATHER of the leg
    candidates,     \* ids of the CANDIDATE#... rows
    outbox,         \* OUTBOX#disruption_candidate, by candidate id
    stream,         \* candidate events published
    poll,           \* each poll's locals
    drain,          \* the drain loop's
    reported,       \* history: the facts told last, by baseline or new event id
    torn,           \* history: a poll was cut after it stored its candidate,
                    \* or two polls ran at a time
    faults

rows == <<lastFlight, lastWeather, candidates, outbox, stream>>
vars == <<agency, rows, poll, drain, reported, torn, faults>>

NoObservation == [id |-> 0, time |-> -1, facts |-> Booked]
Observations  == [id : 1 .. MaxRevision, time : Nat, facts : Facts]
                     \cup {NoObservation}

CandidateId == ({"flight"} \X (1 .. MaxRevision))
               \cup ({"weather"} \X {w.id : w \in Weather})

Candidate == [id : CandidateId, facts : Facts,
              category : {"CANCELLATION", "DIVERSION", "DELAY", "GATE_CHANGE",
                          "TERMINAL_CHANGE", "WEATHER_RISK", "STATUS_CHANGE"}]

\* What is not there is told from what is, and states of a flight differ in
\* what an observation is compared by: an operator of the agency can change
\* nothing else.
ASSUME MonitoringAssumption ==
    /\ None \notin Weather \cup Candidate
    /\ Absent # Ghost /\ Absent \notin Candidate /\ Ghost \notin Candidate
    /\ OutboxLimit \in Nat \ {0}
    /\ MaxFaults \in Nat
    /\ \A f, g \in Facts :
          f.status = g.status /\ (\A x \in EndField : f[x[1]][x[2]] = g[x[1]][x[2]])
          => f = g

Idle == [step |-> "idle", flight |-> NoObservation, weather |-> None,
         previous |-> NoObservation, candidate |-> None]

Waiting == [step |-> "list", todo |-> {}, at |-> None]

MonitorInit ==
    /\ lastFlight = NoObservation
    /\ lastWeather = None
    /\ candidates = {}
    /\ outbox = [i \in CandidateId |-> Absent]
    /\ stream = {}
    /\ poll = [p \in Poller |-> Idle]
    /\ drain = Waiting
    /\ reported = None
    /\ torn = FALSE
    /\ faults = 0

Init == AgencyInit /\ MonitorInit

Fault == faults < MaxFaults /\ faults' = faults + 1

Goto(p, step) == poll' = [poll EXCEPT ![p].step = step]

-----------------------------------------------------------------------------
(* fetch_evidence.                                                          *)

\* get_flight_status of the agency's provider: the observation, or an error.
FlightAnswer == IF flight = NoFlight THEN None ELSE Observation

\* A flight that cannot be read ends the poll with nothing changed, a
\* stuttering step here.  Weather that cannot be read (None) is no reason to
\* stop; as any forecast may be the answer, the two reads are one step.
FetchEvidence(p) ==
    /\ poll[p].step = "idle"
    /\ FlightAnswer # None
    /\ \E w \in Weather \cup {None} :
          poll' = [poll EXCEPT ![p] = [Idle EXCEPT !.step = "readFlight",
                                       !.flight = FlightAnswer, !.weather = w]]
    /\ torn' = (torn \/ \E q \in Poller \ {p} : poll[q].step # "idle")
    /\ UNCHANGED <<agency, rows, drain, reported, faults>>

-----------------------------------------------------------------------------
(* evaluate_delta.                                                          *)

ReadFlight(p) ==
    /\ poll[p].step = "readFlight"
    /\ poll' = [poll EXCEPT ![p].step = "readWeather", ![p].previous = lastFlight]
    /\ UNCHANGED <<agency, rows, drain, reported, torn, faults>>

\* source_event_time not later than that of the stored observation.
Stale(c) == c.flight.time <= c.previous.time

Effective(c) == IF Stale(c) THEN c.previous ELSE c.flight

FlightFields(c) ==
    IF Stale(c) THEN {} ELSE ChangedFields(c.previous.facts, c.flight.facts)

Fields(c) == FlightFields(c) \cup WeatherFields(lastWeather, c.weather)

\* _event_id: the flight's evidence names the candidate unless only the
\* weather changed.
EventId(c) ==
    IF FlightFields(c) = {} /\ c.weather # None
    THEN <<"weather", c.weather.id>>
    ELSE <<"flight", Effective(c).id>>

Change(c) == [id |-> EventId(c), facts |-> Effective(c).facts,
              category |-> Classify(Effective(c).facts, Fields(c), None, None)]

\* What is left to store after the observation: new weather, if there is any.
StoreWeather(p) ==
    poll' = [poll EXCEPT ![p] =
        IF @.weather = None THEN Idle
        ELSE [Idle EXCEPT !.step = "putWeather", !.weather = poll[p].weather]]

\* Reading lastWeather is the last call before the comparison; the rest is
\* local.
Evaluate(p) ==
    /\ poll[p].step = "readWeather"
    /\ LET c     == poll[p]
           first == c.previous = NoObservation
       IN  \/ /\ first \/ (Fields(c) = {} /\ ~Stale(c))
              /\ Goto(p, "putFlight")
           \/ /\ ~first /\ Fields(c) = {} /\ Stale(c)
              /\ StoreWeather(p)
           \/ /\ ~first /\ Fields(c) # {}
              /\ poll' = [poll EXCEPT ![p].step = "store",
                                      ![p].candidate = Change(c)]
    /\ UNCHANGED <<agency, rows, drain, reported, torn, faults>>

\* put_candidate_with_outbox: one transaction.
StoreCandidate(p) ==
    /\ poll[p].step = "store"
    /\ LET c == poll[p].candidate IN
       /\ candidates' = candidates \cup {c.id}
       /\ outbox' = [outbox EXCEPT ![c.id] = c]
    /\ Goto(p, "publish")
    /\ UNCHANGED <<agency, lastFlight, lastWeather, stream, drain, reported,
                   torn, faults>>

\* Of an id published before, the Eval Agent returns the decision it has.
Told(c) == IF \E d \in stream : d.id = c.id THEN reported ELSE c.facts

\* Mutant: the row goes before the event is out.
UnqueueFirst(p) ==
    /\ poll[p].step = "publish"
    /\ outbox' = [outbox EXCEPT ![poll[p].candidate.id] = Absent]
    /\ Goto(p, "unqueue")
    /\ UNCHANGED <<agency, lastFlight, lastWeather, candidates, stream, drain,
                   reported, torn, faults>>

\* The event is on the bus; whether the answer arrives is another matter.
PublishCandidate(p) ==
    /\ poll[p].step = "publish"
    /\ stream' = stream \cup {poll[p].candidate}
    /\ reported' = Told(poll[p].candidate)
    /\ \/ Goto(p, "unqueue") /\ UNCHANGED <<torn, faults>>
       \/ poll' = [poll EXCEPT ![p] = Idle] /\ torn' = TRUE /\ Fault
    /\ UNCHANGED <<agency, lastFlight, lastWeather, candidates, outbox, drain>>

Unqueue(p) ==
    /\ poll[p].step = "unqueue"
    /\ outbox' = [outbox EXCEPT ![poll[p].candidate.id] = Absent]
    /\ IF Stale(poll[p]) THEN StoreWeather(p) ELSE Goto(p, "putFlight")
    /\ UNCHANGED <<agency, lastFlight, lastWeather, candidates, stream, drain,
                   reported, torn, faults>>

\* put_last_observation: unconditional.
PutFlight(p) ==
    /\ poll[p].step = "putFlight"
    /\ lastFlight' = poll[p].flight
    /\ reported' = IF poll[p].previous = NoObservation THEN poll[p].flight.facts
                                                       ELSE reported
    /\ StoreWeather(p)
    /\ UNCHANGED <<agency, lastWeather, candidates, outbox, stream, drain, torn,
                   faults>>

\* put_last_weather; then the poll only waits for the decision and reports.
PutWeather(p) ==
    /\ poll[p].step = "putWeather"
    /\ lastWeather' = poll[p].weather
    /\ poll' = [poll EXCEPT ![p] = Idle]
    /\ UNCHANGED <<agency, lastFlight, candidates, outbox, stream, drain,
                   reported, torn, faults>>

\* Any call raises, or the process stops: nothing undoes what was done.
PollEnds(p) ==
    /\ poll[p].step # "idle"
    /\ Fault
    /\ torn' = (torn \/ (poll[p].candidate # None /\ poll[p].step # "store"))
    /\ poll' = [poll EXCEPT ![p] = Idle]
    /\ UNCHANGED <<agency, rows, drain, reported>>

Poll(p) ==
    \/ FetchEvidence(p) \/ ReadFlight(p) \/ Evaluate(p)
    \/ StoreCandidate(p) \/ PublishCandidate(p) \/ Unqueue(p)
    \/ PutFlight(p) \/ PutWeather(p)

-----------------------------------------------------------------------------
(* drain_candidate_outbox: publish_pending_outbox, over and over.           *)

\* list_outbox: any OutboxLimit rows (the ids are digests), ghosts included,
\* of which those with a payload are kept.
ListOutbox ==
    /\ drain.step = "list"
    /\ \E page \in SUBSET {i \in CandidateId : outbox[i] # Absent} :
          /\ Cardinality(page) =
                Min({OutboxLimit,
                     Cardinality({i \in CandidateId : outbox[i] # Absent})})
          /\ drain' = [Waiting EXCEPT !.step = "next",
                       !.todo = {outbox[i] : i \in page} \ {Ghost}]
    /\ drain'.todo # {}
    /\ UNCHANGED <<agency, rows, poll, reported, torn, faults>>

DrainPublish ==
    /\ drain.step = "next"
    /\ \E c \in drain.todo :
          /\ stream' = stream \cup {c}
          /\ reported' = Told(c)
          /\ drain' = [drain EXCEPT !.step = "delete", !.at = c,
                                    !.todo = @ \ {c}]
    /\ UNCHANGED <<agency, lastFlight, lastWeather, candidates, outbox, poll,
                   torn, faults>>

DrainDelete ==
    /\ drain.step = "delete"
    /\ outbox' = [outbox EXCEPT ![drain.at.id] = Absent]
    /\ drain' = IF drain.todo = {} THEN Waiting
                ELSE [drain EXCEPT !.step = "next", !.at = None]
    /\ UNCHANGED <<agency, lastFlight, lastWeather, candidates, stream, poll,
                   reported, torn, faults>>

\* A publication or a deletion fails: noted on the row, which that creates if
\* it is gone, and the round goes on.
DrainFails ==
    /\ drain.step \in {"next", "delete"}
    /\ Fault
    /\ \E c \in IF drain.step = "next" THEN drain.todo ELSE {drain.at} :
          /\ outbox' = [outbox EXCEPT ![c.id] = IF @ = Absent THEN Ghost ELSE @]
          /\ drain' = IF drain.todo \ {c} = {} THEN Waiting
                      ELSE [step |-> "next", todo |-> drain.todo \ {c},
                            at |-> None]
    /\ UNCHANGED <<agency, lastFlight, lastWeather, candidates, stream, poll,
                   reported, torn>>

\* The process stops, and with it the loop; it starts again by listing.
DrainStops ==
    /\ drain # Waiting
    /\ Fault
    /\ drain' = Waiting
    /\ UNCHANGED <<agency, rows, poll, reported, torn>>

Drain == ListOutbox \/ DrainPublish \/ DrainDelete

-----------------------------------------------------------------------------
Agency ==
    /\ \/ Operate /\ UNCHANGED faults
       \/ Forget /\ Fault
    /\ UNCHANGED <<rows, poll, drain, reported, torn>>

Next ==
    \/ Agency
    \/ \E p \in Poller : Poll(p) \/ PollEnds(p)
    \/ Drain \/ DrainFails \/ DrainStops

Spec == Init /\ [][Next]_vars

\* The scheduler polls an active leg again and again, and the drain loop runs
\* as long as its process does.
FairSpec ==
    /\ Spec
    /\ \A p \in Poller : WF_vars(Poll(p))
    /\ WF_vars(Drain)

-----------------------------------------------------------------------------
TypeOK ==
    /\ flight \in Record \cup {NoFlight}
    /\ now \in Nat
    /\ forgotten \in BOOLEAN
    /\ lastFlight \in Observations
    /\ lastWeather \in Weather \cup {None}
    /\ \A i \in CandidateId :
          outbox[i] \in Candidate \cup {Absent, Ghost}
    /\ candidates \subseteq CandidateId
    /\ stream \subseteq Candidate
    /\ \A p \in Poller :
          /\ poll[p].step \in {"idle", "readFlight",
                               "readWeather", "store", "publish", "unqueue",
                               "putFlight", "putWeather"}
          /\ poll[p].candidate \in Candidate \cup {None}
    /\ drain.step \in {"list", "next", "delete"}
    /\ faults \in 0 .. MaxFaults

\* A change that was stored as a candidate is published or still to be: the
\* row in the outbox goes only after the event is out, whoever publishes.
CandidateNotLost ==
    \A i \in candidates :
        outbox[i] \in Candidate \/ \E c \in stream : c.id = i

\* evaluate_delta compares with what was told last: between polls the stored
\* observation holds the facts the traveller was last told of, so no change,
\* and no way back, is taken for known.  It takes one poll at a time, none of
\* them cut after its candidate was stored (torn), and ids that name one state.
NothingSwallowed ==
    ~torn /\ ~forgotten /\ lastFlight # NoObservation
          /\ (\A p \in Poller : poll[p].step = "idle")
        => lastFlight.facts = reported

\* The Eval Agent decides an id once.  An id made from a flight's revision
\* stands for one state of the flight, however often and by whichever poll it
\* is published, while the agency keeps its records.
IdNamesOneState ==
    ~forgotten =>
        \A a, b \in stream :
            a.id = b.id /\ a.id[1] = "flight" => a.facts = b.facts

\* Candidates are not stored for ever without being published: again and again
\* all there are have been.
CandidatesPublished ==
    []<>(\A i \in candidates : \E c \in stream : c.id = i)
=============================================================================
