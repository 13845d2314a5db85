----------------------- MODULE MonitoringPoll_proofs -----------------------
(***************************************************************************)
(* Theorems about MonitoringPoll, the polls of one leg with the drain loop  *)
(* and the flight agency, for all states of a flight, forecasts and bounds  *)
(* and any number of polls at a time.                                       *)
(***************************************************************************)
EXTENDS MonitoringPoll, TLAPS

-----------------------------------------------------------------------------
(* Type correctness.  A poll that compares has an observation, and one with *)
(* a candidate to store or to publish has the candidate.                    *)

Comparing  == {"readFlight", "readWeather", "store", "publish", "unqueue",
               "putFlight"}
Publishing == {"store", "publish", "unqueue"}

PollState ==
    [step : Comparing \cup {"idle", "putWeather"}, flight : Observations,
     weather : Weather \cup {None}, previous : Observations,
     candidate : Candidate \cup {None}]

DrainState ==
    [step : {"list", "next", "delete"}, todo : SUBSET Candidate,
     at : Candidate \cup {None}]

Equipped(c) ==
    /\ c.step \in Comparing => c.flight # NoObservation
    /\ c.step \in Publishing => c.candidate \in Candidate

AgencyType ==
    /\ flight \in Record \cup {NoFlight} /\ now \in Nat /\ forgotten \in BOOLEAN

RowsType ==
    /\ lastFlight \in Observations /\ lastWeather \in Weather \cup {None}
    /\ candidates \subseteq CandidateId /\ stream \subseteq Candidate
    /\ outbox \in [CandidateId -> Candidate \cup {Absent, Ghost}]

LoopsType ==
    /\ poll \in [Poller -> PollState] /\ \A p \in Poller : Equipped(poll[p])
    /\ drain \in DrainState /\ (drain.step = "delete" => drain.at \in Candidate)

RestType == torn \in BOOLEAN /\ faults \in 0 .. MaxFaults

TypeInv == AgencyType /\ RowsType /\ LoopsType /\ RestType

Categories == {"CANCELLATION", "DIVERSION", "DELAY", "GATE_CHANGE",
               "TERMINAL_CHANGE", "WEATHER_RISK", "STATUS_CHANGE"}

\* Without a connection to look at, no category is that of a connection.
LEMMA ClassifyType ==
  ASSUME NEW o, NEW fields
  PROVE  Classify(o, fields, None, None) \in Categories
<1> DEFINE delayed  == OperationalDelay(o) > 0 /\ fields \cap DelayFields # {}
           only(fs) == fields # {} /\ fields \subseteq fs
           gates    == {"departure", "arrival"} \X {"gate"}
           places   == {"departure", "arrival"} \X {"gate", "terminal"}
           rest     == CASE delayed -> "DELAY"
                         [] ~delayed /\ only(gates) -> "GATE_CHANGE"
                         [] ~delayed /\ ~only(gates) /\ only(places)
                                -> "TERMINAL_CHANGE"
                         [] ~delayed /\ only(WeatherField) -> "WEATHER_RISK"
                         [] OTHER -> "STATUS_CHANGE"
<1>1. rest \in Categories
  <2> HIDE DEF delayed, only
  <2> QED
    BY DEF Categories
<1>2. Classify(o, fields, None, None) \in
        {"CANCELLATION", "DIVERSION", rest}
  <2>1. Classify(o, fields, None, None) =
          IF o.status = "cancelled" THEN "CANCELLATION"
          ELSE IF o.status = "diverted" THEN "DIVERSION"
          ELSE IF None # None /\ None # None /\ None < None
               THEN "CONNECTION_RISK"
          ELSE rest
    BY DEF Classify
  <2> HIDE DEF rest
  <2> QED
    BY <2>1
<1> HIDE DEF rest
<1> QED
  BY <1>1, <1>2 DEF Categories

\* The evidence that a comparison takes for the flight's.
LEMMA EffectiveType ==
  ASSUME NEW c \in PollState, c.flight # NoObservation, c.previous # NoObservation
  PROVE  /\ Effective(c) \in {c.flight, c.previous}
         /\ Effective(c).id \in 1 .. MaxRevision /\ Effective(c).facts \in Facts
BY DEF Effective, PollState, Observations

LEMMA ChangeType ==
  ASSUME NEW c \in PollState, c.flight # NoObservation,
         c.previous # NoObservation, Fields(c) # {}
  PROVE  Change(c) \in Candidate
<1>1. EventId(c) \in CandidateId
  <2>1. CASE FlightFields(c) = {} /\ c.weather # None
    <3>1. EventId(c) = <<"weather", c.weather.id>>
      BY <2>1 DEF EventId
    <3> QED
      BY <2>1, <3>1 DEF PollState, CandidateId
  <2>2. CASE ~(FlightFields(c) = {} /\ c.weather # None)
    <3>1. EventId(c) = <<"flight", Effective(c).id>>
      BY <2>2 DEF EventId
    <3> QED
      BY <3>1, EffectiveType DEF CandidateId
  <2> QED
    BY <2>1, <2>2
<1>2. Classify(Effective(c).facts, Fields(c), None, None) \in Categories
  BY ClassifyType
<1> QED
  BY <1>1, <1>2, EffectiveType DEF Change, Candidate, Categories

LEMMA IdleType == Idle \in PollState /\ Equipped(Idle) /\ NoObservation \in Observations
BY AgencyAssumption
DEF Idle, PollState, Comparing, Publishing, Equipped, Observations, NoObservation

\* A poll that replaces its locals by well-formed ones.
LEMMA PollUpdate ==
  ASSUME LoopsType, NEW p \in Poller, NEW c \in PollState, Equipped(c),
         poll' = [poll EXCEPT ![p] = c]
  PROVE  poll' \in [Poller -> PollState] /\ \A q \in Poller : Equipped(poll'[q])
BY DEF LoopsType

LEMMA GotoType ==
  ASSUME LoopsType, NEW p \in Poller, NEW step \in Comparing, Goto(p, step),
         poll[p].flight # NoObservation,
         step \in Publishing => poll[p].candidate \in Candidate
  PROVE  poll' \in [Poller -> PollState] /\ \A q \in Poller : Equipped(poll'[q])
<1> DEFINE c == [poll[p] EXCEPT !.step = step]
<1>1. c \in PollState /\ Equipped(c) /\ poll' = [poll EXCEPT ![p] = c]
  BY DEF LoopsType, PollState, Equipped, Goto
<1> HIDE DEF c
<1> QED
  BY <1>1, PollUpdate

LEMMA StoreWeatherType ==
  ASSUME LoopsType, NEW p \in Poller, StoreWeather(p)
  PROVE  poll' \in [Poller -> PollState] /\ \A q \in Poller : Equipped(poll'[q])
<1> DEFINE c == [Idle EXCEPT !.step = "putWeather", !.weather = poll[p].weather]
<1>1. c \in PollState /\ Equipped(c)
  <2>1. poll[p].weather \in Weather \cup {None}
    BY DEF LoopsType, PollState
  <2> QED
    BY <2>1, IdleType DEF PollState, Equipped, Comparing, Publishing
<1>2. poll' = [poll EXCEPT ![p] = Idle] \/ poll' = [poll EXCEPT ![p] = c]
  BY DEF StoreWeather, LoopsType
<1> HIDE DEF c
<1> QED
  BY <1>1, <1>2, IdleType, PollUpdate

LEMMA InitType == Init => TypeInv
<1> SUFFICES ASSUME Init PROVE TypeInv
  OBVIOUS
<1> USE DEF Init, AgencyInit, MonitorInit
<1>1. AgencyType
  BY DEF AgencyType
<1>2. RowsType
  BY IdleType DEF RowsType
<1>3. LoopsType
  <2>1. drain \in DrainState /\ drain.step # "delete"
    BY DEF DrainState, Waiting
  <2>2. poll \in [Poller -> PollState] /\ \A p \in Poller : Equipped(poll[p])
    BY IdleType
  <2> QED
    BY <2>1, <2>2 DEF LoopsType
<1>4. RestType
  <2>1. 0 \in 0 .. MaxFaults
    BY MonitoringAssumption
  <2> QED
    BY <2>1 DEF RestType
<1> QED
  BY <1>1, <1>2, <1>3, <1>4 DEF TypeInv

LEMMA FaultType == TypeInv /\ Fault => faults' \in 0 .. MaxFaults
BY MonitoringAssumption DEF TypeInv, RestType, Fault

LEMMA NextType == TypeInv /\ [Next]_vars => TypeInv'
<1> SUFFICES ASSUME TypeInv, [Next]_vars
             PROVE  AgencyType' /\ RowsType' /\ LoopsType' /\ RestType'
  BY DEF TypeInv
<1> USE DEF TypeInv, rows, agency, vars
<1>1. CASE Agency
  <2>1. AgencyType'
    <3>1. CASE Seed
      BY <3>1, AgencyAssumption DEF Seed, AgencyType, Record, NextChangedAt
    <3>2. ASSUME NEW f \in Facts, Mutate(f) PROVE AgencyType'
      <4>1. /\ flight.revision + 1 \in 1 .. MaxRevision /\ now + 1 \in Nat
            /\ now' = now + 1 /\ UNCHANGED forgotten
            /\ flight' = [revision |-> flight.revision + 1, updated |-> now + 1,
                          facts |-> f]
        BY <3>2, AgencyAssumption DEF Mutate, AgencyType, Record, NextChangedAt
      <4> QED
        BY <4>1 DEF AgencyType, Record
    <3>3. CASE Forget
      BY <3>3 DEF Forget, AgencyType
    <3> QED
      BY <1>1, <3>1, <3>2, <3>3 DEF Agency, Operate
  <2> QED
    BY <1>1, <2>1, FaultType DEF Agency, RowsType, LoopsType, RestType
<1>2. ASSUME NEW p \in Poller, FetchEvidence(p)
      PROVE  AgencyType' /\ RowsType' /\ LoopsType' /\ RestType'
  <2>1. PICK w \in Weather \cup {None} :
           poll' = [poll EXCEPT ![p] = [Idle EXCEPT !.step = "readFlight",
                                        !.flight = FlightAnswer, !.weather = w]]
    BY <1>2 DEF FetchEvidence
  <2>2. FlightAnswer \in Observations /\ FlightAnswer # NoObservation
    BY <1>2 DEF FetchEvidence, FlightAnswer, Observation, AgencyType, Record,
       Observations, NoObservation
  <2> DEFINE c == [Idle EXCEPT !.step = "readFlight", !.flight = FlightAnswer,
                               !.weather = w]
  <2>3. c \in PollState /\ Equipped(c)
    BY <2>2, IdleType DEF PollState, Equipped, Comparing, Publishing
  <2> HIDE DEF c
  <2>4. LoopsType'
    BY <1>2, <2>1, <2>3, PollUpdate DEF c, FetchEvidence, LoopsType
  <2> QED
    BY <1>2, <2>4 DEF FetchEvidence, AgencyType, RowsType, RestType
<1>3. ASSUME NEW p \in Poller, ReadFlight(p)
      PROVE  AgencyType' /\ RowsType' /\ LoopsType' /\ RestType'
  <2> DEFINE c == [poll[p] EXCEPT !.step = "readWeather", !.previous = lastFlight]
  <2>1. c \in PollState /\ Equipped(c) /\ poll' = [poll EXCEPT ![p] = c]
    BY <1>3 DEF ReadFlight, LoopsType, RowsType, PollState, Equipped, Comparing,
       Publishing
  <2> HIDE DEF c
  <2> QED
    BY <1>3, <2>1, PollUpdate DEF ReadFlight, AgencyType, RowsType, LoopsType, RestType
<1>4. ASSUME NEW p \in Poller, Evaluate(p)
      PROVE  AgencyType' /\ RowsType' /\ LoopsType' /\ RestType'
  <2>1. poll[p] \in PollState /\ poll[p].flight # NoObservation
    BY <1>4 DEF Evaluate, LoopsType, Equipped, Comparing
  <2>2. LoopsType'
    <3>1. CASE Goto(p, "putFlight")
      BY <1>4, <2>1, <3>1, GotoType DEF Evaluate, LoopsType, Comparing, Publishing
    <3>2. CASE StoreWeather(p)
      BY <1>4, <3>2, StoreWeatherType DEF Evaluate, LoopsType
    <3>3. CASE /\ poll[p].previous # NoObservation /\ Fields(poll[p]) # {}
               /\ poll' = [poll EXCEPT ![p].step = "store",
                                       ![p].candidate = Change(poll[p])]
      <4>1. Change(poll[p]) \in Candidate
        BY <2>1, <3>3, ChangeType
      <4> DEFINE c == [poll[p] EXCEPT !.step = "store", !.candidate = Change(poll[p])]
      <4>2. c \in PollState /\ Equipped(c)
        BY <2>1, <4>1 DEF PollState, Equipped, Comparing, Publishing
      <4>3. poll' = [poll EXCEPT ![p] = c]
        BY <3>3
      <4> HIDE DEF c
      <4> QED
        BY <1>4, <4>2, <4>3, PollUpdate DEF Evaluate, LoopsType
    <3> QED
      BY <1>4, <3>1, <3>2, <3>3 DEF Evaluate
  <2> QED
    BY <1>4, <2>2 DEF Evaluate, AgencyType, RowsType, RestType
<1>5. ASSUME NEW p \in Poller, StoreCandidate(p)
      PROVE  AgencyType' /\ RowsType' /\ LoopsType' /\ RestType'
  <2>1. poll[p].candidate \in Candidate /\ poll[p].flight # NoObservation
        /\ poll[p].candidate.id \in CandidateId
    BY <1>5 DEF StoreCandidate, LoopsType, Equipped, Publishing, Comparing, Candidate
  <2>2. RowsType'
    BY <1>5, <2>1 DEF StoreCandidate, RowsType
  <2> QED
    BY <1>5, <2>1, <2>2, GotoType
    DEF StoreCandidate, AgencyType, LoopsType, RestType, Comparing
<1>6. ASSUME NEW p \in Poller, PublishCandidate(p)
      PROVE  AgencyType' /\ RowsType' /\ LoopsType' /\ RestType'
  <2>1. poll[p].candidate \in Candidate /\ poll[p].flight # NoObservation
    BY <1>6 DEF PublishCandidate, LoopsType, Equipped, Publishing, Comparing
  <2>2. CASE Goto(p, "unqueue") /\ UNCHANGED <<torn, faults>>
    BY <1>6, <2>1, <2>2, GotoType
    DEF PublishCandidate, AgencyType, RowsType, LoopsType, RestType, Comparing
  <2>3. CASE poll' = [poll EXCEPT ![p] = Idle] /\ torn' = TRUE /\ Fault
    BY <1>6, <2>1, <2>3, PollUpdate, IdleType, FaultType
    DEF PublishCandidate, AgencyType, RowsType, LoopsType, RestType
  <2> QED
    BY <1>6, <2>2, <2>3 DEF PublishCandidate
<1>7. ASSUME NEW p \in Poller, Unqueue(p)
      PROVE  AgencyType' /\ RowsType' /\ LoopsType' /\ RestType'
  <2>1. /\ poll[p].flight # NoObservation
        /\ outbox' = [outbox EXCEPT ![poll[p].candidate.id] = Absent]
    BY <1>7 DEF Unqueue, LoopsType, Equipped, Publishing, Comparing
  <2>2. LoopsType'
    BY <1>7, <2>1, GotoType, StoreWeatherType
    DEF Unqueue, LoopsType, Comparing, Publishing
  <2> QED
    BY <1>7, <2>1, <2>2 DEF Unqueue, AgencyType, RowsType, RestType
<1>8. ASSUME NEW p \in Poller, PutFlight(p)
      PROVE  AgencyType' /\ RowsType' /\ LoopsType' /\ RestType'
  <2>1. RowsType'
    BY <1>8 DEF PutFlight, RowsType, LoopsType, PollState
  <2> QED
    BY <1>8, <2>1, StoreWeatherType DEF PutFlight, AgencyType, LoopsType, RestType
<1>9. ASSUME NEW p \in Poller, PutWeather(p)
      PROVE  AgencyType' /\ RowsType' /\ LoopsType' /\ RestType'
  <2>1. RowsType'
    BY <1>9 DEF PutWeather, RowsType, LoopsType, PollState
  <2> QED
    BY <1>9, <2>1, PollUpdate, IdleType DEF PutWeather, AgencyType, LoopsType, RestType
<1>10. ASSUME NEW p \in Poller, PollEnds(p)
       PROVE  AgencyType' /\ RowsType' /\ LoopsType' /\ RestType'
  BY <1>10, PollUpdate, IdleType, FaultType
  DEF PollEnds, AgencyType, RowsType, LoopsType, RestType
<1>11. CASE ListOutbox
  <2>1. PICK page \in SUBSET {i \in CandidateId : outbox[i] # Absent} :
           drain' = [Waiting EXCEPT !.step = "next",
                        !.todo = {outbox[i] : i \in page} \ {Ghost}]
    BY <1>11 DEF ListOutbox
  <2>2. {outbox[i] : i \in page} \ {Ghost} \subseteq Candidate
    BY DEF RowsType
  <2>3. drain' \in DrainState /\ drain'.step # "delete"
    BY <2>1, <2>2 DEF Waiting, DrainState
  <2> QED
    BY <1>11, <2>3 DEF ListOutbox, AgencyType, RowsType, LoopsType, RestType
<1>12. CASE DrainPublish
  <2>1. PICK c \in drain.todo :
           /\ stream' = stream \cup {c}
           /\ drain' = [drain EXCEPT !.step = "delete", !.at = c, !.todo = @ \ {c}]
    BY <1>12 DEF DrainPublish
  <2>2. c \in Candidate /\ drain' \in DrainState /\ drain'.at = c
    BY <2>1 DEF LoopsType, DrainState
  <2> QED
    BY <1>12, <2>1, <2>2 DEF DrainPublish, AgencyType, RowsType, LoopsType, RestType
<1>13. CASE DrainDelete
  <2>1. drain' \in DrainState /\ drain'.step # "delete"
    BY <1>13 DEF DrainDelete, LoopsType, DrainState, Waiting
  <2>2. RowsType'
    BY <1>13 DEF DrainDelete, RowsType
  <2> QED
    BY <1>13, <2>1, <2>2 DEF DrainDelete, AgencyType, LoopsType, RestType
<1>14. CASE DrainFails
  <2>1. PICK c \in (IF drain.step = "next" THEN drain.todo ELSE {drain.at}) :
          /\ outbox' = [outbox EXCEPT ![c.id] = IF @ = Absent THEN Ghost ELSE @]
          /\ drain' = IF drain.todo \ {c} = {} THEN Waiting
                      ELSE [step |-> "next", todo |-> drain.todo \ {c},
                            at |-> None]
    BY <1>14 DEF DrainFails
  <2>2. drain' \in DrainState /\ drain'.step # "delete"
    BY <2>1 DEF LoopsType, DrainState, Waiting
  <2>3. RowsType'
    BY <1>14, <2>1 DEF DrainFails, RowsType
  <2> QED
    BY <1>14, <2>2, <2>3, FaultType DEF DrainFails, AgencyType, LoopsType, RestType
<1>15. CASE DrainStops
  <2>1. drain' \in DrainState /\ drain'.step # "delete"
    BY <1>15 DEF DrainStops, DrainState, Waiting
  <2> QED
    BY <1>15, <2>1, FaultType DEF DrainStops, AgencyType, RowsType, LoopsType, RestType
<1>16. CASE UNCHANGED vars
  BY <1>16 DEF AgencyType, RowsType, LoopsType, RestType
<1> QED
  BY <1>1, <1>2, <1>3, <1>4, <1>5, <1>6, <1>7, <1>8, <1>9, <1>10, <1>11,
     <1>12, <1>13, <1>14, <1>15, <1>16 DEF Next, Poll, Drain

\* Every state of every instance has the types TypeOK gives.
THEOREM MonitoringTypeCorrect == Spec => []TypeOK
<1>1. Spec => []TypeInv
  BY InitType, NextType, PTL DEF Spec
<1>2. TypeInv => TypeOK
  BY DEF TypeInv, TypeOK, AgencyType, RowsType, LoopsType, RestType, PollState,
     DrainState, Comparing
<1> QED
  BY <1>1, <1>2, PTL

-----------------------------------------------------------------------------
(* What a step of a poll does to the polls.                                 *)

Others(p) == \A q \in Poller \ {p} : poll'[q] = poll[q]

LEMMA GotoFacts ==
  ASSUME LoopsType, NEW p \in Poller, NEW step, Goto(p, step)
  PROVE  /\ Others(p) /\ poll'[p].step = step
         /\ poll'[p].flight = poll[p].flight /\ poll'[p].previous = poll[p].previous
         /\ poll'[p].candidate = poll[p].candidate
BY DEF LoopsType, PollState, Goto, Others

\* The observations and the candidate are put down.
Cleared(c) ==
    /\ c.step \in {"idle", "putWeather"} /\ c.candidate = None
    /\ c.flight = NoObservation /\ c.previous = NoObservation

LEMMA IdleFacts ==
  ASSUME LoopsType, NEW p \in Poller, poll' = [poll EXCEPT ![p] = Idle]
  PROVE  Others(p) /\ Cleared(poll'[p]) /\ poll'[p].step = "idle"
BY DEF LoopsType, Idle, Others, Cleared

LEMMA StoreWeatherFacts ==
  ASSUME LoopsType, NEW p \in Poller, StoreWeather(p)
  PROVE  Others(p) /\ Cleared(poll'[p])
<1> DEFINE c == [Idle EXCEPT !.step = "putWeather", !.weather = poll[p].weather]
<1>1. Cleared(c)
  BY DEF Cleared, Idle
<1>2. poll' = [poll EXCEPT ![p] = Idle] \/ poll' = [poll EXCEPT ![p] = c]
  BY DEF StoreWeather, LoopsType
<1> HIDE DEF c
<1> QED
  BY <1>1, <1>2, IdleFacts DEF Others, LoopsType

LEMMA FetchFacts ==
  ASSUME TypeInv, NEW p \in Poller, FetchEvidence(p)
  PROVE  /\ Others(p) /\ poll'[p].step = "readFlight" /\ flight # NoFlight
         /\ poll'[p].flight = Observation /\ poll'[p].previous = NoObservation
         /\ poll'[p].candidate = None
<1>1. PICK w \in Weather \cup {None} :
         poll' = [poll EXCEPT ![p] = [Idle EXCEPT !.step = "readFlight",
                                      !.flight = FlightAnswer, !.weather = w]]
  BY DEF FetchEvidence
<1>2. flight # NoFlight /\ FlightAnswer = Observation
  BY DEF FetchEvidence, FlightAnswer
<1> QED
  BY <1>1, <1>2 DEF TypeInv, LoopsType, Idle, Others

LEMMA ReadFacts ==
  ASSUME LoopsType, NEW p \in Poller, ReadFlight(p)
  PROVE  /\ Others(p) /\ poll'[p].step = "readWeather"
         /\ poll'[p].flight = poll[p].flight /\ poll'[p].previous = lastFlight
         /\ poll'[p].candidate = poll[p].candidate
BY DEF ReadFlight, LoopsType, PollState, Others

\* The three outcomes of a comparison.
LEMMA EvaluateFacts ==
  ASSUME TypeInv, NEW p \in Poller, Evaluate(p)
  PROVE  /\ Others(p)
         /\ \/ /\ poll'[p].step = "putFlight"
               /\ poll[p].previous = NoObservation \/ (Fields(poll[p]) = {} /\ ~Stale(poll[p]))
               /\ poll'[p].candidate = poll[p].candidate
               /\ poll'[p].flight = poll[p].flight
               /\ poll'[p].previous = poll[p].previous
            \/ Cleared(poll'[p])
            \/ /\ poll'[p].step = "store"
               /\ poll[p].previous # NoObservation /\ Fields(poll[p]) # {}
               /\ poll'[p].candidate = Change(poll[p])
               /\ poll'[p].flight = poll[p].flight
               /\ poll'[p].previous = poll[p].previous
<1>1. LoopsType
  BY DEF TypeInv
<1>2. CASE /\ Goto(p, "putFlight")
           /\ poll[p].previous = NoObservation \/ (Fields(poll[p]) = {} /\ ~Stale(poll[p]))
  BY <1>1, <1>2, GotoFacts
<1>3. CASE StoreWeather(p)
  BY <1>1, <1>3, StoreWeatherFacts
<1>4. CASE /\ poll[p].previous # NoObservation /\ Fields(poll[p]) # {}
           /\ poll' = [poll EXCEPT ![p].step = "store", ![p].candidate = Change(poll[p])]
  <2> DEFINE d == Change(poll[p])
  <2>1. poll' = [poll EXCEPT ![p].step = "store", ![p].candidate = d]
    BY <1>4
  <2> HIDE DEF d
  <2>2. /\ Others(p) /\ poll'[p].step = "store" /\ poll'[p].candidate = d
        /\ poll'[p].flight = poll[p].flight
        /\ poll'[p].previous = poll[p].previous
    BY <1>1, <2>1 DEF LoopsType, PollState, Others
  <2> QED
    BY <1>4, <2>2 DEF d
<1> QED
  BY <1>2, <1>3, <1>4 DEF Evaluate

LEMMA PollFrame ==
  ASSUME TypeInv, NEW p \in Poller, Poll(p) \/ PollEnds(p)
  PROVE  Others(p)
<1>1. LoopsType
  BY DEF TypeInv
<1>2. CASE FetchEvidence(p) \/ ReadFlight(p) \/ Evaluate(p)
  BY <1>1, <1>2, FetchFacts, ReadFacts, EvaluateFacts
<1>3. CASE StoreCandidate(p) \/ PublishCandidate(p) \/ Unqueue(p)
  BY <1>1, <1>3, GotoFacts, IdleFacts, StoreWeatherFacts
  DEF StoreCandidate, PublishCandidate, Unqueue
<1>4. CASE PutFlight(p) \/ PutWeather(p) \/ PollEnds(p)
  BY <1>1, <1>4, IdleFacts, StoreWeatherFacts DEF PutFlight, PutWeather, PollEnds
<1> QED
  BY <1>2, <1>3, <1>4 DEF Poll

-----------------------------------------------------------------------------
(* A row leaves the outbox only after its event is on the stream.           *)

PublishedInv ==
    /\ CandidateNotLost
    /\ \A p \in Poller : poll[p].step = "unqueue" => poll[p].candidate \in stream
    /\ drain.step = "delete" => drain.at \in stream

\* What is on the stream stays there.
LEMMA StreamGrows == [Next]_vars => stream \subseteq stream'
<1> USE DEF rows, agency, vars
<1>1. CASE \E p \in Poller : PublishCandidate(p)
  BY <1>1 DEF PublishCandidate
<1>2. CASE DrainPublish
  BY <1>2 DEF DrainPublish
<1>3. CASE \E p \in Poller :
             \/ FetchEvidence(p) \/ ReadFlight(p) \/ Evaluate(p) \/ StoreCandidate(p)
             \/ Unqueue(p) \/ PutFlight(p) \/ PutWeather(p) \/ PollEnds(p)
  BY <1>3 DEF FetchEvidence, ReadFlight, Evaluate, StoreCandidate, Unqueue,
     PutFlight, PutWeather, PollEnds
<1>4. CASE Agency \/ ListOutbox \/ DrainDelete \/ DrainFails \/ DrainStops \/ UNCHANGED vars
  BY <1>4 DEF Agency, ListOutbox, DrainDelete, DrainFails, DrainStops
<1> QED
  BY <1>1, <1>2, <1>3, <1>4 DEF Next, Poll, Drain

\* Deleting the row of a published candidate, or noting a failure on it,
\* loses none.
LEMMA RowGone ==
  ASSUME CandidateNotLost, UNCHANGED candidates, stream \subseteq stream',
         NEW d \in CandidateId, (\E c \in stream : c.id = d) \/ outbox[d] \notin Candidate,
         \A i \in CandidateId \ {d} : outbox'[i] = outbox[i],
         candidates \subseteq CandidateId
  PROVE  CandidateNotLost'
<1> SUFFICES ASSUME NEW i \in candidates
             PROVE  outbox'[i] \in Candidate \/ \E c \in stream' : c.id = i
  BY DEF CandidateNotLost
<1> QED
  BY DEF CandidateNotLost

LEMMA InitPublished == Init => PublishedInv
BY DEF Init, MonitorInit, PublishedInv, CandidateNotLost, Idle, Waiting

LEMMA NextPublished == TypeInv /\ PublishedInv /\ [Next]_vars => PublishedInv'
<1> SUFFICES ASSUME TypeInv, PublishedInv, [Next]_vars
             PROVE  PublishedInv'
  OBVIOUS
<1> stream \subseteq stream'
  BY StreamGrows
<1> USE DEF TypeInv, RowsType, LoopsType, rows, agency, vars
<1>1. ASSUME UNCHANGED <<candidates, outbox>> PROVE CandidateNotLost'
  BY <1>1 DEF PublishedInv, CandidateNotLost
<1>2. ASSUME NEW p \in Poller, StoreCandidate(p) PROVE CandidateNotLost'
  <2>1. poll[p].candidate \in Candidate
    BY <1>2 DEF StoreCandidate, Equipped, Publishing
  <2>2. /\ candidates' = candidates \cup {poll[p].candidate.id}
        /\ outbox' = [outbox EXCEPT ![poll[p].candidate.id] = poll[p].candidate]
    BY <1>2 DEF StoreCandidate
  <2>3. outbox'[poll[p].candidate.id] \in Candidate
    BY <2>1, <2>2 DEF Candidate
  <2> QED
    BY <2>1, <2>2, <2>3 DEF CandidateNotLost, PublishedInv, Candidate
<1>3. ASSUME NEW p \in Poller, Unqueue(p) PROVE CandidateNotLost'
  <2> DEFINE d == poll[p].candidate.id
  <2>1. d \in CandidateId /\ \E c \in stream : c.id = d
    BY <1>3 DEF Unqueue, PublishedInv, Candidate
  <2>2. /\ outbox' = [outbox EXCEPT ![d] = Absent]
        /\ UNCHANGED candidates /\ CandidateNotLost
    BY <1>3 DEF Unqueue, PublishedInv
  <2> HIDE DEF d
  <2> QED
    BY <2>1, <2>2, RowGone
<1>4. ASSUME DrainDelete \/ DrainFails PROVE CandidateNotLost'
  <2>1. CASE DrainDelete
    <3> DEFINE d == drain.at.id
    <3>1. d \in CandidateId /\ \E c \in stream : c.id = d
      BY <2>1 DEF DrainDelete, PublishedInv, Candidate
    <3>2. /\ outbox' = [outbox EXCEPT ![d] = Absent]
          /\ UNCHANGED candidates /\ CandidateNotLost
      BY <2>1 DEF DrainDelete, PublishedInv
    <3> HIDE DEF d
    <3> QED
      BY <3>1, <3>2, RowGone
  <2>2. CASE DrainFails
    <3>1. PICK c \in (IF drain.step = "next" THEN drain.todo ELSE {drain.at}) :
             outbox' = [outbox EXCEPT ![c.id] = IF @ = Absent THEN Ghost ELSE @]
      BY <2>2 DEF DrainFails
    <3>2. c \in Candidate /\ c.id \in CandidateId
      BY <2>2, <3>1 DEF DrainFails, DrainState, Candidate
    <3>3. UNCHANGED candidates /\ CandidateNotLost
      BY <2>2 DEF DrainFails, PublishedInv
    <3>4. CASE outbox[c.id] # Absent
      BY <3>1, <3>2, <3>3, <3>4 DEF CandidateNotLost
    <3>5. CASE outbox[c.id] = Absent
      <4>1. outbox[c.id] \notin Candidate
        BY <3>5, MonitoringAssumption
      <4> QED
        BY <3>1, <3>2, <3>3, <4>1, RowGone
    <3> QED
      BY <3>4, <3>5
  <2> QED
    BY <1>4, <2>1, <2>2
<1>5. CandidateNotLost'
  BY <1>1, <1>2, <1>3, <1>4 DEF PublishedInv, Next, Agency, Poll, FetchEvidence,
     ReadFlight, Evaluate, PublishCandidate, PutFlight, PutWeather, PollEnds,
     Drain, ListOutbox, DrainPublish, DrainStops
<1>6. ASSUME NEW p \in Poller, poll'[p].step = "unqueue"
      PROVE  poll'[p].candidate \in stream'
  <2>1. CASE poll'[p] = poll[p]
    BY <1>6, <2>1 DEF PublishedInv
  <2>2. CASE PublishCandidate(p)
    BY <1>6, <2>2, GotoFacts, IdleFacts DEF PublishCandidate, Cleared
  <2>3. CASE FetchEvidence(p) \/ ReadFlight(p) \/ Evaluate(p)
    BY <1>6, <2>3, FetchFacts, ReadFacts, EvaluateFacts DEF Cleared
  <2>4. CASE \/ StoreCandidate(p) \/ Unqueue(p) \/ PutFlight(p) \/ PutWeather(p)
             \/ PollEnds(p)
    BY <1>6, <2>4, GotoFacts, IdleFacts, StoreWeatherFacts
    DEF StoreCandidate, Unqueue, PutFlight, PutWeather, PollEnds, Cleared
  <2>5. ASSUME NEW q \in Poller \ {p}, Poll(q) \/ PollEnds(q)
        PROVE  poll'[p] = poll[p]
    BY <2>5, PollFrame DEF Others
  <2>6. CASE UNCHANGED poll
    BY <2>1, <2>6
  <2>7. CASE Agency \/ Drain \/ DrainFails \/ DrainStops \/ UNCHANGED vars
    BY <2>6, <2>7 DEF Agency, Drain, ListOutbox, DrainPublish, DrainDelete, DrainFails,
       DrainStops
  <2> QED
    BY <2>1, <2>2, <2>3, <2>4, <2>5, <2>7 DEF Next, Poll
<1>7. drain'.step = "delete" => drain'.at \in stream'
  <2>1. CASE UNCHANGED drain
    BY <2>1 DEF PublishedInv
  <2>2. CASE DrainPublish
    BY <2>2 DEF DrainPublish, DrainState
  <2>3. CASE ListOutbox \/ DrainDelete \/ DrainFails \/ DrainStops
    <3>1. drain'.step # "delete"
      <4>1. CASE ListOutbox
        BY <4>1 DEF ListOutbox, Waiting
      <4>2. CASE DrainDelete
        BY <4>2 DEF DrainDelete, Waiting, DrainState
      <4>3. CASE DrainFails \/ DrainStops
        <5>1. \/ drain' = Waiting
              \/ \E c : drain' = [step |-> "next", todo |-> drain.todo \ {c}, at |-> None]
          BY <4>3 DEF DrainFails, DrainStops
        <5> QED
          BY <5>1 DEF Waiting
      <4> QED
        BY <2>3, <4>1, <4>2, <4>3
    <3> QED
      BY <3>1
  <2> QED
    BY <2>1, <2>2, <2>3 DEF Next, Agency, Poll, FetchEvidence, ReadFlight, Evaluate,
       StoreCandidate, PublishCandidate, Unqueue, PutFlight, PutWeather, PollEnds, Drain
<1> QED
  BY <1>5, <1>6, <1>7 DEF PublishedInv

\* A change that was stored as a candidate is published or still to be
\* (monitoring_store.py, put_candidate_with_outbox; event_delivery.py,
\* publish_pending_outbox).
THEOREM NoCandidateLost == Spec => []CandidateNotLost
<1>1. PublishedInv => CandidateNotLost
  BY DEF PublishedInv
<1> QED
  BY <1>1, InitType, NextType, InitPublished, NextPublished, PTL DEF Spec

-----------------------------------------------------------------------------
(* What is known of the flight: the observations that are remembered, and   *)
(* the candidates that were made of them.  While the agency keeps its       *)
(* records they are of the past, a later one has a greater id, and an id    *)
(* stands for one state.                                                    *)

Remembered ==
    {NoObservation, lastFlight}
    \cup {poll[p].flight : p \in Poller} \cup {poll[p].previous : p \in Poller}
    \cup {o \in {Observation} : flight # NoFlight}

Issued ==
    Candidate \cap
        (stream \cup drain.todo \cup {drain.at}
         \cup {poll[p].candidate : p \in Poller}
         \cup {outbox[i] : i \in CandidateId})

OfFlight(c) == c.id[1] = "flight"

Consistent(O, C, revision, clock) ==
    /\ \A o \in O : o.id <= revision /\ o.time <= clock
    /\ \A o, q \in O : /\ o.time > q.time => o.id > q.id
                       /\ o.id = q.id => o.facts = q.facts
    /\ \A c \in C : OfFlight(c) =>
          /\ c.id[2] <= revision
          /\ \A o \in O : o.id = c.id[2] => o.facts = c.facts
    /\ \A c, d \in C : OfFlight(c) /\ c.id = d.id => c.facts = d.facts

HistoryInv == ~forgotten => Consistent(Remembered, Issued, flight.revision, now)

LEMMA CandidateIds ==
  ASSUME NEW c \in Candidate, OfFlight(c)
  PROVE  c.id[2] \in Int
BY AgencyAssumption DEF Candidate, CandidateId, OfFlight

LEMMA RememberedTypes ==
  ASSUME TypeInv
  PROVE  /\ \A o \in Remembered : o.id \in Int /\ o.time \in Int
         /\ flight.revision \in Int /\ now \in Int
<1>1. flight.revision \in Int /\ now \in Int
  BY AgencyAssumption DEF TypeInv, AgencyType, Record, NoFlight
<1>2. \A o \in Observations : o.id \in Int /\ o.time \in Int
  BY AgencyAssumption DEF Observations, NoObservation
<1>3. /\ NoObservation \in Observations /\ lastFlight \in Observations
      /\ \A p \in Poller : poll[p].flight \in Observations /\ poll[p].previous \in Observations
  BY DEF TypeInv, RowsType, LoopsType, PollState, Observations
<1>4. flight # NoFlight => Observation \in Observations
  BY DEF TypeInv, AgencyType, Record, Observation, Observations
<1> QED
  BY <1>1, <1>2, <1>3, <1>4 DEF Remembered

\* Fewer observations and candidates are no less consistent.
LEMMA ConsistentShrinks ==
  ASSUME NEW O, NEW C, NEW r, NEW t, Consistent(O, C, r, t),
         NEW P \in SUBSET O, NEW D \in SUBSET C
  PROVE  Consistent(P, D, r, t)
BY DEF Consistent

\* A candidate that is named after a remembered observation fits in.
LEMMA ConsistentNames ==
  ASSUME NEW O, NEW C, NEW r, NEW t, Consistent(O, C, r, t), NEW c,
         OfFlight(c) => \E o \in O : o.id = c.id[2] /\ o.facts = c.facts
  PROVE  Consistent(O, C \cup {c}, r, t)
<1>1. ASSUME NEW d \in C, OfFlight(c), c.id = d.id
      PROVE  c.facts = d.facts
  <2>1. PICK o \in O : o.id = c.id[2] /\ o.facts = c.facts
    BY <1>1
  <2>2. OfFlight(d) /\ o.id = d.id[2]
    BY <1>1, <2>1 DEF OfFlight
  <2> QED
    BY <2>1, <2>2 DEF Consistent
<1>2. OfFlight(c) => /\ c.id[2] <= r
                     /\ \A o \in O : o.id = c.id[2] => o.facts = c.facts
  BY DEF Consistent
<1>3. \A d, e \in C \cup {c} : OfFlight(d) /\ d.id = e.id => d.facts = e.facts
  <2> SUFFICES ASSUME NEW d \in C \cup {c}, NEW e \in C \cup {c},
                      OfFlight(d), d.id = e.id
               PROVE  d.facts = e.facts
    OBVIOUS
  <2>1. OfFlight(e)
    BY DEF OfFlight
  <2> QED
    BY <1>1, <2>1 DEF Consistent
<1>4. \A d \in C \cup {c} : OfFlight(d) =>
         /\ d.id[2] <= r /\ \A o \in O : o.id = d.id[2] => o.facts = d.facts
  BY <1>2 DEF Consistent
<1> QED
  BY <1>3, <1>4 DEF Consistent

\* An observation of a new revision at a new time fits in.
LEMMA ConsistentGrows ==
  ASSUME NEW O, NEW C, NEW r \in Int, NEW t \in Int, Consistent(O, C, r, t),
         \A o \in O : o.id \in Int /\ o.time \in Int,
         \A c \in C : OfFlight(c) => c.id[2] \in Int,
         NEW new, new.id \in Int, new.time \in Int, new.id > r, new.time > t
  PROVE  Consistent(O \cup {new}, C, new.id, new.time)
<1>1. \A o \in O : o.id < new.id /\ o.time < new.time
  BY DEF Consistent
<1>2. \A c \in C : OfFlight(c) => c.id[2] < new.id
  BY DEF Consistent
<1>3. \A o \in O \cup {new} : o.id <= new.id /\ o.time <= new.time
  BY <1>1
<1>4. \A o, q \in O \cup {new} : /\ o.time > q.time => o.id > q.id
                                 /\ o.id = q.id => o.facts = q.facts
  <2> SUFFICES ASSUME NEW o \in O \cup {new}, NEW q \in O \cup {new}
               PROVE  /\ o.time > q.time => o.id > q.id
                      /\ o.id = q.id => o.facts = q.facts
    OBVIOUS
  <2>1. CASE o \in O /\ q \in O
    BY <2>1 DEF Consistent
  <2>2. CASE o = new /\ q = new
    BY <2>2
  <2>3. CASE o = new /\ q \in O
    BY <2>3, <1>1
  <2>4. CASE o \in O /\ q = new
    BY <2>4, <1>1
  <2> QED
    BY <2>1, <2>2, <2>3, <2>4
<1>5. \A c \in C : OfFlight(c) =>
         /\ c.id[2] <= new.id
         /\ \A o \in O \cup {new} : o.id = c.id[2] => o.facts = c.facts
  BY <1>2 DEF Consistent
<1> QED
  BY <1>3, <1>4, <1>5 DEF Consistent

LEMMA ChangeNamed ==
  ASSUME TypeInv, NEW p \in Poller, OfFlight(Change(poll[p]))
  PROVE  \E o \in Remembered : /\ o.id = Change(poll[p]).id[2]
                               /\ o.facts = Change(poll[p]).facts
<1>1. Effective(poll[p]) \in Remembered
  BY DEF Effective, Remembered
<1>2. /\ EventId(poll[p]) = <<"flight", Effective(poll[p]).id>>
      /\ Change(poll[p]).facts = Effective(poll[p]).facts
      /\ Change(poll[p]).id = EventId(poll[p])
  BY DEF OfFlight, Change, EventId
<1> QED
  BY <1>1, <1>2

LEMMA InitHistory == Init => HistoryInv
<1> SUFFICES ASSUME Init PROVE Consistent(Remembered, Issued, flight.revision, now)
  BY DEF HistoryInv
<1> USE DEF Init, MonitorInit, AgencyInit
<1>1. Remembered = {NoObservation}
  BY DEF Remembered, Idle
<1>2. Issued = {}
  BY MonitoringAssumption DEF Issued, Idle, Waiting
<1>3. /\ NoObservation.id <= flight.revision /\ NoObservation.time <= now
      /\ NoObservation.time = -1
  BY DEF NoObservation, NoFlight
<1> QED
  BY <1>1, <1>2, <1>3 DEF Consistent

\* A step that neither remembers nor names anything new.
LEMMA HistoryShrinks ==
  ASSUME HistoryInv, UNCHANGED agency,
         Remembered' \subseteq Remembered, Issued' \subseteq Issued
  PROVE  HistoryInv'
<1> SUFFICES ASSUME ~forgotten
             PROVE  Consistent(Remembered', Issued', flight.revision, now)
  BY DEF HistoryInv, agency, Consistent
<1> QED
  BY ConsistentShrinks DEF HistoryInv

\* What a poll's step adds to what is known, given what it does to its locals
\* and to the rows.
LEMMA PollRemembers ==
  ASSUME TypeInv, UNCHANGED agency, NEW p \in Poller, Others(p),
         lastFlight' \in Remembered,
         poll'[p].flight \in Remembered, poll'[p].previous \in Remembered
  PROVE  Remembered' \subseteq Remembered
<1>1. \A q \in Poller : poll'[q].flight \in Remembered /\ poll'[q].previous \in Remembered
  BY DEF Others, Remembered
<1>2. flight # NoFlight => Observation' \in Remembered
  BY DEF Observation, Remembered, agency
<1>3. NoObservation \in Remembered
  BY DEF Remembered
<1> QED
  BY <1>1, <1>2, <1>3 DEF Remembered, agency

LEMMA PollIssues ==
  ASSUME TypeInv, UNCHANGED drain, NEW p \in Poller, Others(p), NEW C,
         Issued \subseteq C, stream' \cap Candidate \subseteq C,
         poll'[p].candidate \in Candidate => poll'[p].candidate \in C,
         \A i \in CandidateId : outbox'[i] \in Candidate => outbox'[i] \in C
  PROVE  Issued' \subseteq C
<1>1. \A q \in Poller : poll'[q].candidate \in Candidate => poll'[q].candidate \in C
  BY DEF Others, Issued
<1> QED
  BY <1>1 DEF Issued

LEMMA NextHistory == TypeInv /\ HistoryInv /\ [Next]_vars => HistoryInv'
<1> SUFFICES ASSUME TypeInv, HistoryInv, [Next]_vars
             PROVE  HistoryInv'
  OBVIOUS
<1> LoopsType /\ RowsType
  BY DEF TypeInv
<1> USE DEF rows, vars
<1> NoObservation \in Remembered /\ lastFlight \in Remembered
  BY DEF Remembered
<1>1. CASE Agency
  <2>1. CASE Forget
    BY <2>1 DEF Forget, HistoryInv
  <2>2. ASSUME NEW f \in Facts, Seed \/ Mutate(f) PROVE HistoryInv'
    <3> SUFFICES ASSUME ~forgotten
                 PROVE  Consistent(Remembered', Issued', flight'.revision, now')
      <4>1. UNCHANGED forgotten
        BY <2>2 DEF Seed, Mutate
      <4> QED
        BY <4>1 DEF HistoryInv
    <3> DEFINE new == Observation'
    <3>1. /\ Issued' = Issued
          /\ UNCHANGED <<lastFlight, poll>>
      BY <1>1, <2>2 DEF Agency, Issued
    <3>2. Remembered' \subseteq Remembered \cup {new}
      BY <3>1 DEF Remembered
    <3>3. /\ new.id = flight'.revision /\ new.time = now'
          /\ flight'.revision = flight.revision + 1 /\ now' = now + 1
      BY <2>2 DEF Seed, Mutate, NextChangedAt, Observation, NoFlight
    <3>4. /\ \A o \in Remembered : o.id \in Int /\ o.time \in Int
          /\ flight.revision \in Int /\ now \in Int
          /\ \A c \in Issued : OfFlight(c) => c.id[2] \in Int
      BY RememberedTypes, CandidateIds DEF Issued
    <3>5. Consistent(Remembered, Issued, flight.revision, now)
      BY DEF HistoryInv
    <3> HIDE DEF new
    <3>6. Consistent(Remembered \cup {new}, Issued, new.id, new.time)
      <4>1. /\ new.id \in Int /\ new.time \in Int
            /\ new.id > flight.revision /\ new.time > now
        BY <3>3, <3>4
      <4> QED
        BY <3>4, <3>5, <4>1, ConsistentGrows
    <3> QED
      BY <3>1, <3>2, <3>3, <3>6, ConsistentShrinks
  <2> QED
    BY <1>1, <2>1, <2>2, AgencyAssumption DEF Agency, Operate
<1>2. ASSUME NEW p \in Poller, FetchEvidence(p) PROVE HistoryInv'
  <2>1. UNCHANGED <<agency, rows, drain>>
    BY <1>2 DEF FetchEvidence
  <2>2. Observation \in Remembered
    BY <1>2, FetchFacts DEF Remembered
  <2>3. Remembered' \subseteq Remembered
    BY <1>2, <2>1, <2>2, FetchFacts, PollRemembers
  <2>4. Issued' \subseteq Issued
    <3>1. /\ stream' \cap Candidate \subseteq Issued
          /\ \A i \in CandidateId : outbox'[i] \in Candidate => outbox'[i] \in Issued
      BY <2>1 DEF Issued
    <3> QED
      BY <1>2, <2>1, <3>1, FetchFacts, PollIssues, MonitoringAssumption
  <2> QED
    BY <2>1, <2>3, <2>4, HistoryShrinks
<1>3. ASSUME NEW p \in Poller, Others(p), UNCHANGED <<agency, drain>>,
             lastFlight' \in Remembered,
             poll'[p].flight \in Remembered, poll'[p].previous \in Remembered,
             poll'[p].candidate \in Candidate => poll'[p].candidate \in Issued,
             stream' \cap Candidate \subseteq Issued,
             \A i \in CandidateId : outbox'[i] \in Candidate => outbox'[i] \in Issued
      PROVE  HistoryInv'
  BY <1>3, PollRemembers, PollIssues, HistoryShrinks
<1>4. ASSUME NEW p \in Poller
      PROVE  /\ poll[p].flight \in Remembered /\ poll[p].previous \in Remembered
             /\ poll[p].candidate \in Candidate => poll[p].candidate \in Issued
             /\ stream \cap Candidate \subseteq Issued
             /\ \A i \in CandidateId : outbox[i] \in Candidate => outbox[i] \in Issued
  BY DEF Remembered, Issued
<1>5. ASSUME NEW p \in Poller, ReadFlight(p) PROVE HistoryInv'
  <2>1. UNCHANGED <<agency, rows, drain>>
    BY <1>5 DEF ReadFlight
  <2> QED
    BY <1>3, <1>4, <1>5, <2>1, ReadFacts
<1>6. ASSUME NEW p \in Poller, Evaluate(p) PROVE HistoryInv'
  <2>1. UNCHANGED <<agency, rows, drain>>
    BY <1>6 DEF Evaluate
  <2>2. CASE poll'[p].candidate = poll[p].candidate \/ poll'[p].candidate = None
    BY <1>3, <1>4, <1>6, <2>1, <2>2, EvaluateFacts, MonitoringAssumption DEF Cleared
  <2>3. CASE poll'[p].candidate = Change(poll[p]) /\ poll'[p].step = "store"
    <3> SUFFICES ASSUME ~forgotten
                 PROVE  Consistent(Remembered', Issued', flight.revision, now)
      BY <2>1 DEF HistoryInv, agency
    <3>1. Remembered' \subseteq Remembered
      BY <1>4, <1>6, <2>1, <2>3, EvaluateFacts, PollRemembers DEF Cleared
    <3> DEFINE C == Issued \cup {Change(poll[p])}
    <3>2. Issued' \subseteq C
      <4>1. /\ stream' \cap Candidate \subseteq C /\ Issued \subseteq C
            /\ \A i \in CandidateId : outbox'[i] \in Candidate => outbox'[i] \in C
            /\ poll'[p].candidate \in C
        BY <1>4, <2>1, <2>3
      <4> HIDE DEF C
      <4> QED
        BY <1>6, <2>1, <4>1, EvaluateFacts, PollIssues
    <3>3. Consistent(Remembered, C, flight.revision, now)
      BY ChangeNamed, ConsistentNames DEF HistoryInv
    <3> HIDE DEF C
    <3> QED
      BY <3>1, <3>2, <3>3, ConsistentShrinks
  <2> QED
    BY <1>6, <2>2, <2>3, EvaluateFacts DEF Cleared
<1>7. ASSUME NEW p \in Poller, StoreCandidate(p) PROVE HistoryInv'
  <2>1. UNCHANGED <<agency, lastFlight, stream, drain>>
    BY <1>7 DEF StoreCandidate
  <2>2. \A i \in CandidateId : outbox'[i] \in {outbox[i], poll[p].candidate}
    BY <1>7 DEF StoreCandidate, RowsType
  <2> QED
    BY <1>3, <1>4, <1>7, <2>1, <2>2, GotoFacts DEF StoreCandidate
<1>8. ASSUME NEW p \in Poller, PublishCandidate(p) PROVE HistoryInv'
  <2>1. UNCHANGED <<agency, lastFlight, outbox, drain>>
    BY <1>8 DEF PublishCandidate
  <2>2. stream' \cap Candidate \subseteq Issued
    BY <1>4, <1>8 DEF PublishCandidate
  <2>3. CASE Goto(p, "unqueue")
    BY <1>3, <1>4, <1>8, <2>1, <2>2, <2>3, GotoFacts
  <2>4. CASE poll' = [poll EXCEPT ![p] = Idle]
    BY <1>3, <1>4, <1>8, <2>1, <2>2, <2>4, IdleFacts, MonitoringAssumption DEF Cleared
  <2> QED
    BY <1>8, <2>3, <2>4 DEF PublishCandidate
<1>9. ASSUME NEW p \in Poller, Unqueue(p) PROVE HistoryInv'
  <2>1. UNCHANGED <<agency, lastFlight, stream, drain>>
    BY <1>9 DEF Unqueue
  <2>2. \A i \in CandidateId : outbox'[i] \in {outbox[i], Absent}
    BY <1>9 DEF Unqueue, RowsType
  <2>3. CASE Goto(p, "putFlight")
    BY <1>3, <1>4, <1>9, <2>1, <2>2, <2>3, GotoFacts, MonitoringAssumption
  <2>4. CASE StoreWeather(p)
    BY <1>3, <1>4, <1>9, <2>1, <2>2, <2>4, StoreWeatherFacts, MonitoringAssumption
    DEF Cleared
  <2> QED
    BY <1>9, <2>3, <2>4 DEF Unqueue
<1>10. ASSUME NEW p \in Poller, PutFlight(p) PROVE HistoryInv'
  <2>1. UNCHANGED <<agency, stream, outbox, drain>> /\ lastFlight' = poll[p].flight
    BY <1>10 DEF PutFlight
  <2> QED
    BY <1>3, <1>4, <1>10, <2>1, StoreWeatherFacts, MonitoringAssumption
    DEF PutFlight, Cleared
<1>11. ASSUME NEW p \in Poller, PutWeather(p) \/ PollEnds(p) PROVE HistoryInv'
  <2>1. /\ UNCHANGED <<agency, lastFlight, stream, outbox, drain>>
        /\ poll' = [poll EXCEPT ![p] = Idle]
    BY <1>11 DEF PutWeather, PollEnds
  <2> QED
    BY <1>3, <1>4, <1>11, <2>1, IdleFacts, MonitoringAssumption DEF Cleared
<1>12. ASSUME UNCHANGED <<agency, lastFlight, poll>>, Issued' \subseteq Issued
       PROVE  HistoryInv'
  <2>1. Remembered' = Remembered
    BY <1>12 DEF Remembered, Observation, agency
  <2> QED
    BY <1>12, <2>1, HistoryShrinks
<1>13. CASE ListOutbox
  <2>1. drain'.at = None /\ drain'.todo \subseteq {outbox[i] : i \in CandidateId}
    <3>1. PICK page \in SUBSET CandidateId :
             drain' = [Waiting EXCEPT !.step = "next",
                          !.todo = {outbox[i] : i \in page} \ {Ghost}]
      BY <1>13 DEF ListOutbox
    <3> DEFINE todo == {outbox[i] : i \in page} \ {Ghost}
    <3>2. drain'.at = None /\ drain'.todo = todo
      BY <3>1 DEF Waiting
    <3> QED
      BY <3>2
  <2>2. Issued' \subseteq Issued
    BY <1>13, <2>1, MonitoringAssumption DEF ListOutbox, Issued
  <2> QED
    BY <1>12, <1>13, <2>2 DEF ListOutbox
<1>14. CASE DrainPublish
  <2>1. PICK c \in drain.todo :
           /\ stream' = stream \cup {c}
           /\ drain' = [drain EXCEPT !.step = "delete", !.at = c, !.todo = @ \ {c}]
    BY <1>14 DEF DrainPublish
  <2>2. drain'.at = c /\ drain'.todo \subseteq drain.todo
    BY <2>1 DEF LoopsType, DrainState
  <2>3. Issued' \subseteq Issued
    BY <1>14, <2>1, <2>2 DEF DrainPublish, Issued
  <2> QED
    BY <1>12, <1>14, <2>3 DEF DrainPublish
<1>15. CASE DrainDelete
  <2>1. drain'.todo \subseteq drain.todo /\ drain'.at = None
    BY <1>15 DEF DrainDelete, LoopsType, DrainState, Waiting
  <2>2. \A i \in CandidateId : outbox'[i] \in {outbox[i], Absent}
    BY <1>15 DEF DrainDelete, RowsType
  <2>3. Issued' \subseteq Issued
    BY <1>15, <2>1, <2>2, MonitoringAssumption DEF DrainDelete, Issued
  <2> QED
    BY <1>12, <1>15, <2>3 DEF DrainDelete
<1>16. CASE DrainFails
  <2>1. PICK c \in (IF drain.step = "next" THEN drain.todo ELSE {drain.at}) :
          /\ outbox' = [outbox EXCEPT ![c.id] = IF @ = Absent THEN Ghost ELSE @]
          /\ drain' = IF drain.todo \ {c} = {} THEN Waiting
                      ELSE [step |-> "next", todo |-> drain.todo \ {c},
                            at |-> None]
    BY <1>16 DEF DrainFails
  <2>2. drain'.todo \subseteq drain.todo /\ drain'.at = None
    BY <2>1 DEF Waiting
  <2>3. \A i \in CandidateId : outbox'[i] \in {outbox[i], Ghost}
    BY <2>1 DEF RowsType
  <2>4. Issued' \subseteq Issued
    BY <1>16, <2>2, <2>3, MonitoringAssumption DEF DrainFails, Issued
  <2> QED
    BY <1>12, <1>16, <2>4 DEF DrainFails
<1>17. CASE DrainStops \/ UNCHANGED vars
  <2>1. Issued' \subseteq Issued
    <3>1. CASE DrainStops
      <4>1. drain'.todo = {} /\ drain'.at = None
        BY <3>1 DEF DrainStops, Waiting
      <4> QED
        BY <3>1, <4>1, MonitoringAssumption DEF DrainStops, Issued
    <3>2. CASE UNCHANGED vars
      BY <3>2 DEF Issued
    <3> QED
      BY <1>17, <3>1, <3>2
  <2> QED
    BY <1>12, <1>17, <2>1 DEF DrainStops
<1> QED
  BY <1>1, <1>2, <1>5, <1>6, <1>7, <1>8, <1>9, <1>10, <1>11, <1>13, <1>14,
     <1>15, <1>16, <1>17 DEF Next, Poll, Drain

\* An id that names a revision of the flight stands for one state of it,
\* however often it is published (monitoring_flow.py, _event_id;
\* flight_agency_service.py, mutate).
THEOREM IdOfOneState == Spec => []IdNamesOneState
<1>1. TypeInv /\ HistoryInv => IdNamesOneState
  <2> SUFFICES ASSUME TypeInv, HistoryInv, ~forgotten,
                      NEW a \in stream, NEW b \in stream, a.id = b.id, a.id[1] = "flight"
               PROVE  a.facts = b.facts
    BY DEF IdNamesOneState
  <2>1. a \in Issued /\ b \in Issued
    BY DEF TypeInv, RowsType, Issued
  <2> QED
    BY <2>1 DEF HistoryInv, Consistent, OfFlight
<1> QED
  BY <1>1, InitType, NextType, InitHistory, NextHistory, PTL DEF Spec

-----------------------------------------------------------------------------
(* While nothing was torn one poll is at work, and what was told last is    *)
(* what it started from, or what it is about to store.                      *)

Settled == lastFlight # NoObservation => lastFlight.facts = reported

InStream(c) == \E d \in stream : d.id = c.id

\* What the poll at work may rely on at each of its steps.
Sound(c) ==
    /\ c.step \in {"readFlight", "readWeather"} => c.candidate = None
    /\ c.step \in Comparing \ {"readFlight"} => c.previous = lastFlight
    /\ c.step \in Publishing =>
          /\ c.previous # NoObservation
          /\ \/ /\ OfFlight(c.candidate) /\ ~Stale(c)
                /\ c.candidate.id[2] = c.flight.id /\ c.candidate.facts = c.flight.facts
             \/ /\ ~OfFlight(c.candidate) /\ c.candidate.facts = lastFlight.facts
                /\ ~Stale(c) => c.flight.facts = lastFlight.facts
    /\ c.step \in {"idle", "readFlight", "readWeather", "store", "putWeather"} => Settled
    /\ c.step = "publish" =>
          IF InStream(c.candidate) THEN reported = c.candidate.facts ELSE Settled
    /\ c.step = "unqueue" => reported = c.candidate.facts
    /\ c.step = "putFlight" =>
          /\ c.previous # NoObservation => reported = c.flight.facts
          /\ c.candidate = None => Settled
          /\ c.flight.id >= lastFlight.id

\* It has reported a revision that it has still to store.
Ahead(c) ==
    c.step \in {"publish", "unqueue", "putFlight"} /\ c.candidate # None /\ ~Stale(c)

AloneAtWork(p) ==
    /\ \A q \in Poller \ {p} : poll[q].step = "idle"
    /\ Sound(poll[p])
    /\ \A c \in stream : OfFlight(c) =>
          c.id[2] <= lastFlight.id \/ (Ahead(poll[p]) /\ c.id[2] <= poll[p].flight.id)
    /\ \A c \in drain.todo \cup {outbox[i] : i \in CandidateId} :
          c \in Candidate =>
              c \in stream \/ (poll[p].step = "publish" /\ c = poll[p].candidate)

SwallowInv ==
    ~torn /\ ~forgotten =>
        \/ Poller = {} /\ lastFlight = NoObservation
        \/ \E p \in Poller : AloneAtWork(p)

\* Facts between which no field changed are the same.
LEMMA SameFacts ==
  ASSUME NEW f \in Facts, NEW g \in Facts, ChangedFields(f, g) = {}
  PROVE  f = g
<1>1. f.status = g.status
  <2>1. {x \in {<<"flight", "status">>} : f.status # g.status} = {}
    BY DEF ChangedFields
  <2> QED
    BY <2>1
<1>2. \A x \in EndField : f[x[1]][x[2]] = g[x[1]][x[2]]
  <2>1. {x \in EndField : f[x[1]][x[2]] # g[x[1]][x[2]]} = {}
    BY DEF ChangedFields
  <2> QED
    BY <2>1
<1> QED
  BY <1>1, <1>2, MonitoringAssumption

\* What a comparison finds that reports a change.
LEMMA ChangeSound ==
  ASSUME NEW c \in PollState, c.flight # NoObservation, c.previous # NoObservation,
         Fields(c) # {}
  PROVE  \/ /\ OfFlight(Change(c)) /\ ~Stale(c)
            /\ Change(c).id[2] = c.flight.id /\ Change(c).facts = c.flight.facts
         \/ /\ ~OfFlight(Change(c)) /\ Change(c).facts = c.previous.facts
            /\ ~Stale(c) => c.flight.facts = c.previous.facts
<1>1. Change(c).id = EventId(c) /\ Change(c).facts = Effective(c).facts
  BY DEF Change
<1>2. CASE FlightFields(c) = {}
  <2>1. c.weather # None
    BY <1>2 DEF Fields, WeatherFields
  <2>2. EventId(c) = <<"weather", c.weather.id>>
    BY <1>2, <2>1 DEF EventId
  <2>3. ~Stale(c) => c.flight.facts = c.previous.facts
    BY <1>2, SameFacts DEF FlightFields, PollState, Observations
  <2> QED
    BY <1>1, <2>2, <2>3 DEF OfFlight, Effective
<1>3. CASE FlightFields(c) # {}
  <2>1. EventId(c) = <<"flight", Effective(c).id>> /\ ~Stale(c)
    BY <1>3 DEF EventId, FlightFields
  <2> QED
    BY <1>1, <2>1 DEF OfFlight, Effective
<1> QED
  BY <1>2, <1>3

\* Evidence that is not stale is of a later revision than what it is compared
\* with.
LEMMA LaterRevision ==
  ASSUME TypeInv, HistoryInv, ~forgotten, NEW p \in Poller, ~Stale(poll[p])
  PROVE  poll[p].flight.id > poll[p].previous.id
<1>1. poll[p].flight \in Remembered /\ poll[p].previous \in Remembered
  BY DEF Remembered
<1>2. poll[p].flight.time > poll[p].previous.time
  BY <1>1, RememberedTypes DEF Stale
<1> QED
  BY <1>1, <1>2 DEF HistoryInv, Consistent

LEMMA IdTypes ==
  ASSUME TypeInv
  PROVE  /\ lastFlight.id \in Int /\ lastFlight.id >= 0
         /\ \A p \in Poller : poll[p].flight.id \in Int /\ poll[p].flight.id >= 0
         /\ \A c \in stream : OfFlight(c) => c.id[2] \in Int
<1>1. \A o \in Observations : o.id \in Int /\ o.id >= 0
  BY AgencyAssumption DEF Observations, NoObservation
<1>2. lastFlight \in Observations /\ \A p \in Poller : poll[p].flight \in Observations
  BY DEF TypeInv, RowsType, LoopsType, PollState
<1> QED
  BY <1>1, <1>2, CandidateIds DEF TypeInv, RowsType

\* Between polls: nothing is at work, and all that was stored was published.
Quiet ==
    /\ Settled
    /\ \A p \in Poller : poll[p].step = "idle"
    /\ \A c \in stream : OfFlight(c) => c.id[2] <= lastFlight.id
    /\ \A c \in drain.todo \cup {outbox[i] : i \in CandidateId} :
          c \in Candidate => c \in stream

LEMMA QuietWhenIdle ==
  ASSUME NEW p \in Poller, AloneAtWork(p), poll[p].step = "idle"
  PROVE  Quiet
BY DEF AloneAtWork, Quiet, Sound, Ahead

LEMMA InitSwallow == Init => SwallowInv
<1> SUFFICES ASSUME Init, NEW p \in Poller PROVE AloneAtWork(p)
  BY DEF SwallowInv, Init, MonitorInit
<1> USE DEF Init, MonitorInit
<1>1. \A q \in Poller : poll[q].step = "idle"
  BY DEF Idle
<1>2. Settled
  BY DEF Settled
<1>3. Sound(poll[p])
  BY <1>1, <1>2 DEF Sound, Comparing, Publishing
<1>4. \A i \in CandidateId : outbox[i] \notin Candidate
  BY MonitoringAssumption
<1> QED
  BY <1>1, <1>3, <1>4 DEF AloneAtWork, Waiting
\* A step of the drain loop or of the agency that publishes nothing.
LEMMA WorkUndisturbed ==
  ASSUME NEW p \in Poller, AloneAtWork(p),
         UNCHANGED <<poll, lastFlight, reported, stream>>,
         \A c \in drain'.todo \cup {outbox'[i] : i \in CandidateId} :
            c \in Candidate => c \in drain.todo \cup {outbox[i] : i \in CandidateId}
  PROVE  AloneAtWork(p)'
<1>1. Sound(poll[p])'
  BY DEF AloneAtWork, Sound, Settled, InStream, Stale
<1>2. \A c \in stream' : OfFlight(c) =>
         c.id[2] <= lastFlight'.id \/ (Ahead(poll[p])' /\ c.id[2] <= poll'[p].flight.id)
  BY DEF AloneAtWork, Ahead, Stale
<1> QED
  BY <1>1, <1>2 DEF AloneAtWork

\* A step of the poll at work that leaves the rows alone, when what it has
\* reported is stored.
LEMMA WorkMovesOn ==
  ASSUME NEW p \in Poller, AloneAtWork(p), Others(p), UNCHANGED <<rows, drain>>,
         ~Ahead(poll[p]), poll[p].step # "publish", Sound(poll[p])'
  PROVE  AloneAtWork(p)'
BY DEF AloneAtWork, Others, rows

\* What each step of the poll at work leaves it with.
LEMMA EvaluateSound ==
  ASSUME TypeInv, HistoryInv, ~forgotten, NEW p \in Poller, AloneAtWork(p), Evaluate(p)
  PROVE  Sound(poll[p])'
<1>1. /\ UNCHANGED <<lastFlight, reported>> /\ poll[p].step = "readWeather"
      /\ poll[p].candidate = None /\ poll[p].previous = lastFlight /\ Settled
  BY DEF Evaluate, rows, AloneAtWork, Sound, Comparing
<1>2. /\ poll[p] \in PollState /\ poll[p].flight # NoObservation
      /\ poll[p].flight.facts \in Facts /\ poll[p].previous.facts \in Facts
  BY <1>1, AgencyAssumption DEF TypeInv, LoopsType, Equipped, Comparing, PollState,
     Observations, NoObservation
<1>3. Settled'
  BY <1>1 DEF Settled
<1>4. CASE /\ poll'[p].step = "putFlight"
           /\ poll[p].previous = NoObservation \/ (Fields(poll[p]) = {} /\ ~Stale(poll[p]))
           /\ poll'[p].candidate = poll[p].candidate
           /\ poll'[p].flight = poll[p].flight /\ poll'[p].previous = poll[p].previous
  <2>1. CASE poll[p].previous = NoObservation
    <3>1. poll[p].flight.id >= lastFlight.id
      BY <1>1, <2>1, IdTypes DEF NoObservation
    <3> QED
      BY <1>1, <1>3, <1>4, <2>1, <3>1 DEF Sound, Comparing, Publishing
  <2>2. CASE poll[p].previous # NoObservation /\ Fields(poll[p]) = {} /\ ~Stale(poll[p])
    <3>1. poll[p].flight.facts = poll[p].previous.facts
      BY <1>2, <2>2, SameFacts DEF Fields, FlightFields
    <3>2. poll[p].flight.id >= lastFlight.id
      BY <1>1, <2>2, LaterRevision, IdTypes
    <3> QED
      BY <1>1, <1>3, <1>4, <2>2, <3>1, <3>2 DEF Sound, Comparing, Publishing, Settled
  <2> QED
    BY <1>4, <2>1, <2>2
<1>5. CASE Cleared(poll'[p])
  BY <1>3, <1>5 DEF Cleared, Sound, Comparing, Publishing
<1>6. CASE /\ poll'[p].step = "store"
           /\ poll[p].previous # NoObservation /\ Fields(poll[p]) # {}
           /\ poll'[p].candidate = Change(poll[p])
           /\ poll'[p].flight = poll[p].flight /\ poll'[p].previous = poll[p].previous
  <2> DEFINE d == Change(poll[p])
  <2>1. \/ /\ OfFlight(d) /\ ~Stale(poll[p])
           /\ d.id[2] = poll[p].flight.id /\ d.facts = poll[p].flight.facts
        \/ /\ ~OfFlight(d) /\ d.facts = lastFlight.facts
           /\ ~Stale(poll[p]) => poll[p].flight.facts = lastFlight.facts
    BY <1>1, <1>2, <1>6, ChangeSound
  <2>2. Stale(poll[p])' <=> Stale(poll[p])
    BY <1>6 DEF Stale
  <2>3. poll'[p].candidate = d
    BY <1>6
  <2> HIDE DEF d
  <2> QED
    BY <1>1, <1>3, <1>6, <2>1, <2>2, <2>3 DEF Sound, Comparing, Publishing
<1> QED
  BY <1>4, <1>5, <1>6, EvaluateFacts
LEMMA StoreCandidateWorks ==
  ASSUME TypeInv, HistoryInv, ~forgotten, NEW p \in Poller, AloneAtWork(p),
         StoreCandidate(p)
  PROVE  AloneAtWork(p)'
<1> DEFINE c == poll[p].candidate
<1>1. /\ UNCHANGED <<lastFlight, reported, stream, drain>> /\ poll[p].step = "store"
      /\ poll'[p].step = "publish" /\ poll'[p].candidate = c
      /\ poll'[p].flight = poll[p].flight /\ poll'[p].previous = poll[p].previous
      /\ Others(p) /\ \A i \in CandidateId : outbox'[i] \in {outbox[i], c}
  BY GotoFacts DEF StoreCandidate, TypeInv, LoopsType, RowsType
<1>2. /\ poll[p].previous = lastFlight /\ lastFlight # NoObservation /\ Settled
      /\ \/ /\ OfFlight(c) /\ ~Stale(poll[p])
            /\ c.id[2] = poll[p].flight.id /\ c.facts = poll[p].flight.facts
         \/ /\ ~OfFlight(c) /\ c.facts = lastFlight.facts
            /\ ~Stale(poll[p]) => poll[p].flight.facts = lastFlight.facts
  BY <1>1 DEF AloneAtWork, Sound, Comparing, Publishing
<1>3. InStream(c) => reported = c.facts
  <2>1. CASE OfFlight(c) /\ ~Stale(poll[p]) /\ c.id[2] = poll[p].flight.id
    <3>1. c.id[2] > lastFlight.id
      BY <1>2, <2>1, LaterRevision
    <3>2. ASSUME NEW d \in stream, d.id = c.id PROVE FALSE
      <4>1. OfFlight(d) /\ d.id[2] = c.id[2]
        BY <2>1, <3>2 DEF OfFlight
      <4>2. d.id[2] <= lastFlight.id
        BY <1>1, <4>1 DEF AloneAtWork, Ahead
      <4> QED
        BY <2>1, <3>1, <4>1, <4>2, IdTypes
    <3> QED
      BY <3>2 DEF InStream
  <2>2. CASE c.facts = lastFlight.facts
    BY <1>2, <2>2 DEF Settled
  <2> QED
    BY <1>2, <2>1, <2>2
<1>4. Stale(poll[p])' <=> Stale(poll[p])
  BY <1>1 DEF Stale
<1>5. Sound(poll[p])'
  <2>1. poll'[p].previous = lastFlight' /\ poll'[p].previous # NoObservation
    BY <1>1, <1>2
  <2>2. (IF InStream(poll[p].candidate) THEN reported = poll[p].candidate.facts
                                        ELSE Settled)'
    BY <1>1, <1>2, <1>3 DEF InStream, Settled
  <2> HIDE DEF c
  <2> QED
    BY <1>1, <1>2, <1>4, <2>1, <2>2 DEF Sound, Comparing, Publishing
<1>6. \A d \in stream' : OfFlight(d) => d.id[2] <= lastFlight'.id
  BY <1>1 DEF AloneAtWork, Ahead
<1>7. \A d \in drain'.todo \cup {outbox'[i] : i \in CandidateId} :
         d \in Candidate => d \in stream' \/ (poll'[p].step = "publish" /\ d = poll'[p].candidate)
  BY <1>1 DEF AloneAtWork
<1> HIDE DEF c
<1> QED
  BY <1>1, <1>5, <1>6, <1>7 DEF AloneAtWork, Others

\* What was told last once a candidate is out, were it out before or not.
LEMMA Telling ==
  ASSUME NEW c, InStream(c) => reported = c.facts
  PROVE  Told(c) = c.facts
BY DEF Told, InStream

LEMMA PublishWorks ==
  ASSUME TypeInv, NEW p \in Poller, AloneAtWork(p), PublishCandidate(p), ~torn'
  PROVE  AloneAtWork(p)'
<1> DEFINE c == poll[p].candidate
<1>1. /\ UNCHANGED <<lastFlight, drain, outbox>> /\ poll[p].step = "publish"
      /\ poll'[p].step = "unqueue" /\ poll'[p].candidate = c
      /\ poll'[p].flight = poll[p].flight /\ poll'[p].previous = poll[p].previous
      /\ Others(p) /\ stream' = stream \cup {c} /\ reported' = Told(c)
  BY GotoFacts DEF PublishCandidate, TypeInv, LoopsType
<1>2. /\ poll[p].previous = lastFlight /\ lastFlight # NoObservation
      /\ InStream(c) => reported = c.facts
      /\ c # None
      /\ \/ /\ OfFlight(c) /\ ~Stale(poll[p])
            /\ c.id[2] = poll[p].flight.id /\ c.facts = poll[p].flight.facts
         \/ /\ ~OfFlight(c) /\ c.facts = lastFlight.facts
            /\ ~Stale(poll[p]) => poll[p].flight.facts = lastFlight.facts
  BY <1>1, MonitoringAssumption
  DEF AloneAtWork, Sound, Comparing, Publishing, TypeInv, LoopsType, Equipped
<1>3. reported' = c.facts
  BY <1>1, <1>2, Telling
<1>4. (Stale(poll[p])' <=> Stale(poll[p])) /\ (Ahead(poll[p]) => Ahead(poll[p])')
  BY <1>1 DEF Stale, Ahead
<1>5. ~Stale(poll[p]) => Ahead(poll[p])'
  BY <1>1, <1>2, <1>4 DEF Ahead
<1>6. Sound(poll[p])'
  <2> HIDE DEF c
  <2> QED
    BY <1>1, <1>2, <1>3, <1>4 DEF Sound, Comparing, Publishing
<1>7. ASSUME NEW d \in stream', OfFlight(d)
      PROVE  d.id[2] <= lastFlight'.id \/ (Ahead(poll[p])' /\ d.id[2] <= poll'[p].flight.id)
  <2>1. CASE d \in stream
    BY <1>1, <1>4, <1>7, <2>1 DEF AloneAtWork
  <2>2. CASE d = c
    <3>1. Ahead(poll[p])' /\ d.id[2] = poll'[p].flight.id
      BY <1>1, <1>2, <1>5, <1>7, <2>2
    <3> QED
      BY <1>1, <3>1, IdTypes
  <2> QED
    BY <1>1, <1>7, <2>1, <2>2
<1>8. \A d \in drain'.todo \cup {outbox'[i] : i \in CandidateId} :
         d \in Candidate => d \in stream'
  BY <1>1 DEF AloneAtWork
<1> HIDE DEF c
<1> QED
  BY <1>1, <1>6, <1>7, <1>8 DEF AloneAtWork, Others

LEMMA UnqueueWorks ==
  ASSUME TypeInv, HistoryInv, ~forgotten, NEW p \in Poller, AloneAtWork(p), Unqueue(p)
  PROVE  AloneAtWork(p)'
<1> DEFINE c == poll[p].candidate
<1>1. /\ UNCHANGED <<lastFlight, reported, stream, drain>> /\ poll[p].step = "unqueue"
      /\ \A i \in CandidateId : outbox'[i] \in {outbox[i], Absent}
      /\ IF Stale(poll[p]) THEN StoreWeather(p) ELSE Goto(p, "putFlight")
  BY DEF Unqueue, TypeInv, RowsType
<1>2. /\ poll[p].previous = lastFlight /\ lastFlight # NoObservation
      /\ reported = c.facts /\ c # None
      /\ \/ /\ ~Stale(poll[p]) /\ c.facts = poll[p].flight.facts
         \/ /\ c.facts = lastFlight.facts
            /\ ~Stale(poll[p]) => poll[p].flight.facts = lastFlight.facts
  BY <1>1, MonitoringAssumption
  DEF AloneAtWork, Sound, Comparing, Publishing, TypeInv, LoopsType, Equipped
<1>3. \A d \in drain'.todo \cup {outbox'[i] : i \in CandidateId} :
         d \in Candidate => d \in stream'
  BY <1>1, MonitoringAssumption DEF AloneAtWork
<1>4. CASE Stale(poll[p])
  <2>1. Others(p) /\ Cleared(poll'[p])
    BY <1>1, <1>4, StoreWeatherFacts DEF TypeInv
  <2>2. Settled'
    BY <1>1, <1>2, <1>4 DEF Settled
  <2>3. Sound(poll[p])'
    BY <2>1, <2>2 DEF Sound, Cleared, Comparing, Publishing
  <2>4. \A d \in stream' : OfFlight(d) => d.id[2] <= lastFlight'.id
    BY <1>1, <1>4 DEF AloneAtWork, Ahead
  <2> QED
    BY <1>3, <2>1, <2>3, <2>4 DEF AloneAtWork, Others
<1>5. CASE ~Stale(poll[p])
  <2>1. /\ Others(p) /\ poll'[p].step = "putFlight" /\ poll'[p].candidate = c
        /\ poll'[p].flight = poll[p].flight /\ poll'[p].previous = poll[p].previous
    BY <1>1, <1>5, GotoFacts DEF TypeInv
  <2>2. reported = poll[p].flight.facts
    BY <1>2, <1>5
  <2>3. poll[p].flight.id >= lastFlight.id
    BY <1>2, <1>5, LaterRevision, IdTypes
  <2>4. Sound(poll[p])'
    <3> HIDE DEF c
    <3> QED
      BY <1>1, <1>2, <2>1, <2>2, <2>3 DEF Sound, Comparing, Publishing
  <2>5. Ahead(poll[p])'
    BY <1>2, <1>5, <2>1 DEF Ahead, Stale
  <2>6. \A d \in stream' : OfFlight(d) =>
           d.id[2] <= lastFlight'.id \/ (Ahead(poll[p])' /\ d.id[2] <= poll'[p].flight.id)
    BY <1>1, <2>1, <2>5 DEF AloneAtWork
  <2> QED
    BY <1>3, <2>1, <2>4, <2>6 DEF AloneAtWork, Others
<1> QED
  BY <1>4, <1>5

LEMMA PutFlightWorks ==
  ASSUME TypeInv, NEW p \in Poller, AloneAtWork(p), PutFlight(p)
  PROVE  AloneAtWork(p)'
<1>1. /\ UNCHANGED <<stream, drain, outbox>> /\ poll[p].step = "putFlight"
      /\ lastFlight' = poll[p].flight /\ Others(p) /\ Cleared(poll'[p])
  BY StoreWeatherFacts DEF PutFlight, TypeInv
<1>2. reported' = poll[p].flight.facts /\ poll[p].flight.id >= lastFlight.id
  BY DEF PutFlight, AloneAtWork, Sound
<1>3. Sound(poll[p])'
  BY <1>1, <1>2 DEF Sound, Cleared, Comparing, Publishing, Settled
<1>4. ASSUME NEW d \in stream', OfFlight(d) PROVE d.id[2] <= lastFlight'.id
  <2>1. d.id[2] <= lastFlight.id \/ d.id[2] <= poll[p].flight.id
    BY <1>1, <1>4 DEF AloneAtWork
  <2> QED
    BY <1>1, <1>2, <1>4, <2>1, IdTypes
<1>5. \A d \in drain'.todo \cup {outbox'[i] : i \in CandidateId} :
         d \in Candidate => d \in stream'
  BY <1>1 DEF AloneAtWork
<1> QED
  BY <1>1, <1>3, <1>4, <1>5 DEF AloneAtWork, Others

LEMMA DrainPublishWorks ==
  ASSUME TypeInv, NEW p \in Poller, AloneAtWork(p), DrainPublish
  PROVE  AloneAtWork(p)'
<1>1. PICK c \in drain.todo :
         /\ stream' = stream \cup {c} /\ reported' = Told(c)
         /\ drain' = [drain EXCEPT !.step = "delete", !.at = c, !.todo = @ \ {c}]
  BY DEF DrainPublish
<1>2. /\ UNCHANGED <<poll, lastFlight, outbox>> /\ c \in Candidate
      /\ drain'.todo \subseteq drain.todo
  BY <1>1 DEF DrainPublish, TypeInv, LoopsType, DrainState
<1>3. CASE c \in stream
  <2>1. stream' = stream
    BY <1>1, <1>3
  <2>2. reported' = reported
    BY <1>1, <1>3 DEF Told
  <2> QED
    BY <1>2, <2>1, <2>2, WorkUndisturbed
<1>4. CASE poll[p].step = "publish" /\ c = poll[p].candidate
  <2>1. /\ poll[p].previous = lastFlight /\ lastFlight # NoObservation
        /\ InStream(c) => reported = c.facts
        /\ c # None
        /\ OfFlight(c) => ~Stale(poll[p]) /\ c.id[2] = poll[p].flight.id
    BY <1>2, <1>4, MonitoringAssumption DEF AloneAtWork, Sound, Comparing, Publishing
  <2>2. reported' = c.facts /\ InStream(c)'
    BY <1>1, <2>1, Telling DEF InStream
  <2>3. Ahead(poll[p])' = Ahead(poll[p])
    BY <1>2 DEF Ahead, Stale
  <2>4. Sound(poll[p])'
    BY <1>2, <1>4, <2>2 DEF AloneAtWork, Sound, Stale, Comparing, Publishing
  <2>5. ASSUME NEW d \in stream', OfFlight(d)
        PROVE  d.id[2] <= lastFlight'.id \/ (Ahead(poll[p])' /\ d.id[2] <= poll'[p].flight.id)
    <3>1. CASE d \in stream
      BY <1>2, <2>3, <2>5, <3>1 DEF AloneAtWork
    <3>2. CASE d = c
      <4>1. Ahead(poll[p])'
        BY <1>2, <1>4, <2>1, <2>5, <3>2 DEF Ahead, Stale
      <4> QED
        BY <1>2, <2>1, <2>5, <3>2, <4>1, IdTypes
    <3> QED
      BY <1>1, <2>5, <3>1, <3>2
  <2>6. \A d \in drain'.todo \cup {outbox'[i] : i \in CandidateId} :
           d \in Candidate => d \in stream'
    BY <1>1, <1>2, <1>4 DEF AloneAtWork
  <2> QED
    BY <1>2, <2>4, <2>5, <2>6 DEF AloneAtWork
<1> QED
  BY <1>1, <1>2, <1>3, <1>4 DEF AloneAtWork
LEMMA NextSwallow == TypeInv /\ HistoryInv /\ SwallowInv /\ [Next]_vars => SwallowInv'
<1> SUFFICES ASSUME TypeInv, HistoryInv, SwallowInv, [Next]_vars,
                    ~torn', ~forgotten'
             PROVE  \/ Poller = {} /\ lastFlight' = NoObservation
                    \/ \E p \in Poller : AloneAtWork(p)'
  BY DEF SwallowInv
<1> USE DEF rows, agency, vars
<1>1. ~torn /\ ~forgotten
  <2>1. CASE Agency
    <3>1. torn' = torn /\ (forgotten' = forgotten \/ forgotten' = TRUE)
      BY <2>1 DEF Agency, Operate, Seed, Mutate, Forget
    <3> QED
      BY <3>1
  <2>2. ASSUME NEW p \in Poller, Poll(p) \/ PollEnds(p) PROVE ~torn /\ ~forgotten
    <3>1. forgotten' = forgotten
      BY <2>2 DEF Poll, FetchEvidence, ReadFlight, Evaluate, StoreCandidate,
         PublishCandidate, Unqueue, PutFlight, PutWeather, PollEnds
    <3>2. torn \in BOOLEAN
      BY DEF TypeInv, RestType
    <3>3. (\E cut \in BOOLEAN : torn' = (torn \/ cut)) \/ torn' = torn \/ torn' = TRUE
      BY <2>2 DEF Poll, FetchEvidence, ReadFlight, Evaluate, StoreCandidate,
         PublishCandidate, Unqueue, PutFlight, PutWeather, PollEnds
    <3> QED
      BY <3>1, <3>2, <3>3
  <2>3. CASE Drain \/ DrainFails \/ DrainStops \/ UNCHANGED vars
    <3>1. torn' = torn /\ forgotten' = forgotten
      BY <2>3 DEF Drain, ListOutbox, DrainPublish, DrainDelete, DrainFails, DrainStops
    <3> QED
      BY <3>1
  <2> QED
    BY <2>1, <2>2, <2>3 DEF Next
<1>2. CASE Poller = {}
  <2>1. lastFlight = NoObservation
    BY <1>1, <1>2 DEF SwallowInv
  <2> QED
    BY <1>2, <2>1 DEF Next, Agency, Drain, ListOutbox, DrainPublish, DrainDelete,
       DrainFails, DrainStops
<1>3. CASE Poller # {}
  <2>1. PICK p \in Poller : AloneAtWork(p)
    BY <1>1, <1>3 DEF SwallowInv
  <2>2. LoopsType
    BY DEF TypeInv
  <2>3. ASSUME NEW q \in Poller, FetchEvidence(q)
        PROVE  AloneAtWork(q)'
    <3>1. \A r \in Poller \ {q} : poll[r].step = "idle"
      BY <2>3 DEF FetchEvidence
    <3>2. Quiet
      <4>1. poll[p].step = "idle"
        BY <2>3, <3>1 DEF FetchEvidence
      <4> QED
        BY <2>1, <4>1, QuietWhenIdle
    <3>3. /\ UNCHANGED <<lastFlight, reported, stream, drain, outbox>>
          /\ Others(q) /\ poll'[q].step = "readFlight" /\ poll'[q].candidate = None
      BY <2>3, FetchFacts DEF FetchEvidence
    <3>4. Sound(poll[q])'
      BY <3>2, <3>3 DEF Quiet, Sound, Comparing, Publishing, Settled
    <3> QED
      BY <3>1, <3>2, <3>3, <3>4 DEF Quiet, AloneAtWork, Others
  <2>4. ASSUME NEW q \in Poller, Poll(q) \/ PollEnds(q), ~FetchEvidence(q)
        PROVE  q = p
    BY <2>1, <2>4 DEF Poll, ReadFlight, Evaluate, StoreCandidate, PublishCandidate,
       Unqueue, PutFlight, PutWeather, PollEnds, AloneAtWork
  <2>5. CASE ReadFlight(p)
    <3>1. /\ UNCHANGED <<lastFlight, reported, stream, drain, outbox>>
          /\ poll[p].step = "readFlight" /\ Others(p)
          /\ poll'[p].step = "readWeather" /\ poll'[p].candidate = poll[p].candidate
          /\ poll'[p].previous = lastFlight
      BY <2>2, <2>5, ReadFacts DEF ReadFlight
    <3>2. poll[p].candidate = None /\ Settled
      BY <2>1, <3>1 DEF AloneAtWork, Sound
    <3>3. Sound(poll[p])'
      BY <3>1, <3>2 DEF Sound, Comparing, Publishing, Settled
    <3> QED
      BY <2>1, <2>5, <3>1, <3>3, WorkMovesOn DEF Ahead, ReadFlight
  <2>6. CASE Evaluate(p)
    <3>1. Sound(poll[p])' /\ Others(p)
      BY <1>1, <2>1, <2>6, EvaluateSound, EvaluateFacts
    <3> QED
      BY <2>1, <2>6, <3>1, WorkMovesOn DEF Evaluate, Ahead
  <2>7. CASE PutWeather(p)
    <3>1. /\ Others(p) /\ Cleared(poll'[p]) /\ poll[p].step = "putWeather"
          /\ UNCHANGED <<lastFlight, reported, stream, drain, outbox>>
      BY <2>2, <2>7, IdleFacts DEF PutWeather
    <3>2. Sound(poll[p])'
      BY <2>1, <3>1 DEF AloneAtWork, Sound, Cleared, Comparing, Publishing, Settled
    <3> QED
      BY <2>1, <3>1, <3>2 DEF AloneAtWork, Others, Ahead
  <2>8. CASE PollEnds(p)
    <3>1. /\ Others(p) /\ Cleared(poll'[p])
          /\ UNCHANGED <<rows, drain, reported>>
          /\ poll[p].candidate = None \/ poll[p].step = "store"
      BY <2>2, <2>8, IdleFacts DEF PollEnds
    <3>2. poll[p].step \notin {"publish", "unqueue"}
      BY <2>2, <3>1, MonitoringAssumption DEF LoopsType, Equipped, Publishing
    <3>3. Settled
      <4>1. poll[p].step \in Comparing \cup {"idle", "putWeather"}
        BY <2>2 DEF LoopsType, PollState
      <4> QED
        BY <2>1, <3>1, <3>2, <4>1 DEF AloneAtWork, Sound, Comparing
    <3>4. Sound(poll[p])'
      BY <3>1, <3>3 DEF Sound, Cleared, Comparing, Publishing, Settled
    <3> QED
      BY <2>1, <3>1, <3>2, <3>4, WorkMovesOn DEF Ahead
  <2>9. ASSUME UNCHANGED <<poll, lastFlight, reported, stream>>,
               \A c \in drain'.todo \cup {outbox'[i] : i \in CandidateId} :
                  c \in Candidate => c \in drain.todo \cup {outbox[i] : i \in CandidateId}
        PROVE  AloneAtWork(p)'
    BY <2>1, <2>9, WorkUndisturbed
  <2>10. CASE ListOutbox
    <3>1. PICK page \in SUBSET CandidateId :
             drain' = [Waiting EXCEPT !.step = "next",
                          !.todo = {outbox[i] : i \in page} \ {Ghost}]
      BY <2>10 DEF ListOutbox
    <3> DEFINE todo == {outbox[i] : i \in page} \ {Ghost}
    <3>2. drain'.todo = todo /\ todo \subseteq {outbox[i] : i \in CandidateId}
      BY <3>1 DEF Waiting
    <3> HIDE DEF todo
    <3> QED
      BY <2>9, <2>10, <3>2 DEF ListOutbox
  <2>11. CASE DrainDelete
    <3>1. drain'.todo \subseteq drain.todo
      BY <2>2, <2>11 DEF DrainDelete, LoopsType, DrainState, Waiting
    <3>2. \A i \in CandidateId : outbox'[i] \in {outbox[i], Absent}
      BY <2>11 DEF DrainDelete, TypeInv, RowsType
    <3> QED
      BY <2>9, <2>11, <3>1, <3>2, MonitoringAssumption DEF DrainDelete
  <2>12. CASE DrainFails
    <3>1. PICK c \in (IF drain.step = "next" THEN drain.todo ELSE {drain.at}) :
            /\ outbox' = [outbox EXCEPT ![c.id] = IF @ = Absent THEN Ghost ELSE @]
            /\ drain' = IF drain.todo \ {c} = {} THEN Waiting
                        ELSE [step |-> "next", todo |-> drain.todo \ {c},
                              at |-> None]
      BY <2>12 DEF DrainFails
    <3>2. drain'.todo \subseteq drain.todo
      BY <3>1 DEF Waiting
    <3>3. \A i \in CandidateId : outbox'[i] \in {outbox[i], Ghost}
      BY <3>1 DEF TypeInv, RowsType
    <3> QED
      BY <2>9, <2>12, <3>2, <3>3, MonitoringAssumption DEF DrainFails
  <2>13. CASE DrainStops
    <3>1. drain'.todo = {}
      BY <2>13 DEF DrainStops, Waiting
    <3> QED
      BY <2>9, <2>13, <3>1 DEF DrainStops
  <2>14. CASE Agency \/ UNCHANGED vars
    <3>1. UNCHANGED <<rows, poll, drain, reported>>
      BY <2>14 DEF Agency
    <3> QED
      BY <2>9, <3>1
  <2>15. CASE DrainPublish
    BY <2>1, <2>15, DrainPublishWorks
  <2>16. CASE StoreCandidate(p) \/ PublishCandidate(p) \/ Unqueue(p) \/ PutFlight(p)
    BY <1>1, <2>1, <2>16, StoreCandidateWorks, PublishWorks, UnqueueWorks, PutFlightWorks
  <2> QED
    BY <2>3, <2>4, <2>5, <2>6, <2>7, <2>8, <2>10, <2>11, <2>12, <2>13, <2>14,
       <2>15, <2>16 DEF Next, Poll, Drain
<1> QED
  BY <1>2, <1>3

\* evaluate_delta compares with what was told last: between polls the stored
\* observation holds the facts the traveller was last told of, as long as no
\* poll was cut between its candidate and its observation, no two ran at a time
\* and the agency kept its records (monitoring_flow.py, evaluate_delta;
\* monitoring_a2a.py, the poll's order of calls).
THEOREM ComparedWithTold == Spec => []NothingSwallowed
<1>1. SwallowInv => NothingSwallowed
  <2> SUFFICES ASSUME SwallowInv, ~torn, ~forgotten, lastFlight # NoObservation,
                      \A p \in Poller : poll[p].step = "idle"
               PROVE  lastFlight.facts = reported
    BY DEF NothingSwallowed
  <2>1. PICK p \in Poller : AloneAtWork(p)
    BY DEF SwallowInv
  <2>2. Quiet
    BY <2>1, QuietWhenIdle
  <2> QED
    BY <2>2 DEF Quiet, Settled
<1> QED
  BY <1>1, InitType, NextType, InitHistory, NextHistory, InitSwallow, NextSwallow,
     PTL DEF Spec
=============================================================================
