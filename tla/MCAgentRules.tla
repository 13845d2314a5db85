----------------------------- MODULE MCAgentRules -----------------------------
(***************************************************************************)
(* The rules the agents apply to what others answer, on bounded inputs: an  *)
(* initial state is an input, the one step applies the rule that it is for. *)
(***************************************************************************)
EXTENDS WeatherForecast, FlightStatus, TLC

CONSTANTS LHR, leg

Wording == INSTANCE DisruptionWording

Replayed == INSTANCE ReplayEvaluation WITH NotifyDelay <- 30, SearchDelay <- 90

VARIABLES input, result

vars == <<input, result>>

-----------------------------------------------------------------------------
(* Forecasts.                                                               *)

Steps == [at : {600}, code : {200, 500, 501, 502, 600, 701, 741, 781, 800},
          wind : {5, 14, 15, 24, 25},
          visibility : {None, 499, 500, 1499, 1500}]

Later == [at |-> 790, code |-> 211, wind |-> 30, visibility |-> 100]

Forecasts == [rule : {"weather"}, step : Steps]

Weather(i) == AirportWeather(LHR, 690, <<i.step, Later>>)

-----------------------------------------------------------------------------
(* AviationStack's records.                                                 *)

Movements(estimates, actuals, gates) ==
    [airport : {LHR}, scheduled : {100}, estimated : estimates,
     actual : actuals, terminal : {1}, gate : gates]

FlightRecords ==
    [flight : {1}, date : {1}, status : {"scheduled", "cancelled"},
     departure : Movements({None, 100, 145}, {None, 100, 130}, {10, 12}),
     arrival : Movements({None, 145}, {None, 100}, {10}), updated : {None}]

Flights == [rule : {"flight"}, before : {r \in FlightRecords : ~Late(r)},
            after : {r \in FlightRecords : Late(r)}]

Reported(r) == FlightStatusOf(<<[r EXCEPT !.date = 2], r>>, 1, 1, 50)

Flight(i) ==
    Classify(Reported(i.after),
             ChangedFields(Reported(i.before), Reported(i.after)), None, None)

-----------------------------------------------------------------------------
(* Replayed scenarios.                                                      *)

OnTime == [estimated |-> 0, actual |-> None, terminal |-> 1, gate |-> 10]

Booked == [status |-> "scheduled", departure |-> OnTime, arrival |-> OnTime]

Observed(facts, weather, n, time, received) ==
    [id |-> n, leg |-> leg, time |-> time, received |-> received,
     status |-> facts.status, departure |-> facts.departure,
     arrival |-> facts.arrival, weather |-> weather]

Observable ==
    {<<Booked, None>>, <<[Booked EXCEPT !.departure.estimated = 45], None>>,
     <<[Booked EXCEPT !.departure.gate = 12],
       [risk |-> "severe", alerts |-> {"THUNDERSTORM"}]>>,
     <<[Booked EXCEPT !.arrival.actual = 120], None>>,
     <<[Booked EXCEPT !.status = "cancelled"], None>>}

\* Four observations, of which any but the first may carry an old time, and
\* the last be received before the third.
Scenario(c, f, old, swapped) ==
    [rule |-> "replay", trip |-> "trip", connection |-> (leg :> c),
     observations |->
       <<Observed(Booked, None, 1, 10, 10)>> \o
       [n \in 1 .. 3 |->
           Observed(f[n][1], f[n][2], n + 1, IF old = n THEN 10 ELSE 10 * n + 10,
                    IF swapped /\ n = 3 THEN 25 ELSE 10 * n + 10)]]

Scenarios == {Scenario(c, f, old, swapped) :
                 c \in {None, [buffer |-> 60, minimum |-> 45]},
                 f \in [1 .. 3 -> Observable], old \in 0 .. 3,
                 swapped \in BOOLEAN}

-----------------------------------------------------------------------------
(* Wording.                                                                 *)

Events == [category : {"DELAY", "CONNECTION_RISK", "CANCELLATION"},
           reasons : {{"REASON"}}]

Candidates == [delay : {None, 0, 45, 2881}, buffer : {None, -20, 30},
               minimum : {45}, weather : {"high"}, corroborated : {FALSE}]

Sentences == [kind : {"sentence"},
              terms : {{"DELAY"}, {"DELAY", "CONNECTION_RISK"}},
              numbers : {{}, {45}, {20}, {30, 45}},
              facts : {{"category"}, {"delay"}, {"buffer", "weather"}},
              unsupported : BOOLEAN, short : BOOLEAN, confidence : {79, 80}]

Replies == [refusal : BOOLEAN, inSchema : BOOLEAN, sentence : Sentences]

Explanations == {Wording!ModelExplanation(configured, reply) :
                    configured \in BOOLEAN, reply \in Replies \cup {None}}

Wordings == [rule : {"wording"}, event : Events,
             candidate : Candidates \cup {None}, reached : BOOLEAN,
             answer : Explanations \cup {None}]

Told(i) ==
    LET request == Wording!ExplanationRequest(i.event, i.candidate)
    IN  IF request = None THEN None
        ELSE Wording!FriendlyExplanation(request, i.reached, i.answer)

-----------------------------------------------------------------------------
\* The coordinates of London are known, and None is no answer of a provider,
\* no part of one and no airport.
ASSUME AnswerAssumption ==
    /\ LHR # None /\ LHR \in Located
    /\ \A s \in Steps : None # s /\ None # <<s, Later>>
    /\ \A r \in FlightRecords : None # <<[r EXCEPT !.date = 2], r>>

Init == /\ input \in Forecasts \cup Flights \cup Scenarios \cup Wordings
        /\ result = None

Apply ==
    /\ result = None
    /\ result' = [value |-> CASE input.rule = "weather" -> Weather(input)
                              [] input.rule = "flight"  -> Flight(input)
                              [] input.rule = "replay"  -> Replayed!Replay(input)
                              [] input.rule = "wording" -> Told(input)]
    /\ UNCHANGED input

Spec == Init /\ [][Apply]_vars

Applied(rule) == input.rule = rule /\ result # None

\* A measurement that is worse never makes the risk the traveller is warned
\* of a lower one: the wind and the visibility are judged after the condition,
\* each by a rule of its own.
WorseWeatherNeverLowersRisk ==
    Applied("weather") =>
        \A s \in Steps :
            NoBetter(s, input.step) =>
                RiskRank(s) >= Rank(result.value.risk)

\* A delay that a provider's record states for the first time makes a
\* candidate that says so, whatever else of the flight moved with it: no gate,
\* and no estimate that goes when the actual time comes, hides it.
NewDelayIsReported ==
    Applied("flight") => result.value \in {"DELAY", "CANCELLATION"}

\* Of two observations of a leg, one received later and not of an older or
\* the same time: the only ones a candidate may compare.
News(received, i, j) ==
    /\ i < j /\ received[i].leg = received[j].leg
    /\ ~ (received[j].time <= received[i].time)

\* Every candidate compares a leg with what was known of it before.
GoesForward(received, candidates) ==
    \A n \in DOMAIN candidates :
        \E i, j \in DOMAIN received :
            /\ News(received, i, j)
            /\ candidates[n].leg = received[j].leg
            /\ candidates[n].evidence = <<received[i].id, received[j].id>>

\* Measured against itself a result passes the release gates.  (Without any
\* notification the rate of duplicates counts as one.)
PassesGates(r) ==
    Replayed!ThresholdFailures(Replayed!Metrics(<<r>>, <<r>>))
    = IF r.notifications = <<>> THEN {"duplicates"} ELSE {}

\* The replay tells a leg's history forwards and once: evidence that is older
\* than what is known, however it was received, is news to no candidate, no
\* leg is notified twice of one severity of one kind of disruption, and only
\* approved decisions are acted on.
ReplayTellsOnce ==
    Applied("replay") =>
        /\ GoesForward(Replayed!Received(input), result.value.candidates)
        /\ PassesGates(result.value)

\* Whatever the model writes, the traveller is told of the disruption that
\* was confirmed, in figures of the stored evidence, and of nothing that was
\* not done; and if anything is to be told, something is.
OnlyFactsTold ==
    Applied("wording") /\ result.value # None =>
        /\ input.event.category \in result.value.terms
        /\ ~result.value.unsupported
        /\ \A n \in result.value.numbers :
              /\ input.candidate # None
              /\ n \in {input.candidate[e] : e \in {"delay", "buffer", "minimum"}}
=============================================================================
