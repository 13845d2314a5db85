--------------------------- MODULE MCMonitoringPoll ---------------------------
(***************************************************************************)
(* Values for the constants of MonitoringPoll: a flight on time, with a     *)
(* delay of 45 minutes, or at another gate, and a thunderstorm in the       *)
(* forecast for its departure.                                              *)
(***************************************************************************)
EXTENDS MonitoringPoll, WeatherForecast

CONSTANTS p1, LHR

OnTime == [estimated |-> 0, actual |-> None, terminal |-> 1, gate |-> 10]

MCBooked == [status |-> "scheduled", departure |-> OnTime, arrival |-> OnTime]

Delayed == [MCBooked EXCEPT !.departure.estimated = 45]

Moved == [MCBooked EXCEPT !.departure.gate = 12]

MCFacts == {MCBooked, Delayed, Moved}

Clear == [at |-> 600, code |-> 800, wind |-> 4, visibility |-> None]

Storm == [at |-> 780, code |-> 211, wind |-> 16, visibility |-> 900]

MCStorm == {AirportWeather(LHR, 720, <<Clear, Storm>>)}
=============================================================================
