----------------------------- MODULE FlightStatus -----------------------------
(***************************************************************************)
(* AviationStackFlightStatusProvider of flight_status.py: the record chosen *)
(* from a response and the observation made of it, or None where the        *)
(* provider raises FlightStatusProviderError.                               *)
(*                                                                         *)
(* A record is [flight, date, status, departure, arrival, updated]; a       *)
(* movement of it is [airport, scheduled, estimated, actual, terminal,      *)
(* gate] with times in minutes.  None stands for what is missing.           *)
(***************************************************************************)
EXTENDS CandidateRules, Sequences

\* Minutes after the scheduled time, as CandidateRules compares them.  An
\* estimate that is missing is the schedule.
Movement(m) ==
    [estimated |-> IF m.estimated = None THEN 0 ELSE m.estimated - m.scheduled,
     actual |-> IF m.actual = None THEN None ELSE m.actual - m.scheduled,
     terminal |-> m.terminal, gate |-> m.gate]

\* Statuses AviationStack shares with the contract.
KnownStatus == {"scheduled", "active", "landed", "cancelled", "diverted"}

\* _normalize.  Without the provider's own time the evidence counts as new
\* now, and as less certain.
NormalizeRecord(r, now) ==
    IF \E m \in {r.departure, r.arrival} : m.scheduled = None \/ m.airport = None
    THEN None
    ELSE [status |-> IF r.status \in KnownStatus THEN r.status ELSE "unknown",
          departure |-> Movement(r.departure), arrival |-> Movement(r.arrival),
          time |-> IF r.updated = None THEN now ELSE r.updated,
          freshness |-> IF r.updated = None THEN 0 ELSE Max({0, now - r.updated}),
          confidence |-> IF r.updated = None THEN 85 ELSE 95]

\* _get_records: a failed request, an error status or body, and a response
\* without records are errors alike.
Records(response) ==
    IF response = None \/ response = <<>> THEN None ELSE response

\* get_flight_status: the first record of that flight on that date.
FlightStatusOf(response, flight, date, now) ==
    IF Records(response) = None THEN None
    ELSE LET exact == {i \in DOMAIN response :
                         response[i].flight = flight /\ response[i].date = date}
         IN  IF exact = {} THEN None
             ELSE NormalizeRecord(response[Min(exact)], now)

-----------------------------------------------------------------------------
\* What the record itself says of a delay.
Late(r) ==
    \E m \in {r.departure, r.arrival} :
        IF m.actual # None THEN m.actual > m.scheduled
        ELSE m.estimated # None /\ m.estimated > m.scheduled
=============================================================================
