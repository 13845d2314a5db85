--------------------------- MODULE CandidateRules ---------------------------
(***************************************************************************)
(* travel_eval/engine.py: what of an observation counts as a change, and    *)
(* which category the change is reported under.  Pure operators; the        *)
(* Monitoring Agent and the replay evaluation both use them.                *)
(*                                                                         *)
(* An observation is [status, departure, arrival]; a movement is            *)
(* [estimated, actual, terminal, gate] with the two times in minutes after  *)
(* the scheduled one, or None.  Weather is [risk, alerts, ...] or None.     *)
(***************************************************************************)
EXTENDS Integers, FiniteSetsExt

CONSTANT None

ASSUME NoneAssumption == None \notin Int

MovementField == {"estimated", "actual", "terminal", "gate"}

EndField == {"departure", "arrival"} \X MovementField

WeatherField == {<<"weather", "risk">>, <<"weather", "alerts">>}

\* Mutant: gates are not compared.
ChangedIgnoringGates(previous, current) ==
    {f \in {<<"flight", "status">>} : previous.status # current.status}
    \cup {f \in EndField : f[2] # "gate"
                           /\ previous[f[1]][f[2]] # current[f[1]][f[2]]}

ChangedFields(previous, current) ==
    {f \in {<<"flight", "status">>} : previous.status # current.status}
    \cup {f \in EndField : previous[f[1]][f[2]] # current[f[1]][f[2]]}

\* _weather_fields: no evidence now is no change, first evidence is one.
WeatherFields(previous, current) ==
    IF current = None THEN {}
    ELSE IF previous = None THEN WeatherField
    ELSE {f \in WeatherField : previous[f[2]] # current[f[2]]}

EffectiveTime(movement) ==
    IF movement.actual # None THEN movement.actual
    ELSE IF movement.estimated # None THEN movement.estimated
    ELSE 0

\* Mutant: only the departure counts.
DepartureDelay(o) == Max({0, EffectiveTime(o.departure)})

\* A flight that leaves on time and lands late is late.
OperationalDelay(o) ==
    Max({0, EffectiveTime(o.departure), EffectiveTime(o.arrival)})

DelayFields == {"departure", "arrival"} \X {"estimated", "actual"}

Classify(o, fields, buffer, minimum) ==
    LET delayed  == OperationalDelay(o) > 0 /\ fields \cap DelayFields # {}
        only(fs) == fields # {} /\ fields \subseteq fs
        gates    == {"departure", "arrival"} \X {"gate"}
        places   == {"departure", "arrival"} \X {"gate", "terminal"}
    IN  IF o.status = "cancelled" THEN "CANCELLATION"
        ELSE IF o.status = "diverted" THEN "DIVERSION"
        ELSE IF buffer # None /\ minimum # None /\ buffer < minimum
             THEN "CONNECTION_RISK"
        ELSE CASE delayed -> "DELAY"
               [] ~delayed /\ only(gates) -> "GATE_CHANGE"
               [] ~delayed /\ ~only(gates) /\ only(places) -> "TERMINAL_CHANGE"
               [] ~delayed /\ only(WeatherField) -> "WEATHER_RISK"
               [] OTHER -> "STATUS_CHANGE"
=============================================================================
