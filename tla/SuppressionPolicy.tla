-------------------------- MODULE SuppressionPolicy --------------------------
(***************************************************************************)
(* The deterministic policy of travel_eval/policy.py: which verdict a      *)
(* disruption candidate gets, given the highest severity band already      *)
(* notified for its episode.  Pure operators; no state.                    *)
(*                                                                         *)
(* A candidate is a record                                                 *)
(*    [trip, leg, category, delay, weather, corroborated]                  *)
(* of the fields evaluate() reads.  A decision is [verdict, reasons].      *)
(***************************************************************************)
EXTENDS Integers

CONSTANTS
    NotifyDelay,    \* thresholds.delay_minutes.notify of the policy file
    SearchDelay     \* thresholds.delay_minutes.search of the policy file

ASSUME ThresholdAssumption == NotifyDelay \in Nat /\ SearchDelay \in Nat

Category == {"CANCELLATION", "DIVERSION", "CONNECTION_RISK", "DELAY",
             "GATE_CHANGE", "TERMINAL_CHANGE", "WEATHER_RISK", "STATUS_CHANGE"}

WeatherLevel == {"none", "low", "moderate", "high", "severe", "unknown"}

Verdict == {"SUPPRESS", "NOTIFY", "NOTIFY_AND_SEARCH"}

ReasonCode == {"FLIGHT_CANCELLED", "FLIGHT_DIVERTED",
               "CONNECTION_BELOW_MINIMUM", "DELAY_SEARCH_THRESHOLD",
               "DELAY_NOTIFY_THRESHOLD", "DELAY_BELOW_NOTIFY_THRESHOLD",
               "GATE_ONLY_CHANGE", "TERMINAL_ONLY_CHANGE", "WEATHER_CLEARED",
               "MINOR_WEATHER_ONLY", "WEATHER_UNCORROBORATED",
               "NON_ACTIONABLE_STATUS_CHANGE", "SEVERE_WEATHER_CORROBORATED",
               "DUPLICATE_SEVERITY_BAND"}

Decision == [verdict : Verdict, reasons : SUBSET ReasonCode]

\* "No band notified yet": the -1 of highest_notified_band.get(key, -1).
NoBand == -1

Band == 0 .. 3

Grounding == {"CANCELLATION", "DIVERSION", "CONNECTION_RISK"}

\* The memory a repeated disruption is judged against is kept per trip, leg
\* and category.
EpisodeKey(cand) == <<cand.trip, cand.leg, cand.category>>

\* Mutant: the upper boundary one minute late.
SeverityBandLate(cand) ==
    CASE cand.category \in Grounding \/ cand.delay > 90 -> 3
      [] cand.category \notin Grounding /\ 30 <= cand.delay /\ cand.delay <= 90 -> 2
      [] cand.category \notin Grounding /\ 0 < cand.delay /\ cand.delay < 30 -> 1
      [] OTHER -> 0

\* The literals 90 and 30 are the code's: severity_band does not read the
\* configured thresholds.
SeverityBand(cand) ==
    CASE cand.category \in Grounding \/ cand.delay >= 90 -> 3
      [] cand.category \notin Grounding /\ 30 <= cand.delay /\ cand.delay < 90 -> 2
      [] cand.category \notin Grounding /\ 0 < cand.delay /\ cand.delay < 30 -> 1
      [] OTHER -> 0

WeatherReason(level) ==
    CASE level = "none"                -> "WEATHER_CLEARED"
      [] level \in {"low", "moderate"} -> "MINOR_WEATHER_ONLY"
      [] OTHER                         -> "WEATHER_UNCORROBORATED"

\* The verdict before the episode's history is consulted.
BaseVerdict(cand) ==
    CASE cand.category \in Grounding -> "NOTIFY_AND_SEARCH"
      [] cand.category = "DELAY" /\ cand.delay >= SearchDelay ->
            "NOTIFY_AND_SEARCH"
      [] cand.category = "DELAY" /\ NotifyDelay <= cand.delay
                                 /\ cand.delay < SearchDelay -> "NOTIFY"
      [] OTHER -> "SUPPRESS"

BaseReason(cand) ==
    CASE cand.category = "CANCELLATION"    -> "FLIGHT_CANCELLED"
      [] cand.category = "DIVERSION"       -> "FLIGHT_DIVERTED"
      [] cand.category = "CONNECTION_RISK" -> "CONNECTION_BELOW_MINIMUM"
      [] cand.category = "DELAY" ->
            CASE BaseVerdict(cand) = "NOTIFY_AND_SEARCH" -> "DELAY_SEARCH_THRESHOLD"
              [] BaseVerdict(cand) = "NOTIFY" -> "DELAY_NOTIFY_THRESHOLD"
              [] OTHER -> "DELAY_BELOW_NOTIFY_THRESHOLD"
      [] cand.category = "GATE_CHANGE"     -> "GATE_ONLY_CHANGE"
      [] cand.category = "TERMINAL_CHANGE" -> "TERMINAL_ONLY_CHANGE"
      [] cand.category = "WEATHER_RISK"    -> WeatherReason(cand.weather)
      [] OTHER                             -> "NON_ACTIONABLE_STATUS_CHANGE"

\* The verdict on a candidate whose episode was last notified at `previous'.
Evaluate(cand, previous) ==
    IF BaseVerdict(cand) = "SUPPRESS"
    THEN [verdict |-> "SUPPRESS", reasons |-> {BaseReason(cand)}]
    ELSE IF SeverityBand(cand) <= previous
    THEN [verdict |-> "SUPPRESS", reasons |-> {"DUPLICATE_SEVERITY_BAND"}]
    ELSE [verdict |-> BaseVerdict(cand),
          reasons |-> {BaseReason(cand)} \cup
             (IF cand.corroborated THEN {"SEVERE_WEATHER_CORROBORATED"} ELSE {})]

\* The band state.highest_notified_band holds after evaluate().
BandAfter(cand, previous) ==
    IF Evaluate(cand, previous).verdict = "SUPPRESS"
    THEN previous
    ELSE SeverityBand(cand)
=============================================================================
