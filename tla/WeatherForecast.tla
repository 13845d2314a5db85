--------------------------- MODULE WeatherForecast ---------------------------
(***************************************************************************)
(* OpenWeatherMapProvider of weather.py: the forecast step nearest to the   *)
(* time asked for, and the risk its measurements stand for.  The result is  *)
(* what the Monitoring Agent compares by risk and alerts (CandidateRules),  *)
(* or None where the provider raises WeatherProviderError.                  *)
(***************************************************************************)
EXTENDS CandidateRules

CONSTANT Located    \* airports the coordinate fixture knows

\* A step is [at, code, wind, visibility, rain]: minutes, an OpenWeather
\* condition code, metres per second, metres and percent.  None stands for
\* what is missing or cannot be parsed; a visibility may be missing.

Severe == (200 .. 299)
          \cup {502, 503, 504, 511, 522, 602, 622, 762, 771, 781}

Hazardous == {501, 601, 611, 612, 613, 615, 616, 621, 741}

Light == (300 .. 399) \cup {500, 520}

Reduced == {521, 600} \cup (700 .. 799)

RiskLevel == <<"none", "low", "moderate", "high", "severe">>

\* What the condition alone amounts to, as an index of RiskLevel.
ConditionRank(code) ==
    CASE code \in Severe -> 5
      [] code \in Hazardous -> 4
      [] code \in Light -> 2
      [] code \in Reduced \ (Severe \cup Hazardous) -> 3
      [] OTHER -> 1

\* Mutant: a strong wind sets the risk whatever the condition was.
RaisedPlainly(rank, extreme, strong) ==
    IF extreme THEN 5 ELSE IF strong THEN 4 ELSE rank

\* A measurement raises the risk, and never lowers it.
Raised(rank, extreme, strong) ==
    IF extreme THEN 5 ELSE IF strong /\ rank < 4 THEN 4 ELSE rank

AfterWind(s) == Raised(ConditionRank(s.code), s.wind >= 25, s.wind >= 15)

Short(s, metres) == s.visibility # None /\ s.visibility < metres

ClassifyWeatherRisk(s) ==
    RiskLevel[Raised(AfterWind(s), Short(s, 500), Short(s, 1500))]

\* An alert is raised where its measurement made or confirmed the risk.
Alerts(s) ==
    {a \in {"THUNDERSTORM"} : s.code \in 200 .. 299}
    \cup {a \in {"EXTREME_CONDITION"} : s.code \in Severe \ (200 .. 299)}
    \cup {a \in {"HAZARDOUS_CONDITION"} : ConditionRank(s.code) = 4}
    \cup {a \in {"LIGHT_PRECIPITATION"} : ConditionRank(s.code) = 2}
    \cup {a \in {"REDUCED_OPERATING_CONDITIONS"} : ConditionRank(s.code) = 3}
    \cup {a \in {"EXTREME_WIND"} : s.wind >= 25}
    \cup {a \in {"HIGH_WIND"} : s.wind \in 15 .. 24 /\ ConditionRank(s.code) < 4}
    \cup {a \in {"VERY_LOW_VISIBILITY"} : Short(s, 500)}
    \cup {a \in {"LOW_VISIBILITY"} : /\ Short(s, 1500) /\ ~Short(s, 500)
                                     /\ AfterWind(s) < 4}

Distance(s, target) == IF s.at < target THEN target - s.at ELSE s.at - target

\* _normalize: a step without a condition or with a measurement that is no
\* number is malformed.
Normalize(s, target) ==
    IF s.code = None \/ s.wind = None THEN None
    ELSE [id |-> <<s, target>>,
          risk |-> ClassifyWeatherRisk(s), alerts |-> Alerts(s),
          confidence |-> IF Distance(s, target) <= 90 THEN 95 ELSE 85]

\* The nearest step, the earlier in the list of two as near.  One step without
\* a time spoils them all, as does a list without a step near the target.
NearestStep(steps, target) ==
    IF steps = <<>> \/ \E i \in DOMAIN steps : steps[i].at = None THEN None
    ELSE LET d(i)    == Distance(steps[i], target)
             nearest == Min({i \in DOMAIN steps :
                               \A j \in DOMAIN steps : d(i) <= d(j)})
         IN  IF d(nearest) > 180 THEN None ELSE steps[nearest]

\* get_airport_weather.  An answer is the list of steps, or None where the
\* request failed, or the status or the body is not that of a forecast.
AirportWeather(airport, target, answer) ==
    IF airport \notin Located \/ answer = None THEN None
    ELSE LET step == NearestStep(answer, target)
         IN  IF step = None THEN None ELSE Normalize(step, target)

-----------------------------------------------------------------------------
\* At least as bad in every respect.
NoBetter(s, t) ==
    /\ s.code = t.code /\ s.wind >= t.wind
    /\ t.visibility = None \/ (s.visibility # None /\ s.visibility <= t.visibility)

Rank(risk) == CHOOSE r \in 1 .. 5 : RiskLevel[r] = risk

RiskRank(s) == Rank(ClassifyWeatherRisk(s))
=============================================================================
