-------------------------- MODULE AgentRules_proofs --------------------------
(***************************************************************************)
(* Theorems about the rules of MCAgentRules, for every measurement, record, *)
(* event and answer, for every turn of a replay and every suite of replays; *)
(* and the properties of its runs as their instances.                       *)
(***************************************************************************)
EXTENDS MCAgentRules, FiniteSetTheorems, WellFoundedInduction,
        SequenceTheorems, TLAPS

-----------------------------------------------------------------------------
(* Extremes of small sets.                                                  *)

LEMMA MinOfOne == ASSUME NEW n \in Int PROVE Min({n}) = n
BY DEF Min

LEMMA MaxOfThree ==
  ASSUME NEW a \in Int, NEW b \in Int, NEW c \in Int
  PROVE  /\ Max({a, b, c}) \in {a, b, c}
         /\ Max({a, b, c}) >= a /\ Max({a, b, c}) >= b /\ Max({a, b, c}) >= c
<1>1. \E m \in {a, b, c} : \A n \in {a, b, c} : m >= n
  <2>1. CASE a >= b /\ a >= c
    BY <2>1
  <2>2. CASE b >= a /\ b >= c
    BY <2>2
  <2>3. CASE c >= a /\ c >= b
    BY <2>3
  <2> QED
    BY <2>1, <2>2, <2>3
<1> QED
  BY <1>1 DEF Max

-----------------------------------------------------------------------------
(* Weather.                                                                 *)

Measured(s) == s.wind \in Int /\ s.visibility \in Int \cup {None}

LEMMA RaisedMonotone ==
  ASSUME NEW p \in 1 .. 5, NEW q \in 1 .. 5, p >= q,
         NEW e \in BOOLEAN, NEW f \in BOOLEAN, f => e,
         NEW s \in BOOLEAN, NEW t \in BOOLEAN, t => s
  PROVE  /\ Raised(p, e, s) \in 1 .. 5 /\ Raised(q, f, t) \in 1 .. 5
         /\ Raised(p, e, s) >= Raised(q, f, t)
BY DEF Raised

LEMMA RankOfLevel ==
  ASSUME NEW n \in 1 .. 5 PROVE Rank(RiskLevel[n]) = n
<1>1. \A r \in 1 .. 5 : RiskLevel[r] = RiskLevel[n] => r = n
  BY DEF RiskLevel
<1> QED
  BY <1>1 DEF Rank

LEMMA ConditionRankType ==
  ASSUME NEW code PROVE ConditionRank(code) \in 1 .. 5
BY DEF ConditionRank

\* Whatever is measured, a forecast at least as bad in every respect is never
\* given the lower risk (weather.py, _classify_weather_risk).
THEOREM WorseIsNoSafer ==
  ASSUME NEW s, NEW t, Measured(s), Measured(t), NoBetter(s, t)
  PROVE  RiskRank(s) >= RiskRank(t)
<1> DEFINE c         == ConditionRank(s.code)
           gale(u)   == u.wind >= 25
           strong(u) == u.wind >= 15
           w == Raised(c, gale(s), strong(s))
           x == Raised(c, gale(t), strong(t))
           v == Raised(w, Short(s, 500), Short(s, 1500))
           y == Raised(x, Short(t, 500), Short(t, 1500))
<1>1. c \in 1 .. 5
  BY ConditionRankType
<1>2. /\ gale(t) => gale(s)
      /\ strong(t) => strong(s)
      /\ gale(s) \in BOOLEAN /\ gale(t) \in BOOLEAN
      /\ strong(s) \in BOOLEAN /\ strong(t) \in BOOLEAN
  BY DEF Measured, NoBetter
<1> HIDE DEF c, gale, strong
<1>3. w \in 1 .. 5 /\ x \in 1 .. 5 /\ w >= x
  BY <1>1, <1>2, RaisedMonotone
<1>4. /\ Short(t, 500) => Short(s, 500)
      /\ Short(t, 1500) => Short(s, 1500)
      /\ Short(s, 500) \in BOOLEAN /\ Short(s, 1500) \in BOOLEAN
      /\ Short(t, 500) \in BOOLEAN /\ Short(t, 1500) \in BOOLEAN
  BY DEF Measured, NoBetter, Short
<1> HIDE DEF w, x
<1>5. v \in 1 .. 5 /\ y \in 1 .. 5 /\ v >= y
  BY <1>3, <1>4, RaisedMonotone
<1>6. ClassifyWeatherRisk(s) = RiskLevel[v]
      /\ ClassifyWeatherRisk(t) = RiskLevel[y]
  BY DEF ClassifyWeatherRisk, AfterWind, NoBetter, c, w, x, gale, strong
<1> HIDE DEF v, y
<1> QED
  BY <1>5, <1>6, RankOfLevel DEF RiskRank

-----------------------------------------------------------------------------
(* Wording.                                                                 *)

\* Whatever the model writes, and whether its agent can be reached or not, a
\* wording that is made speaks of the confirmed disruption, has no figure that
\* the stored candidate lacks, and claims nothing the checks reject
\* (disruption_explanation.py, explain_disruption, _validated_model_message).
THEOREM ToldFromEvidence ==
  ASSUME NEW event, NEW candidate, NEW reached, NEW answer,
         Wording!ExplanationRequest(event, candidate) # None
  PROVE  LET told == Wording!FriendlyExplanation(
                        Wording!ExplanationRequest(event, candidate),
                        reached, answer)
         IN  /\ event.category \in told.terms
             /\ ~told.unsupported
             /\ \A n \in told.numbers :
                   /\ candidate # None
                   /\ n \in {candidate[e] : e \in {"delay", "buffer", "minimum"}}
<1> DEFINE request == Wording!ExplanationRequest(event, candidate)
           told    == Wording!FriendlyExplanation(request, reached, answer)
           Figure(n) == /\ candidate # None
                        /\ n \in {candidate[e] :
                                     e \in {"delay", "buffer", "minimum"}}
<1>1. /\ request.category = event.category
      /\ \A e \in {"delay", "buffer", "minimum"} :
            request[e] # None => Figure(request[e])
  BY DEF Wording!ExplanationRequest, Wording!OptionalInt
<1> HIDE DEF request
<1>2. ASSUME NEW error, told = Wording!Deterministic(request, error)
      PROVE  /\ event.category \in told.terms /\ ~told.unsupported
             /\ \A n \in told.numbers : Figure(n)
  BY <1>1, <1>2 DEF Wording!Deterministic
<1>3. ASSUME Wording!Safe(request, answer),
             told = [status |-> "generated", error |-> None,
                     terms |-> answer.terms, numbers |-> answer.numbers,
                     unsupported |-> answer.unsupported]
      PROVE  /\ event.category \in told.terms /\ ~told.unsupported
             /\ \A n \in told.numbers : Figure(n)
  BY <1>1, <1>3 DEF Wording!Safe, Wording!Measure
<1>4. \/ \E error : told = Wording!Deterministic(request, error)
      \/ /\ Wording!Safe(request, answer)
         /\ told = [status |-> "generated", error |-> None,
                    terms |-> answer.terms, numbers |-> answer.numbers,
                    unsupported |-> answer.unsupported]
  BY DEF Wording!FriendlyExplanation, Wording!Explain
<1> QED
  BY <1>2, <1>3, <1>4 DEF request
-----------------------------------------------------------------------------
(* Delays.                                                                  *)

Timed(m) == /\ m.airport # None /\ m.scheduled \in Int
            /\ m.estimated \in Int \cup {None} /\ m.actual \in Int \cup {None}

LateEnd(m) == IF m.actual # None THEN m.actual > m.scheduled
              ELSE m.estimated # None /\ m.estimated > m.scheduled

\* A movement is late exactly if its effective time is after the schedule.
LEMMA LateIsEffective ==
  ASSUME NEW m, Timed(m)
  PROVE  /\ EffectiveTime(Movement(m)) \in Int
         /\ LateEnd(m) <=> EffectiveTime(Movement(m)) > 0
<1>1. CASE m.actual # None
  <2>1. /\ Movement(m).actual = m.actual - m.scheduled
        /\ m.actual - m.scheduled \in Int /\ m.actual \in Int
    BY <1>1 DEF Movement, Timed
  <2>2. EffectiveTime(Movement(m)) = m.actual - m.scheduled
    BY <2>1, NoneAssumption DEF EffectiveTime
  <2> QED
    BY <1>1, <2>1, <2>2 DEF Timed, LateEnd
<1>2. CASE m.actual = None /\ m.estimated # None
  <2>1. /\ Movement(m).actual = None
        /\ Movement(m).estimated = m.estimated - m.scheduled
        /\ m.estimated - m.scheduled \in Int /\ m.estimated \in Int
    BY <1>2 DEF Movement, Timed
  <2>2. EffectiveTime(Movement(m)) = m.estimated - m.scheduled
    BY <2>1, NoneAssumption DEF EffectiveTime
  <2> QED
    BY <1>2, <2>1, <2>2 DEF Timed, LateEnd
<1>3. CASE m.actual = None /\ m.estimated = None
  <2>1. Movement(m).actual = None /\ Movement(m).estimated = 0
    BY <1>3 DEF Movement
  <2>2. EffectiveTime(Movement(m)) = 0
    BY <2>1 DEF EffectiveTime
  <2> QED
    BY <1>3, <2>2 DEF LateEnd
<1> QED
  BY <1>1, <1>2, <1>3

\* What a change of an end's times puts among the changed fields.
LEMMA ChangedEnd ==
  ASSUME NEW o, NEW p, NEW end \in {"departure", "arrival"},
         EffectiveTime(o[end]) # EffectiveTime(p[end])
  PROVE  ChangedFields(o, p) \cap DelayFields # {}
<1>1. \E f \in {"estimated", "actual"} : o[end][f] # p[end][f]
  BY DEF EffectiveTime
<1>2. PICK f \in {"estimated", "actual"} : o[end][f] # p[end][f]
  BY <1>1
<1>3. <<end, f>> \in DelayFields /\ <<end, f>> \in EndField
  BY DEF DelayFields, EndField, MovementField
<1>4. <<end, f>> \in ChangedFields(o, p)
  BY <1>2, <1>3 DEF ChangedFields
<1> QED
  BY <1>3, <1>4

\* The record of a flight that is late, after one of a flight that was not, is
\* always classified as a delay or as something graver, whatever else of the
\* flight changed with it: no gate, weather or status hides a new delay
\* (flight_status.py, _normalize; travel_eval/engine.py, classify).
THEOREM NewDelayReported ==
  ASSUME NEW before, NEW after, NEW then, NEW now, NEW buffer, NEW minimum,
         \A m \in {before.departure, before.arrival,
                   after.departure, after.arrival} : Timed(m),
         ~Late(before), Late(after),
         NEW fields, ChangedFields(NormalizeRecord(before, then),
                                   NormalizeRecord(after, now)) \subseteq fields
  PROVE  Classify(NormalizeRecord(after, now), fields, buffer, minimum)
            \in {"CANCELLATION", "DIVERSION", "CONNECTION_RISK", "DELAY"}
<1> DEFINE o == NormalizeRecord(before, then)
           p == NormalizeRecord(after, now)
<1>1. /\ o.departure = Movement(before.departure)
      /\ o.arrival = Movement(before.arrival)
      /\ p.departure = Movement(after.departure)
      /\ p.arrival = Movement(after.arrival)
  BY NoneAssumption DEF NormalizeRecord, Timed
<1> HIDE DEF o, p
<1>2. /\ EffectiveTime(p.departure) \in Int /\ EffectiveTime(p.arrival) \in Int
      /\ ~(EffectiveTime(o.departure) > 0) /\ ~(EffectiveTime(o.arrival) > 0)
      /\ EffectiveTime(p.departure) > 0 \/ EffectiveTime(p.arrival) > 0
  <2>1. ~LateEnd(before.departure) /\ ~LateEnd(before.arrival)
    BY DEF Late, LateEnd
  <2>2. LateEnd(after.departure) \/ LateEnd(after.arrival)
    BY DEF Late, LateEnd
  <2> QED
    BY <1>1, <2>1, <2>2, LateIsEffective
<1>3. OperationalDelay(p) > 0
  <2> DEFINE d == EffectiveTime(p.departure)
             a == EffectiveTime(p.arrival)
  <2>1. d \in Int /\ a \in Int /\ (d > 0 \/ a > 0)
    BY <1>2
  <2> HIDE DEF d, a
  <2>2. \A k, m, n \in Int :
           /\ Max({k, m, n}) \in {k, m, n}
           /\ Max({k, m, n}) >= m /\ Max({k, m, n}) >= n
    BY MaxOfThree
  <2>3. /\ Max({0, d, a}) \in {0, d, a}
        /\ Max({0, d, a}) >= d /\ Max({0, d, a}) >= a
    <3>1. 0 \in Int
      OBVIOUS
    <3> QED
      BY <2>1, <2>2, <3>1, Zenon
  <2>4. Max({0, d, a}) > 0
    BY <2>1, <2>3
  <2> QED
    BY <2>4 DEF OperationalDelay, d, a
<1>4. ChangedFields(o, p) \cap DelayFields # {}
  <2>1. \E end \in {"departure", "arrival"} :
           EffectiveTime(o[end]) # EffectiveTime(p[end])
    BY <1>2
  <2> QED
    BY <2>1, ChangedEnd
<1>5. fields \cap DelayFields # {}
  BY <1>4 DEF o, p
<1> QED
  BY <1>3, <1>5 DEF Classify, p

-----------------------------------------------------------------------------
(* Replays.                                                                 *)

Episode(trip, Leg) == {trip} \X Leg \X Replayed!Category

Noted(trip, Leg) ==
    [key : Episode(trip, Leg) \X Replayed!Band, decision : Nat,
     search : BOOLEAN, reasons : SUBSET Replayed!ReasonCode]

\* What the loop carries.
Carried(s, trip, Leg) ==
    /\ DOMAIN s = DOMAIN Replayed!Start
    /\ s.decisions \in Seq(Replayed!Decision)
    /\ s.notifications \in Seq(Noted(trip, Leg))
    /\ \A k \in DOMAIN s.bands : s.bands[k] \in Replayed!Band \cup {Replayed!NoBand}

\* No severity of an episode is notified twice, none by a decision that
\* suppresses, and every decision that does not is notified.
Sound(s) ==
    /\ \A m, n \in DOMAIN s.notifications :
          s.notifications[m].key = s.notifications[n].key => m = n
    /\ \A n \in DOMAIN s.notifications :
          s.notifications[n].decision \in Replayed!Notifying(s)
    /\ \A i \in Replayed!Notifying(s) :
          \E n \in DOMAIN s.notifications : s.notifications[n].decision = i

\* The policy's memory has caught up with whatever was notified.
Remembered(s) ==
    \A n \in DOMAIN s.notifications :
        LET key == s.notifications[n].key
        IN  key[1] \in DOMAIN s.bands /\ key[2] <= s.bands[key[1]]

LEMMA VerdictType ==
  ASSUME NEW c, NEW previous \in Replayed!Band \cup {Replayed!NoBand}
  PROVE  /\ Replayed!Evaluate(c, previous) \in Replayed!Decision
         /\ Replayed!SeverityBand(c) \in Replayed!Band
         /\ Replayed!BandAfter(c, previous) \in Replayed!Band \cup {Replayed!NoBand}
<1>1. Replayed!WeatherReason(c.weather) \in Replayed!ReasonCode
  BY DEF Replayed!WeatherReason, Replayed!ReasonCode
<1>2. Replayed!BaseReason(c) \in Replayed!ReasonCode
  <2> HIDE DEF Replayed!WeatherReason
  <2> QED
    BY <1>1 DEF Replayed!BaseReason, Replayed!ReasonCode
<1>3. Replayed!BaseVerdict(c) \in Replayed!Verdict
  BY DEF Replayed!BaseVerdict, Replayed!Verdict
<1>4. Replayed!Evaluate(c, previous) \in Replayed!Decision
  BY <1>2, <1>3 DEF Replayed!Evaluate, Replayed!Decision, Replayed!ReasonCode,
                    Replayed!Verdict
<1>5. Replayed!SeverityBand(c) \in Replayed!Band
  BY DEF Replayed!SeverityBand, Replayed!Band
<1> QED
  BY <1>4, <1>5 DEF Replayed!BandAfter

\* A severity is notified only above whatever the episode remembers.
LEMMA NotifiedAbove ==
  ASSUME NEW c, NEW previous \in Replayed!Band \cup {Replayed!NoBand},
         Replayed!Evaluate(c, previous).verdict # "SUPPRESS"
  PROVE  /\ Replayed!SeverityBand(c) > previous
         /\ Replayed!BandAfter(c, previous) = Replayed!SeverityBand(c)
<1>1. Replayed!SeverityBand(c) \in Int /\ previous \in Int
  BY VerdictType DEF Replayed!Band, Replayed!NoBand
<1>2. ~(Replayed!SeverityBand(c) <= previous)
  BY DEF Replayed!Evaluate
<1> QED
  BY <1>1, <1>2 DEF Replayed!BandAfter

LEMMA JudgedSound ==
  ASSUME NEW trip, NEW Leg, NEW s, Carried(s, trip, Leg), Sound(s), Remembered(s),
         NEW c, Replayed!EpisodeKey(c) \in Episode(trip, Leg)
  PROVE  LET t == Replayed!Judged(s, c)
         IN  Carried(t, trip, Leg) /\ Sound(t) /\ Remembered(t)
<1> DEFINE t        == Replayed!Judged(s, c)
           key      == Replayed!EpisodeKey(c)
           previous == Replayed!Lookup(s.bands, key, Replayed!NoBand)
           decision == Replayed!Evaluate(c, previous)
           band     == Replayed!SeverityBand(c)
           after    == Replayed!BandAfter(c, previous)
           note     == [key |-> <<key, band>>, decision |-> Len(s.decisions) + 1,
                        search |-> decision.verdict = "NOTIFY_AND_SEARCH",
                        reasons |-> decision.reasons]
<1>1. previous \in Replayed!Band \cup {Replayed!NoBand}
  BY DEF Carried, Replayed!Lookup
<1>2. /\ decision \in Replayed!Decision /\ band \in Replayed!Band
      /\ after \in Replayed!Band \cup {Replayed!NoBand}
      /\ decision.verdict # "SUPPRESS" => band > previous /\ after = band
      /\ decision.verdict = "SUPPRESS" => after = previous
  BY <1>1, VerdictType, NotifiedAbove DEF Replayed!BandAfter
<1>3. /\ DOMAIN t = DOMAIN s
      /\ t.bands = [k \in DOMAIN s.bands \cup {key} |->
                       IF k = key THEN after ELSE s.bands[k]]
      /\ t.decisions = Append(s.decisions, decision)
      /\ t.notifications = IF decision.verdict = "SUPPRESS" THEN s.notifications
                           ELSE Append(s.notifications, note)
  BY DEF Carried, Replayed!Start, Replayed!Judged, Replayed!NotificationOf
<1>4. key \in DOMAIN s.bands => previous = s.bands[key]
  BY DEF Replayed!Lookup
<1> HIDE DEF t, previous, decision, band, after
<1>5. /\ s.decisions \in Seq(Replayed!Decision)
      /\ s.notifications \in Seq(Noted(trip, Leg))
  BY DEF Carried
<1>6. /\ Len(s.decisions) \in Nat /\ DOMAIN s.decisions = 1 .. Len(s.decisions)
      /\ t.decisions \in Seq(Replayed!Decision)
      /\ DOMAIN t.decisions = 1 .. Len(s.decisions) + 1
      /\ \A i \in DOMAIN s.decisions : t.decisions[i] = s.decisions[i]
      /\ t.decisions[Len(s.decisions) + 1] = decision
  BY <1>2, <1>3, <1>5
<1>7. note \in Noted(trip, Leg)
  BY <1>2, <1>6 DEF Noted, Replayed!Decision
<1>8. /\ \A n \in DOMAIN s.notifications : s.notifications[n] \in Noted(trip, Leg)
      /\ \A n \in DOMAIN s.notifications :
            s.notifications[n].key[1] \in DOMAIN s.bands
  BY <1>5 DEF Remembered
<1>9. \A n \in DOMAIN s.notifications : s.notifications[n].key[2] \in Int
  <2>1. \A m \in Noted(trip, Leg) : m.key[2] \in Int
    BY DEF Noted, Replayed!Band
  <2> QED
    BY <1>8, <2>1
<1>10. \A k \in DOMAIN s.bands :
          k \in DOMAIN t.bands /\ s.bands[k] \in Int /\ t.bands[k] \in Int
          /\ s.bands[k] <= t.bands[k]
  <2> SUFFICES ASSUME NEW k \in DOMAIN s.bands
               PROVE  k \in DOMAIN t.bands /\ s.bands[k] \in Int /\ t.bands[k] \in Int
                      /\ s.bands[k] <= t.bands[k]
    OBVIOUS
  <2>1. s.bands[k] \in Int /\ after \in Int /\ previous \in Int /\ band \in Int
    BY <1>1, <1>2 DEF Carried, Replayed!Band, Replayed!NoBand
  <2>2. t.bands[k] = IF k = key THEN after ELSE s.bands[k]
    BY <1>3
  <2>3. previous <= after
    BY <1>2, <2>1
  <2> QED
    BY <1>3, <1>4, <2>1, <2>2, <2>3
<1>11. Carried(t, trip, Leg)
  <2>1. t.notifications \in Seq(Noted(trip, Leg))
    BY <1>3, <1>5, <1>7
  <2>2. \A k \in DOMAIN t.bands : t.bands[k] \in Replayed!Band \cup {Replayed!NoBand}
    BY <1>2, <1>3 DEF Carried
  <2> QED
    BY <1>3, <1>6, <2>1, <2>2 DEF Carried
<1>12. CASE decision.verdict = "SUPPRESS"
  <2>1. t.notifications = s.notifications
    BY <1>3, <1>12
  <2>2. Replayed!Notifying(t) = Replayed!Notifying(s)
    BY <1>6, <1>12 DEF Replayed!Notifying
  <2>3. Sound(t)
    BY <2>1, <2>2 DEF Sound
  <2>4. Remembered(t)
    BY <1>8, <1>9, <1>10, <2>1 DEF Remembered
  <2> QED
    BY <1>11, <2>3, <2>4 DEF t
<1>13. CASE decision.verdict # "SUPPRESS"
  <2> DEFINE last == Len(s.notifications) + 1
  <2>1. /\ Len(s.notifications) \in Nat
        /\ DOMAIN s.notifications = 1 .. Len(s.notifications)
        /\ DOMAIN t.notifications = DOMAIN s.notifications \cup {last}
        /\ \A n \in DOMAIN s.notifications :
              t.notifications[n] = s.notifications[n] /\ n # last
        /\ t.notifications[last] = note
    BY <1>3, <1>5, <1>7, <1>13
  <2> HIDE DEF last
  <2>2. Replayed!Notifying(t) = Replayed!Notifying(s) \cup {note.decision}
    BY <1>6, <1>13 DEF Replayed!Notifying
  <2>3. \A n \in DOMAIN s.notifications : s.notifications[n].key # note.key
    <3> SUFFICES ASSUME NEW n \in DOMAIN s.notifications,
                        s.notifications[n].key = <<key, band>>
                 PROVE  FALSE
      OBVIOUS
    <3>1. key \in DOMAIN s.bands /\ band <= s.bands[key]
      BY DEF Remembered
    <3> QED
      BY <1>2, <1>4, <1>10, <1>13, <3>1 DEF Replayed!Band
  <2>4. Sound(t)
    <3>1. \A m, n \in DOMAIN t.notifications :
             t.notifications[m].key = t.notifications[n].key => m = n
      BY <2>1, <2>3 DEF Sound
    <3>2. \A n \in DOMAIN t.notifications :
             t.notifications[n].decision \in Replayed!Notifying(t)
      BY <2>1, <2>2 DEF Sound
    <3>3. \A i \in Replayed!Notifying(t) :
             \E n \in DOMAIN t.notifications : t.notifications[n].decision = i
      BY <2>1, <2>2 DEF Sound
    <3> QED
      BY <3>1, <3>2, <3>3 DEF Sound
  <2>5. Remembered(t)
    <3>1. key \in DOMAIN t.bands /\ t.bands[key] = band
      BY <1>2, <1>3, <1>13
    <3>2. \A n \in DOMAIN s.notifications :
             LET k == s.notifications[n].key
             IN  k[1] \in DOMAIN t.bands /\ k[2] <= t.bands[k[1]]
      BY <1>8, <1>9, <1>10 DEF Remembered
    <3>3. band <= band
      BY <1>2 DEF Replayed!Band
    <3> QED
      BY <2>1, <3>1, <3>2, <3>3 DEF Remembered
  <2> QED
    BY <1>11, <2>4, <2>5 DEF t
<1> QED
  BY <1>12, <1>13

\* Every turn of the replay, on any observation of the trip, keeps that no
\* severity of an episode is notified twice and that a suppressed decision
\* notifies nothing, which is what the gates on duplicates and on unauthorised
\* notifications ask of every scenario (engine.py, run; metrics.py).
THEOREM EachTurnSound ==
  ASSUME NEW Leg, NEW scenario, NEW o, o.leg \in Leg,
         NEW s, Carried(s, scenario.trip, Leg), Sound(s), Remembered(s)
  PROVE  LET t == Replayed!Observe(scenario, s, o)
         IN  Carried(t, scenario.trip, Leg) /\ Sound(t) /\ Remembered(t)
<1> DEFINE Kept(t)  == Carried(t, scenario.trip, Leg) /\ Sound(t) /\ Remembered(t)
           Same(t)  == /\ DOMAIN t = DOMAIN s /\ t.decisions = s.decisions
                       /\ t.notifications = s.notifications /\ t.bands = s.bands
           recorded == [s EXCEPT !.last = [l \in DOMAIN @ \cup {o.leg} |->
                                             IF l = o.leg THEN o ELSE s.last[l]]]
           ignored  == [s EXCEPT !.ignored = Append(@, o.id)]
           c        == Replayed!CandidateOf(scenario, s.last[o.leg], o)
<1>1. \A t : Same(t) => Kept(t)
  BY DEF Carried, Sound, Remembered, Replayed!Notifying
<1>2. Same(recorded) /\ Same(ignored)
  BY DEF Carried, Replayed!Start
<1>3. Replayed!EpisodeKey(c) \in Episode(scenario.trip, Leg)
  <2>1. \A p, fields, buffer, minimum :
           Replayed!Classify(p, fields, buffer, minimum) \in Replayed!Category
    BY DEF Replayed!Classify, Replayed!Category
  <2>2. /\ c.trip = scenario.trip /\ c.leg = o.leg
        /\ c.category \in Replayed!Category
    BY <2>1 DEF Replayed!CandidateOf
  <2> QED
    BY <2>2 DEF Replayed!EpisodeKey, Episode
<1> HIDE DEF c, recorded, ignored
<1>4. Kept(Replayed!Judged(recorded, c))
  BY <1>1, <1>2, <1>3, JudgedSound
<1>5. Replayed!Observe(scenario, s, o)
         \in {ignored, recorded, Replayed!Judged(recorded, c)}
  BY DEF Replayed!Observe, c, recorded, ignored
<1> QED
  BY <1>1, <1>2, <1>4, <1>5

\* Candidates that compare two of the first k observations received, of which
\* the later one is news.
NewsOf(scenario, received, k) ==
    {Replayed!CandidateOf(scenario, received[p[1]], received[p[2]]) :
        p \in {q \in (1 .. k) \X (1 .. k) : News(received, q[1], q[2])}}

\* After k of the observations the loop knows the legs by some of them, and has
\* only such candidates.
Forward(scenario, received, k, s) ==
    /\ DOMAIN s = DOMAIN Replayed!Start
    /\ \A l \in DOMAIN s.last :
          \E i \in 1 .. k : s.last[l] = received[i] /\ received[i].leg = l
    /\ s.candidates \in Seq(NewsOf(scenario, received, k))

\* Every turn of the replay compares what it takes for news with an observation
\* received before, and of an earlier time (engine.py:178).
LEMMA EachTurnForward ==
  ASSUME NEW scenario, NEW received, NEW k \in Nat \ {0},
         NEW s, Forward(scenario, received, k - 1, s)
  PROVE  Forward(scenario, received, k,
                 Replayed!Observe(scenario, s, received[k]))
<1> DEFINE o        == received[k]
           recorded == [s EXCEPT !.last = [l \in DOMAIN @ \cup {o.leg} |->
                                             IF l = o.leg THEN o ELSE s.last[l]]]
           ignored  == [s EXCEPT !.ignored = Append(@, o.id)]
           c        == Replayed!CandidateOf(scenario, s.last[o.leg], o)
           t        == Replayed!Observe(scenario, s, o)
           Fresh    == o.leg \in DOMAIN s.last /\ ~ (o.time <= s.last[o.leg].time)
<1>1. /\ 1 .. k - 1 \subseteq 1 .. k /\ k \in 1 .. k
      /\ \A i \in 1 .. k - 1 : i < k
  OBVIOUS
<1>2. /\ DOMAIN s = DOMAIN Replayed!Start
      /\ \A l \in DOMAIN s.last :
            \E i \in 1 .. k - 1 : s.last[l] = received[i] /\ received[i].leg = l
      /\ s.candidates \in Seq(NewsOf(scenario, received, k - 1))
  BY DEF Forward
<1>3. NewsOf(scenario, received, k - 1) \subseteq NewsOf(scenario, received, k)
  BY <1>1 DEF NewsOf
<1>4. s.candidates \in Seq(NewsOf(scenario, received, k))
  <2> HIDE DEF NewsOf
  <2> QED
    BY <1>2, <1>3
<1>5. Fresh => c \in NewsOf(scenario, received, k)
  <2> SUFFICES ASSUME Fresh PROVE c \in NewsOf(scenario, received, k)
    OBVIOUS
  <2>1. PICK i \in 1 .. k - 1 :
           s.last[o.leg] = received[i] /\ received[i].leg = o.leg
    BY <1>2
  <2>2. News(received, i, k)
    BY <1>1, <2>1 DEF News
  <2>3. c = Replayed!CandidateOf(scenario, received[i], received[k])
    BY <2>1
  <2> DEFINE Compared(p) ==
               Replayed!CandidateOf(scenario, received[p[1]], received[p[2]])
             q == <<i, k>>
  <2>4. q \in {p \in (1 .. k) \X (1 .. k) : News(received, p[1], p[2])}
    BY <1>1, <2>2
  <2>5. c = Compared(q)
    BY <2>3
  <2>6. NewsOf(scenario, received, k)
           = {Compared(p) : p \in {p \in (1 .. k) \X (1 .. k) :
                                     News(received, p[1], p[2])}}
    BY DEF NewsOf
  <2> HIDE DEF c, q, Compared
  <2> QED
    BY <2>4, <2>5, <2>6
<1>6. Forward(scenario, received, k, ignored)
  <2>1. /\ DOMAIN ignored = DOMAIN Replayed!Start
        /\ ignored.last = s.last /\ ignored.candidates = s.candidates
    BY <1>2 DEF Replayed!Start
  <2> HIDE DEF ignored
  <2> QED
    BY <1>1, <1>2, <1>4, <2>1 DEF Forward
<1>7. /\ DOMAIN recorded = DOMAIN Replayed!Start
      /\ recorded.candidates = s.candidates
      /\ recorded.last = [l \in DOMAIN s.last \cup {o.leg} |->
                            IF l = o.leg THEN o ELSE s.last[l]]
  BY <1>2 DEF Replayed!Start
<1>8. \A l \in DOMAIN recorded.last :
         \E i \in 1 .. k : recorded.last[l] = received[i] /\ received[i].leg = l
  <2> HIDE DEF recorded
  <2> QED
    BY <1>1, <1>2, <1>7
<1> HIDE DEF recorded, c, ignored
<1>9. Forward(scenario, received, k, recorded)
  BY <1>4, <1>7, <1>8 DEF Forward
<1>10. Fresh => Forward(scenario, received, k, Replayed!Judged(recorded, c))
  <2> DEFINE j == Replayed!Judged(recorded, c)
  <2>1. /\ DOMAIN j = DOMAIN Replayed!Start
        /\ j.last = recorded.last
        /\ j.candidates = Append(recorded.candidates, c)
    BY <1>7 DEF Replayed!Judged, Replayed!Start
  <2> HIDE DEF j, NewsOf, Fresh
  <2>2. Fresh => j.candidates \in Seq(NewsOf(scenario, received, k))
    BY <1>4, <1>5, <1>7, <2>1
  <2> QED
    BY <1>8, <2>1, <2>2 DEF Forward, j
<1>11. \/ t = ignored \/ t = recorded
       \/ Fresh /\ t = Replayed!Judged(recorded, c)
  BY DEF Replayed!Observe, recorded, ignored, c
<1> QED
  BY <1>6, <1>9, <1>10, <1>11

\* A replay starts so.
LEMMA StartSound ==
  ASSUME NEW trip, NEW Leg
  PROVE  /\ Carried(Replayed!Start, trip, Leg) /\ Sound(Replayed!Start)
         /\ Remembered(Replayed!Start)
BY DEF Carried, Sound, Remembered, Replayed!Start, Replayed!Notifying

\* A set of natural numbers that is not empty has a least one.
LEMMA LeastNatural ==
  ASSUME NEW T \in SUBSET Nat, T # {}
  PROVE  \E m \in T : \A n \in T : m <= n
<1>1. \E m \in T : \A n \in T : ~ (<<n, m>> \in OpToRel(<, Nat))
  BY NatLessThanWellFounded, WFMin
<1>2. PICK m \in T : \A n \in T : ~ (<<n, m>> \in OpToRel(<, Nat))
  BY <1>1
<1>3. \A n \in T : ~ (n < m)
  BY <1>2 DEF OpToRel
<1> QED
  BY <1>3

\* The states of the loop, in a function that satisfies its definition.
IsLoop(f, scenario, received, n) ==
    f = [k \in 0 .. n |->
           IF k = 0 THEN Replayed!Start
           ELSE Replayed!Observe(scenario, f[k - 1], received[k])]

\* There is such a function, so that the CHOOSE of the definition finds one.
LEMMA LoopExists ==
  ASSUME NEW scenario, NEW received, NEW n \in Nat
  PROVE  \E f : IsLoop(f, scenario, received, n)
<1> DEFINE Exists(m) == \E f : IsLoop(f, scenario, received, m)
           T == {m \in Nat : ~ Exists(m)}
<1> SUFFICES ASSUME T # {} PROVE FALSE
  BY Zenon
<1>1. T \in SUBSET Nat
  OBVIOUS
<1>2. PICK m \in T : \A k \in T : m <= k
  <2> HIDE DEF T
  <2> QED
    BY <1>1, LeastNatural
<1>3. m \in Nat /\ ~ Exists(m)
  BY <1>2
<1>4. CASE m = 0
  <2> DEFINE f == [k \in 0 .. 0 |-> Replayed!Start]
  <2>1. IsLoop(f, scenario, received, 0)
    BY DEF IsLoop
  <2> QED
    BY <1>3, <1>4, <2>1
<1>5. CASE m # 0
  <2>1. m - 1 \in Nat /\ ~ (m <= m - 1)
    BY <1>3, <1>5
  <2>2. Exists(m - 1)
    BY <1>2, <2>1
  <2>3. PICK g : IsLoop(g, scenario, received, m - 1)
    BY <2>2
  <2> DEFINE f == [k \in 0 .. m |->
                     IF k < m THEN g[k]
                     ELSE Replayed!Observe(scenario, g[m - 1], received[m])]
  <2>4. \A k \in 0 .. m - 1 :
           g[k] = IF k = 0 THEN Replayed!Start
                  ELSE Replayed!Observe(scenario, g[k - 1], received[k])
    BY <2>3 DEF IsLoop
  <2>5. \A k \in 0 .. m : k - 1 \in 0 .. m \/ k = 0
    BY <1>3
  <2>6. \A k \in 0 .. m :
           f[k] = IF k = 0 THEN Replayed!Start
                  ELSE Replayed!Observe(scenario, f[k - 1], received[k])
    <3> SUFFICES ASSUME NEW k \in 0 .. m
                 PROVE  f[k] = IF k = 0 THEN Replayed!Start
                               ELSE Replayed!Observe(scenario, f[k - 1],
                                                     received[k])
      OBVIOUS
    <3>1. CASE k = m
      <4>1. f[k] = Replayed!Observe(scenario, g[m - 1], received[m])
        BY <1>3, <3>1
      <4>2. f[k - 1] = g[m - 1]
        BY <1>3, <1>5, <3>1
      <4> QED
        BY <1>5, <3>1, <4>1, <4>2
    <3>2. CASE k # m
      <4>1. k \in 0 .. m - 1 /\ f[k] = g[k]
        BY <1>3, <3>2
      <4>2. k # 0 => f[k - 1] = g[k - 1]
        BY <1>3, <3>2
      <4> QED
        BY <2>4, <4>1, <4>2
    <3> QED
      BY <3>1, <3>2
  <2>7. f = [k \in 0 .. m |-> f[k]]
    BY Zenon
  <2> HIDE DEF f
  <2>8. IsLoop(f, scenario, received, m)
    BY <2>6, <2>7 DEF IsLoop
  <2> QED
    BY <1>3, <2>8
<1> QED
  BY <1>4, <1>5

\* Whatever is received, in whatever order, the loop keeps what every turn
\* keeps.
LEMMA LoopSound ==
  ASSUME NEW scenario, NEW received, NEW n \in Nat, NEW Leg,
         \A k \in 1 .. n : received[k].leg \in Leg
  PROVE  LET s == Replayed!After(scenario, received, n)
         IN  /\ Carried(s, scenario.trip, Leg) /\ Sound(s) /\ Remembered(s)
             /\ Forward(scenario, received, n, s)
<1> DEFINE Kept(k, s) == /\ Carried(s, scenario.trip, Leg) /\ Sound(s)
                         /\ Remembered(s) /\ Forward(scenario, received, k, s)
           f == CHOOSE f : IsLoop(f, scenario, received, n)
<1>1. IsLoop(f, scenario, received, n)
  BY LoopExists
<1>2. Replayed!After(scenario, received, n) = f[n]
  BY DEF Replayed!After, IsLoop
<1> HIDE DEF f
<1>3. /\ f[0] = Replayed!Start
      /\ \A k \in 1 .. n :
            f[k] = Replayed!Observe(scenario, f[k - 1], received[k])
  BY <1>1 DEF IsLoop
<1>4. Kept(0, f[0])
  <2>1. Forward(scenario, received, 0, Replayed!Start)
    BY DEF Forward, Replayed!Start
  <2> QED
    BY <1>3, <2>1, StartSound
<1>5. ASSUME NEW k \in 1 .. n, Kept(k - 1, f[k - 1]) PROVE Kept(k, f[k])
  BY <1>3, <1>5, EachTurnSound, EachTurnForward
<1> HIDE DEF Kept
<1> DEFINE T == {k \in 0 .. n : ~ Kept(k, f[k])}
<1>6. T = {}
  <2> SUFFICES ASSUME T # {} PROVE FALSE
    OBVIOUS
  <2>1. T \in SUBSET Nat
    OBVIOUS
  <2>2. PICK m \in T : \A k \in T : m <= k
    <3> HIDE DEF T
    <3> QED
      BY <2>1, LeastNatural
  <2>3. m # 0
    BY <1>4, <2>2
  <2>4. m \in 1 .. n /\ m - 1 \in 0 .. n /\ ~ (m <= m - 1)
    BY <2>2, <2>3
  <2>5. Kept(m - 1, f[m - 1])
    BY <2>2, <2>4
  <2> QED
    BY <1>5, <2>2, <2>4, <2>5
<1>7. Kept(n, f[n])
  BY <1>6
<1> QED
  BY <1>2, <1>7 DEF Kept

-----------------------------------------------------------------------------
(* Metrics.                                                                 *)

\* Induction along 0 .. n.
LEMMA UpTo ==
  ASSUME NEW n \in Nat, NEW T, 0 \in T, \A k \in 1 .. n : k - 1 \in T => k \in T
  PROVE  \A k \in 0 .. n : k \in T
<1> DEFINE U == {k \in 0 .. n : k \notin T}
<1> SUFFICES ASSUME U # {} PROVE FALSE
  OBVIOUS
<1>1. U \in SUBSET Nat
  OBVIOUS
<1>2. PICK m \in U : \A k \in U : m <= k
  <2> HIDE DEF U
  <2> QED
    BY <1>1, LeastNatural
<1>3. m \in 1 .. n /\ m - 1 \in 0 .. n /\ ~ (m <= m - 1)
  BY <1>2
<1>4. m - 1 \in T
  BY <1>2, <1>3
<1> QED
  BY <1>2, <1>3, <1>4

\* The running sums of a list, the last of which is its total.
Sums(sum, numbers, n) ==
    /\ sum[0] = 0
    /\ \A k \in 1 .. n : sum[k] = sum[k - 1] + numbers[k]
    /\ Replayed!Total(numbers) = sum[n]

\* Those sums as the function that Total defines.
IsSum(f, numbers, n) ==
    f = [k \in 0 .. n |-> IF k = 0 THEN 0 ELSE f[k - 1] + numbers[k]]

\* What that definition says of each sum.
LEMMA SumIsSums ==
  ASSUME NEW n \in Nat, NEW numbers, NEW f, IsSum(f, numbers, n)
  PROVE  f[0] = 0 /\ \A k \in 1 .. n : f[k] = f[k - 1] + numbers[k]
BY DEF IsSum

\* They exist, for a list of any length.
LEMMA SumsExist ==
  ASSUME NEW n \in Nat, NEW numbers, numbers = [i \in 1 .. n |-> numbers[i]]
  PROVE  \E sum : Sums(sum, numbers, n)
<1> DEFINE Exists(m) == \E f : IsSum(f, numbers, m)
           T == {m \in 0 .. n : Exists(m)}
<1>1. Exists(0)
  <2> DEFINE f == [k \in 0 .. 0 |-> 0]
  <2>1. IsSum(f, numbers, 0)
    BY DEF IsSum
  <2> QED
    BY <2>1, Zenon
<1>2. ASSUME NEW m \in 1 .. n, Exists(m - 1) PROVE Exists(m)
  <2>1. PICK g : IsSum(g, numbers, m - 1)
    BY <1>2
  <2> DEFINE f == [k \in 0 .. m |-> IF k < m THEN g[k] ELSE g[m - 1] + numbers[m]]
  <2>2. \A k \in 0 .. m - 1 : g[k] = IF k = 0 THEN 0 ELSE g[k - 1] + numbers[k]
    BY <2>1 DEF IsSum
  <2>3. ASSUME NEW k \in 0 .. m
        PROVE  f[k] = IF k = 0 THEN 0 ELSE f[k - 1] + numbers[k]
    <3>1. CASE k = m
      BY <3>1
    <3>2. CASE k # m
      <4>1. k \in 0 .. m - 1 /\ f[k] = g[k] /\ (k # 0 => f[k - 1] = g[k - 1])
        BY <3>2
      <4> QED
        BY <2>2, <4>1
    <3> QED
      BY <3>1, <3>2
  <2>4. f = [k \in 0 .. m |-> f[k]]
    BY Zenon
  <2> HIDE DEF f
  <2>5. IsSum(f, numbers, m)
    BY <2>3, <2>4 DEF IsSum
  <2> QED
    BY <2>5, Zenon
<1> HIDE DEF Exists
<1>3. Exists(n)
  <2>1. 0 \in T /\ \A m \in 1 .. n : m - 1 \in T => m \in T
    BY <1>1, <1>2
  <2> HIDE DEF T
  <2>2. n \in T
    BY <2>1, UpTo
  <2> QED
    BY <2>2 DEF T
<1> DEFINE sum == CHOOSE f : IsSum(f, numbers, n)
<1>4. IsSum(sum, numbers, n)
  BY <1>3, Zenon DEF Exists
<1>5. Len(numbers) = n
  OBVIOUS
<1>6. Replayed!Total(numbers) = sum[n]
  BY <1>5 DEF Replayed!Total, IsSum
<1> HIDE DEF sum
<1>7. sum[0] = 0 /\ \A k \in 1 .. n : sum[k] = sum[k - 1] + numbers[k]
  BY <1>4, SumIsSums
<1> QED
  BY <1>6, <1>7 DEF Sums

\* A total of natural numbers is one, and zero only if they all are; of n ones
\* it is n.
LEMMA TotalFacts ==
  ASSUME NEW n \in Nat, NEW numbers \in [1 .. n -> Nat]
  PROVE  /\ Replayed!Total(numbers) \in Nat
         /\ Replayed!Total(numbers) = 0 <=> \A i \in 1 .. n : numbers[i] = 0
         /\ (\A i \in 1 .. n : numbers[i] = 1) => Replayed!Total(numbers) = n
<1>1. PICK sum : Sums(sum, numbers, n)
  BY SumsExist
<1> DEFINE T == {k \in 0 .. n :
                   /\ sum[k] \in Nat
                   /\ sum[k] = 0 <=> \A i \in 1 .. k : numbers[i] = 0
                   /\ (\A i \in 1 .. k : numbers[i] = 1) => sum[k] = k}
<1>2. 0 \in T
  BY <1>1 DEF Sums
<1>3. ASSUME NEW k \in 1 .. n, k - 1 \in T PROVE k \in T
  <2>1. sum[k] = sum[k - 1] + numbers[k] /\ numbers[k] \in Nat
    BY <1>1 DEF Sums
  <2>2. \A i \in 1 .. k : i = k \/ i \in 1 .. k - 1
    OBVIOUS
  <2>3. k \in 1 .. k /\ \A i \in 1 .. k - 1 : i \in 1 .. k
    OBVIOUS
  <2>4. sum[k] \in Nat
    BY <1>3, <2>1
  <2>5. sum[k] = 0 <=> \A i \in 1 .. k : numbers[i] = 0
    <3>1. sum[k] = 0 <=> sum[k - 1] = 0 /\ numbers[k] = 0
      BY <1>3, <2>1
    <3>2. sum[k - 1] = 0 <=> \A i \in 1 .. k - 1 : numbers[i] = 0
      BY <1>3
    <3> QED
      BY <2>2, <2>3, <3>1, <3>2
  <2>6. (\A i \in 1 .. k : numbers[i] = 1) => sum[k] = k
    BY <1>3, <2>1, <2>3
  <2> QED
    BY <2>4, <2>5, <2>6
<1>4. n \in T
  <2> HIDE DEF T
  <2>1. \A k \in 0 .. n : k \in T
    BY <1>2, <1>3, UpTo
  <2> QED
    BY <2>1
<1> QED
  BY <1>1, <1>4 DEF Sums

\* Of finite sets without common elements the union has the total of their
\* numbers of elements.
LEMMA UnionTotal ==
  ASSUME NEW n \in Nat, NEW S, \A i \in 1 .. n : IsFiniteSet(S[i]),
         \A i, j \in 1 .. n : i # j => S[i] \cap S[j] = {}
  PROVE  Cardinality(UNION {S[i] : i \in 1 .. n})
            = Replayed!Total([i \in 1 .. n |-> Cardinality(S[i])])
<1> DEFINE numbers == [i \in 1 .. n |-> Cardinality(S[i])]
           U(k) == UNION {S[i] : i \in 1 .. k}
<1>1. PICK sum : Sums(sum, numbers, n)
  BY SumsExist
<1> DEFINE T == {k \in 0 .. n : IsFiniteSet(U(k)) /\ Cardinality(U(k)) = sum[k]}
<1>2. 0 \in T
  <2>1. U(0) = {}
    OBVIOUS
  <2> HIDE DEF U
  <2>2. IsFiniteSet(U(0)) /\ Cardinality(U(0)) = 0
    BY <2>1, FS_EmptySet
  <2> QED
    BY <1>1, <2>2 DEF Sums
<1>3. ASSUME NEW k \in 1 .. n, k - 1 \in T PROVE k \in T
  <2>1. U(k) = U(k - 1) \cup S[k]
    <3>1. \A i : i \in 1 .. k <=> i \in 1 .. k - 1 \/ i = k
      OBVIOUS
    <3> QED
      BY <3>1
  <2>2. U(k - 1) \cap S[k] = {}
    <3>1. \A i \in 1 .. k - 1 : i \in 1 .. n /\ i # k
      OBVIOUS
    <3> QED
      BY <3>1
  <2>3. sum[k] = sum[k - 1] + Cardinality(S[k])
    BY <1>1 DEF Sums
  <2>4. IsFiniteSet(U(k - 1)) /\ Cardinality(U(k - 1)) = sum[k - 1]
    BY <1>3
  <2> HIDE DEF U
  <2>5. /\ IsFiniteSet(U(k))
        /\ Cardinality(U(k)) = Cardinality(U(k - 1)) + Cardinality(S[k])
                                  - Cardinality(U(k - 1) \cap S[k])
    BY <2>1, <2>4, FS_Union
  <2>6. Cardinality(U(k - 1) \cap S[k]) = 0
    BY <2>2, FS_EmptySet
  <2>7. Cardinality(U(k - 1)) \in Nat /\ Cardinality(S[k]) \in Nat
    BY <2>4, FS_CardinalityType
  <2> QED
    BY <2>3, <2>4, <2>5, <2>6, <2>7
<1>4. n \in T
  <2> HIDE DEF T
  <2>1. \A k \in 0 .. n : k \in T
    BY <1>2, <1>3, UpTo
  <2> QED
    BY <2>1
<1> QED
  BY <1>1, <1>4 DEF Sums

\* The Cardinality of the instance is the one the theorems are about.
LEMMA SameCardinality ==
  ASSUME NEW S PROVE Replayed!Cardinality(S) = Cardinality(S)
BY DEF Cardinality, Replayed!Cardinality

\* What a result that is sound counts for in the metrics.
LEMMA SoundCounts ==
  ASSUME NEW r, NEW trip, NEW Leg, Carried(r, trip, Leg), Sound(r)
  PROVE  /\ Cardinality(Replayed!Notifying(r)) \in Nat
         /\ Cardinality(Replayed!Notifying(r)) = 0 <=> r.notifications = <<>>
         /\ Len(r.notifications) \in Nat
         /\ IsFiniteSet(Replayed!Keys(r))
         /\ Cardinality(Replayed!Keys(r)) = Len(r.notifications)
         /\ \A key \in Replayed!Keys(r) : key[1][1] = trip
         /\ Replayed!Unauthorized(r) = {}
<1> DEFINE notes == r.notifications
           n     == Len(notes)
           keys  == Replayed!Keys(r)
           some  == Replayed!Notifying(r)
<1>1. /\ n \in Nat /\ DOMAIN notes = 1 .. n
      /\ notes = <<>> <=> n = 0
      /\ \A i \in 1 .. n : notes[i] \in Noted(trip, Leg)
  BY DEF Carried
<1>2. IsFiniteSet(some) /\ Cardinality(some) \in Nat
  <2>1. some \subseteq 1 .. Len(r.decisions) /\ Len(r.decisions) \in Nat
    BY DEF Carried, Replayed!Notifying
  <2>2. IsFiniteSet(1 .. Len(r.decisions))
    BY <2>1, FS_Interval
  <2> HIDE DEF some
  <2>3. IsFiniteSet(some)
    BY <2>1, <2>2, FS_Subset
  <2> QED
    BY <2>3, FS_CardinalityType
<1>3. some = {} <=> DOMAIN notes = {}
  BY DEF Sound
<1>4. IsFiniteSet(keys) /\ Cardinality(keys) = n
  <2> DEFINE f == [i \in 1 .. n |-> notes[i].key]
  <2>1. keys = {f[i] : i \in 1 .. n}
    BY <1>1 DEF Replayed!Keys
  <2>2. \A i, j \in 1 .. n : f[i] = f[j] => i = j
    BY <1>1 DEF Sound
  <2>3. f \in [1 .. n -> keys]
    BY <2>1
  <2> HIDE DEF f, keys, n
  <2>4. f \in Bijection(1 .. n, keys)
    <3>1. f \in Injection(1 .. n, keys)
      BY <2>2, <2>3 DEF Injection, IsInjective
    <3>2. f \in Surjection(1 .. n, keys)
      BY <2>1, <2>3 DEF Surjection
    <3> QED
      BY <3>1, <3>2 DEF Bijection
  <2>5. ExistsBijection(1 .. n, keys)
    BY <2>4 DEF ExistsBijection
  <2>6. IsFiniteSet(1 .. n)
    BY <1>1, FS_Interval
  <2> QED
    BY <1>1, <2>5, <2>6, FS_Bijection, FS_CountingElements
<1>5. Replayed!Unauthorized(r) = {}
  BY DEF Sound, Replayed!Unauthorized
<1>6. Cardinality(some) = 0 <=> some = {}
  BY <1>2, FS_EmptySet
<1>7. some = {} <=> notes = <<>>
  <2> HIDE DEF n, notes, some
  <2>1. 1 .. n = {} <=> n = 0
    BY <1>1
  <2> QED
    BY <1>1, <1>3, <2>1
<1>8. \A key \in keys : key[1][1] = trip
  BY <1>1 DEF Replayed!Keys, Noted, Episode
<1> QED
  BY <1>1, <1>2, <1>4, <1>5, <1>6, <1>7, <1>8

\* What the metrics need of a list of results.
Clean(results, n) ==
    /\ results = [i \in 1 .. n |-> results[i]]
    /\ \A i \in 1 .. n :
          /\ Cardinality(Replayed!Notifying(results[i])) \in Nat
          /\ Len(results[i].notifications) \in Nat
          /\ Cardinality(Replayed!Notifying(results[i])) = 0
                <=> results[i].notifications = <<>>
          /\ IsFiniteSet(Replayed!Keys(results[i]))
          /\ Cardinality(Replayed!Keys(results[i]))
                = Len(results[i].notifications)
          /\ Replayed!Unauthorized(results[i]) = {}
    /\ \A i, j \in 1 .. n :
          i # j => Replayed!Keys(results[i]) \cap Replayed!Keys(results[j]) = {}

\* No key of theirs occurs twice.
LEMMA NothingRepeated ==
  ASSUME NEW n \in Nat, NEW results, Clean(results, n)
  PROVE  Replayed!Repeated(results) = 0
<1> DEFINE S    == [i \in 1 .. n |-> Replayed!Keys(results[i])]
           all  == UNION {Replayed!Keys(results[i]) : i \in DOMAIN results}
           lens == [i \in DOMAIN results |-> Len(results[i].notifications)]
           card == [i \in 1 .. n |-> Cardinality(S[i])]
<1>1. DOMAIN results = 1 .. n
  BY DEF Clean
<1>2. all = UNION {S[i] : i \in 1 .. n}
  BY <1>1
<1>3. lens = card
  BY <1>1 DEF Clean
<1>4. /\ \A i \in 1 .. n : IsFiniteSet(S[i])
      /\ \A i, j \in 1 .. n : i # j => S[i] \cap S[j] = {}
  BY DEF Clean
<1>5. lens \in [1 .. n -> Nat]
  BY <1>1 DEF Clean
<1>6. Replayed!Total(lens) \in Nat
  <2> HIDE DEF lens
  <2> QED
    BY <1>5, TotalFacts
<1>7. Cardinality(all) = Replayed!Total(card)
  <2> HIDE DEF S
  <2>1. Cardinality(UNION {S[i] : i \in 1 .. n}) = Replayed!Total(card)
    BY <1>4, UnionTotal
  <2> QED
    BY <1>2, <2>1
<1>8. Replayed!Repeated(results)
         = Replayed!Total(lens) - Replayed!Cardinality(all)
  BY DEF Replayed!Repeated
<1> HIDE DEF lens, card, all
<1> QED
  BY <1>3, <1>6, <1>7, <1>8, SameCardinality

\* Measured against themselves, results fail no gate; without any notification
\* the rate of duplicates counts as one, and fails that gate alone.
Passes(results, n) ==
    Replayed!ThresholdFailures(Replayed!Metrics(results, results))
       = IF \A i \in 1 .. n : results[i].notifications = <<>>
         THEN {"duplicates"} ELSE {}

\* Results that are clean do.
LEMMA CleanPasses ==
  ASSUME NEW n \in Nat, NEW results, Clean(results, n)
  PROVE  Passes(results, n)
<1> DEFINE m      == Replayed!Metrics(results, results)
           actual == [i \in DOMAIN results |-> Replayed!Notifying(results[i])]
           right  == [i \in DOMAIN results |-> actual[i] \cap actual[i]]
           size(T) == Replayed!Total([i \in DOMAIN results |->
                                        Replayed!Cardinality(T[i])])
           none   == [i \in DOMAIN results |-> Replayed!Unauthorized(results[i])]
           passes == [i \in DOMAIN results |->
                        IF results[i] = results[i] THEN 1 ELSE 0]
           sizes  == [i \in 1 .. n |-> Cardinality(Replayed!Notifying(results[i]))]
           a      == Replayed!Total(sizes)
<1>1. DOMAIN results = 1 .. n /\ Len(results) = n
  BY DEF Clean
<1>2. m = [passes |-> <<Replayed!Total(passes), Len(results)>>,
           precision |-> <<size(right), size(actual)>>,
           recall |-> <<size(right), size(actual)>>,
           duplicates |-> <<Replayed!Repeated(results), size(actual)>>,
           unauthorized |-> size(none)]
  BY Zenon DEF Replayed!Metrics
<1>3. Replayed!Total(passes) = n
  <2>1. passes \in [1 .. n -> Nat] /\ \A i \in 1 .. n : passes[i] = 1
    BY <1>1
  <2> HIDE DEF passes
  <2> QED
    BY <2>1, TotalFacts
<1>4. size(actual) = a /\ size(right) = a
  <2>1. \A i \in 1 .. n : actual[i] = Replayed!Notifying(results[i])
                          /\ right[i] = Replayed!Notifying(results[i])
    BY <1>1
  <2>2. /\ [i \in DOMAIN results |-> Replayed!Cardinality(actual[i])] = sizes
        /\ [i \in DOMAIN results |-> Replayed!Cardinality(right[i])] = sizes
    BY <1>1, <2>1, SameCardinality
  <2> QED
    BY <2>2
<1>5. /\ a \in Nat
      /\ a = 0 <=> \A i \in 1 .. n : results[i].notifications = <<>>
  <2>1. /\ sizes \in [1 .. n -> Nat]
        /\ \A i \in 1 .. n : sizes[i] = 0 <=> results[i].notifications = <<>>
    BY DEF Clean
  <2> HIDE DEF sizes
  <2>2. a \in Nat /\ (a = 0 <=> \A i \in 1 .. n : sizes[i] = 0)
    BY <2>1, TotalFacts
  <2> QED
    BY <2>1, <2>2
<1>6. size(none) = 0
  <2> DEFINE zeros == [i \in DOMAIN results |-> Replayed!Cardinality(none[i])]
  <2>1. \A i \in 1 .. n : none[i] = {}
    BY <1>1 DEF Clean
  <2>2. Replayed!Cardinality({}) = 0
    BY SameCardinality, FS_EmptySet
  <2>3. \A i \in 1 .. n : zeros[i] = 0
    BY <1>1, <2>1, <2>2
  <2>4. zeros = [i \in 1 .. n |-> zeros[i]]
    BY <1>1, Zenon
  <2> HIDE DEF zeros
  <2>5. zeros \in [1 .. n -> Nat]
    BY <2>3, <2>4
  <2>6. Replayed!Total(zeros) = 0
    BY <2>3, <2>5, TotalFacts
  <2> QED
    BY <2>6 DEF zeros
<1>7. Replayed!Repeated(results) = 0
  BY NothingRepeated
<1> HIDE DEF actual, right, none, passes, size, sizes, a, m
<1>8. /\ m.passes = <<n, n>>
      /\ m.precision = <<a, a>> /\ m.recall = <<a, a>>
      /\ m.duplicates = <<0, a>>
      /\ m.unauthorized = 0
  BY <1>1, <1>2, <1>3, <1>4, <1>6, <1>7
<1>9. /\ ~ Replayed!Below(m.passes, 100)
      /\ ~ Replayed!Below(m.precision, 90)
      /\ ~ Replayed!Below(m.recall, 95)
      /\ Replayed!Above(m.duplicates, 5) <=> a = 0
      /\ ~ (m.unauthorized > 0)
  BY <1>5, <1>8 DEF Replayed!Below, Replayed!Above
<1>10. Replayed!ThresholdFailures(m) = IF a = 0 THEN {"duplicates"} ELSE {}
  BY <1>9 DEF Replayed!ThresholdFailures
<1> QED
  BY <1>5, <1>10 DEF m, Passes

\* What a replay returns is sound.
LEMMA ReplaySound ==
  ASSUME NEW scenario, NEW N \in Nat, DOMAIN scenario.observations = 1 .. N
  PROVE  LET r == Replayed!Replay(scenario)
         IN  /\ \E Leg : Carried(r, scenario.trip, Leg) /\ Sound(r)
             /\ GoesForward(Replayed!Received(scenario), r.candidates)
<1> DEFINE received == Replayed!Received(scenario)
           Leg      == {received[k].leg : k \in 1 .. N}
           r        == Replayed!Replay(scenario)
<1>1. DOMAIN received = 1 .. N
  BY DEF Replayed!Received
<1>2. Len(received) = N
  <2>1. received = [n \in 1 .. N |-> received[n]]
    BY DEF Replayed!Received
  <2> HIDE DEF received
  <2> QED
    BY <2>1
<1>3. r = Replayed!After(scenario, received, N)
  BY <1>2 DEF Replayed!Replay
<1>4. \A k \in 1 .. N : received[k].leg \in Leg
  OBVIOUS
<1> HIDE DEF Leg, received, r
<1>5. /\ Carried(r, scenario.trip, Leg) /\ Sound(r)
      /\ Forward(scenario, received, N, r)
  BY <1>3, <1>4, LoopSound
<1>6. GoesForward(received, r.candidates)
  <2> SUFFICES ASSUME NEW n \in DOMAIN r.candidates
               PROVE  \E i, j \in DOMAIN received :
                         /\ News(received, i, j)
                         /\ r.candidates[n].leg = received[j].leg
                         /\ r.candidates[n].evidence
                               = <<received[i].id, received[j].id>>
    BY DEF GoesForward
  <2>1. r.candidates[n] \in NewsOf(scenario, received, N)
    <3>1. r.candidates \in Seq(NewsOf(scenario, received, N))
      BY <1>5 DEF Forward
    <3> QED
      BY <3>1
  <2>2. PICK i \in 1 .. N, j \in 1 .. N :
           /\ News(received, i, j)
           /\ r.candidates[n]
                 = Replayed!CandidateOf(scenario, received[i], received[j])
    BY <2>1 DEF NewsOf
  <2> QED
    BY <1>1, <2>2 DEF Replayed!CandidateOf
<1> QED
  BY <1>5, <1>6 DEF r, received

\* A suite of recorded scenarios of different trips, however many and however
\* long, in whatever order their observations were received and whatever they
\* say, passes the release gates when its replays are measured against
\* themselves: no gate fails a change that alters nothing (engine.py, run;
\* metrics.py, calculate_metrics; runner.py, threshold_failures).  The one
\* exception is a suite that notifies of nothing.
THEOREM EverySuitePasses ==
  ASSUME NEW n \in Nat, NEW scenarios,
         \A i \in 1 .. n :
            \E N \in Nat : DOMAIN scenarios[i].observations = 1 .. N,
         \A i, j \in 1 .. n : scenarios[i].trip = scenarios[j].trip => i = j
  PROVE  Passes([i \in 1 .. n |-> Replayed!Replay(scenarios[i])], n)
<1> DEFINE results == [i \in 1 .. n |-> Replayed!Replay(scenarios[i])]
<1>1. ASSUME NEW i \in 1 .. n
      PROVE  \E Leg : /\ Carried(results[i], scenarios[i].trip, Leg)
                      /\ Sound(results[i])
  BY ReplaySound
<1>2. results = [i \in 1 .. n |-> results[i]]
  OBVIOUS
<1> HIDE DEF results
<1>3. ASSUME NEW i \in 1 .. n
      PROVE  /\ Cardinality(Replayed!Notifying(results[i])) \in Nat
             /\ Cardinality(Replayed!Notifying(results[i])) = 0
                   <=> results[i].notifications = <<>>
             /\ Len(results[i].notifications) \in Nat
             /\ IsFiniteSet(Replayed!Keys(results[i]))
             /\ Cardinality(Replayed!Keys(results[i]))
                   = Len(results[i].notifications)
             /\ \A key \in Replayed!Keys(results[i]) :
                   key[1][1] = scenarios[i].trip
             /\ Replayed!Unauthorized(results[i]) = {}
  <2>1. PICK Leg : /\ Carried(results[i], scenarios[i].trip, Leg)
                   /\ Sound(results[i])
    BY <1>1
  <2> QED
    BY <2>1, SoundCounts
<1>4. ASSUME NEW i \in 1 .. n, NEW j \in 1 .. n, i # j
      PROVE  Replayed!Keys(results[i]) \cap Replayed!Keys(results[j]) = {}
  <2>1. scenarios[i].trip # scenarios[j].trip
    BY <1>4
  <2>2. /\ \A key \in Replayed!Keys(results[i]) : key[1][1] = scenarios[i].trip
        /\ \A key \in Replayed!Keys(results[j]) : key[1][1] = scenarios[j].trip
    BY <1>3
  <2> QED
    BY <2>1, <2>2
<1>5. Clean(results, n)
  BY <1>2, <1>3, <1>4 DEF Clean
<1>6. Passes(results, n)
  BY <1>5, CleanPasses
<1> QED
  BY <1>6 DEF results

\* One scenario is a suite.
COROLLARY EveryReplayPasses ==
  ASSUME NEW scenario, NEW N \in Nat, DOMAIN scenario.observations = 1 .. N
  PROVE  LET r == Replayed!Replay(scenario)
         IN  Replayed!ThresholdFailures(Replayed!Metrics(<<r>>, <<r>>))
                = IF r.notifications = <<>> THEN {"duplicates"} ELSE {}
<1> DEFINE r         == Replayed!Replay(scenario)
           one       == <<r>>
           scenarios == [i \in 1 .. 1 |-> scenario]
           results   == [i \in 1 .. 1 |-> Replayed!Replay(scenarios[i])]
<1>1. /\ \A i \in 1 .. 1 :
            \E M \in Nat : DOMAIN scenarios[i].observations = 1 .. M
      /\ \A i, j \in 1 .. 1 : scenarios[i].trip = scenarios[j].trip => i = j
  OBVIOUS
<1>2. results = one
  OBVIOUS
<1>3. (\A i \in 1 .. 1 : results[i].notifications = <<>>)
         <=> r.notifications = <<>>
  OBVIOUS
<1>4. Passes(results, 1)
  <2> HIDE DEF scenarios
  <2>1. Passes([i \in 1 .. 1 |-> Replayed!Replay(scenarios[i])], 1)
    BY <1>1, EverySuitePasses
  <2> QED
    BY <2>1
<1> HIDE DEF results, r, one
<1>5. Replayed!ThresholdFailures(Replayed!Metrics(one, one))
         = IF r.notifications = <<>> THEN {"duplicates"} ELSE {}
  BY <1>2, <1>3, <1>4 DEF Passes
<1> QED
  BY <1>5 DEF r, one

-----------------------------------------------------------------------------
(* The runs: what a step has put into result is the rule's value for input. *)

Value(i) == CASE i.rule = "weather" -> Weather(i)
              [] i.rule = "flight"  -> Flight(i)
              [] i.rule = "replay"  -> Replayed!Replay(i)
              [] i.rule = "wording" -> Told(i)

Answered ==
    /\ input \in Forecasts \cup Flights \cup Scenarios \cup Wordings
    /\ result # None => result = [value |-> Value(input)]

LEMMA AlwaysAnswered == Spec => []Answered
<1>1. Init => Answered
  BY DEF Init, Answered
<1>2. Answered /\ [Apply]_vars => Answered'
  <2>1. Answered /\ Apply => Answered'
    <3> SUFFICES ASSUME Answered, Apply PROVE Answered'
      OBVIOUS
    <3>1. input' = input /\ result' = [value |-> Value(input)]
      BY DEF Apply, Value
    <3>2. Value(input') = Value(input)
      BY <3>1
    <3> QED
      BY <3>1, <3>2 DEF Answered
  <2>2. Answered /\ UNCHANGED vars => Answered'
    BY DEF Answered, vars, Value, Weather, Flight, Told
  <2> QED
    BY <2>1, <2>2
<1> QED
  BY <1>1, <1>2, PTL DEF Spec

\* The inputs of one rule are those made for it.
LEMMA InputOfRule ==
  ASSUME Answered
  PROVE  /\ input.rule = "weather" => input \in Forecasts
         /\ input.rule = "flight" => input \in Flights
         /\ input.rule = "replay" => input \in Scenarios
<1>1. /\ \A i \in Forecasts : i.rule = "weather"
      /\ \A i \in Flights : i.rule = "flight"
  BY DEF Forecasts, Flights
<1>2. \A i \in Scenarios : i.rule = "replay"
  <2>1. \A c, f, old, swapped : Scenario(c, f, old, swapped).rule = "replay"
    BY DEF Scenario
  <2> QED
    BY <2>1 DEF Scenarios
<1>3. \A i \in Wordings : i.rule = "wording"
  BY DEF Wordings
<1> QED
  BY <1>1, <1>2, <1>3 DEF Answered

\* In the runs as for every input: the traveller is told of the confirmed
\* disruption, in figures of the stored evidence
\* (disruption_explanation.py, _validated_model_message).
THEOREM OnlyEvidenceTold == Spec => []OnlyFactsTold
<1>1. Answered => OnlyFactsTold
  <2> SUFFICES ASSUME Answered, Applied("wording"), result.value # None
               PROVE  /\ input.event.category \in result.value.terms
                      /\ ~result.value.unsupported
                      /\ \A n \in result.value.numbers :
                            /\ input.candidate # None
                            /\ n \in {input.candidate[e] :
                                         e \in {"delay", "buffer", "minimum"}}
    BY DEF OnlyFactsTold
  <2>1. result.value = Told(input)
    BY DEF Answered, Applied, Value
  <2> DEFINE request == Wording!ExplanationRequest(input.event, input.candidate)
  <2>2. /\ request # None
        /\ result.value = Wording!FriendlyExplanation(request, input.reached,
                                                      input.answer)
    BY <2>1 DEF Told
  <2> QED
    BY <2>2, ToldFromEvidence
<1> QED
  BY <1>1, AlwaysAnswered, PTL

\* The forecast step that answers for the time asked for, and its risk.
LEMMA WeatherOfStep ==
  ASSUME NEW i \in Forecasts PROVE Weather(i).risk = ClassifyWeatherRisk(i.step)
<1> DEFINE steps   == <<i.step, Later>>
           far(n)  == Distance(steps[n], 690)
           nearest == {n \in DOMAIN steps : \A k \in DOMAIN steps : far(n) <= far(k)}
<1>1. /\ i.step \in Steps /\ i.step.at = 600 /\ i.step.code # None
      /\ i.step.wind # None
  BY NoneAssumption DEF Forecasts, Steps
<1>2. far(1) = 90 /\ far(2) = 100
  BY <1>1 DEF Distance, Later
<1>3. DOMAIN steps = {1, 2}
  OBVIOUS
<1>4. nearest = {1}
  <2> HIDE DEF far, steps
  <2> QED
    BY <1>2, <1>3
<1>5. Min(nearest) = 1
  BY <1>4, MinOfOne
<1>6. \A n \in DOMAIN steps : steps[n].at # None
  BY <1>1, <1>3, NoneAssumption DEF Later
<1>7. NearestStep(steps, 690) = i.step
  BY <1>2, <1>5, <1>6 DEF NearestStep
<1>8. Weather(i) = Normalize(i.step, 690)
  BY <1>1, <1>7, AnswerAssumption DEF Weather, AirportWeather
<1> QED
  BY <1>1, <1>8 DEF Normalize

\* In the runs as for every measurement: a step at least as bad as the one
\* answered has no lower risk than the Monitoring Agent is told of (weather.py,
\* get_airport_weather, _classify_weather_risk).
THEOREM WorseWeatherRun == Spec => []WorseWeatherNeverLowersRisk
<1>1. Answered => WorseWeatherNeverLowersRisk
  <2> SUFFICES ASSUME Answered, Applied("weather"),
                      NEW s \in Steps, NoBetter(s, input.step)
               PROVE  RiskRank(s) >= Rank(result.value.risk)
    BY DEF WorseWeatherNeverLowersRisk
  <2>1. input \in Forecasts /\ input.step \in Steps
    BY InputOfRule DEF Applied, Forecasts
  <2>2. result.value = Weather(input)
    BY DEF Answered, Applied, Value
  <2>3. Rank(result.value.risk) = RiskRank(input.step)
    BY <2>1, <2>2, WeatherOfStep DEF RiskRank
  <2>4. \A t \in Steps : Measured(t)
    BY DEF Steps, Measured
  <2> QED
    BY <2>1, <2>3, <2>4, WorseIsNoSafer
<1> QED
  BY <1>1, AlwaysAnswered, PTL

\* The record the response is searched for.
LEMMA ReportedRecord ==
  ASSUME NEW r \in FlightRecords PROVE Reported(r) = NormalizeRecord(r, 50)
<1> DEFINE other    == [r EXCEPT !.date = 2]
           response == <<other, r>>
           exact    == {i \in DOMAIN response :
                          response[i].flight = 1 /\ response[i].date = 1}
<1>1. r.flight = 1 /\ r.date = 1 /\ other.date = 2
  BY DEF FlightRecords
<1>2. /\ DOMAIN response = {1, 2}
      /\ response[1] = other /\ response[2] = r
  OBVIOUS
<1>3. exact = {2}
  <2> HIDE DEF response, other
  <2> QED
    BY <1>1, <1>2
<1>4. Min(exact) = 2
  BY <1>3, MinOfOne
<1>5. Records(response) = response /\ response # None
  BY AnswerAssumption DEF Records
<1> QED
  BY <1>2, <1>3, <1>4, <1>5 DEF Reported, FlightStatusOf

\* In the runs as for every record: a delay that is stated for the first time
\* is classified as one, or as the cancellation that came with it
\* (flight_status.py, get_flight_status; travel_eval/engine.py, classify).
THEOREM NewDelayRun == Spec => []NewDelayIsReported
<1>1. Answered => NewDelayIsReported
  <2> SUFFICES ASSUME Answered, Applied("flight")
               PROVE  result.value \in {"DELAY", "CANCELLATION"}
    BY DEF NewDelayIsReported
  <2> DEFINE b == input.before
             a == input.after
             o == NormalizeRecord(b, 50)
             p == NormalizeRecord(a, 50)
             fields == ChangedFields(o, p)
  <2>1. /\ b \in FlightRecords /\ a \in FlightRecords /\ ~Late(b) /\ Late(a)
    BY InputOfRule DEF Applied, Flights
  <2>2. result.value = Classify(p, fields, None, None)
    <3>1. result.value = Flight(input)
      BY DEF Answered, Applied, Value
    <3> QED
      BY <2>1, <3>1, ReportedRecord DEF Flight
  <2>3. \A r \in FlightRecords :
           Timed(r.departure) /\ Timed(r.arrival)
           /\ r.status \in {"scheduled", "cancelled"}
    BY AnswerAssumption DEF FlightRecords, Movements, Timed
  <2>4. p.status \in {"scheduled", "cancelled"}
    BY <2>1, <2>3, NoneAssumption DEF NormalizeRecord, Timed, KnownStatus
  <2>5. Classify(p, fields, None, None)
           \in {"CANCELLATION", "DIVERSION", "CONNECTION_RISK", "DELAY"}
    BY <2>1, <2>3, NewDelayReported
  <2> HIDE DEF p, fields
  <2>6. Classify(p, fields, None, None) \notin {"DIVERSION", "CONNECTION_RISK"}
    BY <2>4 DEF Classify
  <2> QED
    BY <2>2, <2>5, <2>6
<1> QED
  BY <1>1, AlwaysAnswered, PTL

\* The places of a sequence of one and a sequence of three.
LEMMA ConcatDomain ==
  ASSUME NEW T, NEW s \in Seq(T), NEW t \in Seq(T), Len(s) = 1, Len(t) = 3
  PROVE  DOMAIN (s \o t) = 1 .. 4
<1>1. s \o t \in Seq(T) /\ Len(s \o t) = Len(s) + Len(t)
  BY ConcatProperties
<1> QED
  BY <1>1

\* So do the replays of the runs.
THEOREM ReplayRun == Spec => []ReplayTellsOnce
<1>1. Answered => ReplayTellsOnce
  <2> SUFFICES ASSUME Answered, Applied("replay")
               PROVE  /\ GoesForward(Replayed!Received(input),
                                     result.value.candidates)
                      /\ PassesGates(result.value)
    BY DEF ReplayTellsOnce
  <2>1. result.value = Replayed!Replay(input)
    BY DEF Answered, Applied, Value
  <2>2. input \in Scenarios
    BY InputOfRule DEF Applied
  <2>3. DOMAIN input.observations = 1 .. 4
    <3>1. \A c, f, old, swapped :
             DOMAIN Scenario(c, f, old, swapped).observations = 1 .. 4
      <4>1. ASSUME NEW x, NEW y, y = [n \in 1 .. 3 |-> y[n]]
            PROVE  DOMAIN (<<x>> \o y) = 1 .. 4
        <5> DEFINE T == {x} \cup {y[n] : n \in 1 .. 3}
        <5>1. \A n \in 1 .. 3 : y[n] \in T
          OBVIOUS
        <5>2. x \in T
          OBVIOUS
        <5> HIDE DEF T
        <5>3. y \in Seq(T) /\ Len(y) = 3 /\ <<x>> \in Seq(T) /\ Len(<<x>>) = 1
          BY <4>1, <5>1, <5>2
        <5> QED
          BY <5>3, ConcatDomain
      <4> QED
        BY <4>1 DEF Scenario
    <3> QED
      BY <2>2, <3>1 DEF Scenarios
  <2> QED
    BY <2>1, <2>3, EveryReplayPasses, ReplaySound DEF PassesGates
<1> QED
  BY <1>1, AlwaysAnswered, PTL
=============================================================================
