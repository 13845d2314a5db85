-------------------------- MODULE ReplayEvaluation --------------------------
(***************************************************************************)
(* The replay evaluation of travel_eval (engine.py, metrics.py, runner.py): *)
(* a recorded scenario is run through the change rules and the suppression  *)
(* policy that the agents use live, and the outcome is measured against     *)
(* golden results.                                                          *)
(*                                                                         *)
(* A scenario is [trip, observations, connection].  An observation is       *)
(* [id, received, time, leg, status, departure, arrival, weather];          *)
(* connection[leg] is [buffer, minimum], the minutes left at the scheduled  *)
(* arrival, or None.                                                        *)
(***************************************************************************)
EXTENDS CandidateRules, SuppressionPolicy, Ordering, Sequences

\* In the order of receipt.
Received(scenario) ==
    LET o     == scenario.observations
        order == Sorted(DOMAIN o, [i \in DOMAIN o |-> <<o[i].received>>])
    IN  [n \in DOMAIN o |-> o[order[n]]]

\* Evidence of weather that is missing on one side only differs.
ReplayedFields(previous, o) ==
    ChangedFields(previous, o) \cup
    {f \in WeatherField :
        (IF previous.weather = None THEN None ELSE previous.weather[f[2]])
        # (IF o.weather = None THEN None ELSE o.weather[f[2]])}

\* What run() carries from one observation to the next: the last state of each
\* leg, the policy's bands by episode, and the results.
Start == [last |-> <<>>, bands |-> <<>>, candidates |-> <<>>,
          decisions |-> <<>>, notifications |-> <<>>, ignored |-> <<>>]

Lookup(f, key, default) == IF key \in DOMAIN f THEN f[key] ELSE default

Buffer(scenario, o) ==
    IF scenario.connection[o.leg] = None THEN None
    ELSE scenario.connection[o.leg].buffer - EffectiveTime(o.arrival)

Minimum(scenario, o) ==
    IF scenario.connection[o.leg] = None THEN None
    ELSE scenario.connection[o.leg].minimum

CandidateOf(scenario, previous, o) ==
    LET category == Classify(o, ReplayedFields(previous, o),
                             Buffer(scenario, o), Minimum(scenario, o))
    IN  [trip |-> scenario.trip, leg |-> o.leg, category |-> category,
         delay |-> OperationalDelay(o), before |-> OperationalDelay(previous),
         weather |-> IF o.weather = None THEN "none" ELSE o.weather.risk,
         corroborated |-> FALSE, evidence |-> <<previous.id, o.id>>]

\* _notification_for: the key leaves the decision, the n-th, out.
NotificationOf(c, decision, n) ==
    [key |-> <<EpisodeKey(c), SeverityBand(c)>>, decision |-> n,
     search |-> decision.verdict = "NOTIFY_AND_SEARCH",
     reasons |-> decision.reasons]

\* The policy is asked about every candidate.
Judged(s, c) ==
    LET previous == Lookup(s.bands, EpisodeKey(c), NoBand)
        decision == Evaluate(c, previous)
    IN  [s EXCEPT
           !.bands = [k \in DOMAIN @ \cup {EpisodeKey(c)} |->
                        IF k = EpisodeKey(c) THEN BandAfter(c, previous)
                                             ELSE s.bands[k]],
           !.candidates = Append(@, c),
           !.decisions = Append(@, decision),
           !.notifications = IF decision.verdict = "SUPPRESS" THEN @
                             ELSE Append(@, NotificationOf(c, decision,
                                                       Len(s.decisions) + 1))]

\* Mutant: an observation that is not newer is taken for news.
ObserveStale(scenario, s, o) ==
    LET known    == o.leg \in DOMAIN s.last
        recorded == [s EXCEPT !.last = [l \in DOMAIN @ \cup {o.leg} |->
                                          IF l = o.leg THEN o ELSE s.last[l]]]
    IN  IF ~known \/ ReplayedFields(s.last[o.leg], o) = {} THEN recorded
        ELSE Judged(recorded, CandidateOf(scenario, s.last[o.leg], o))

\* One turn of the loop.  An observation no newer than its leg's last one is
\* ignored; any other becomes the last one, even if nothing changed.
Observe(scenario, s, o) ==
    LET known    == o.leg \in DOMAIN s.last
        recorded == [s EXCEPT !.last = [l \in DOMAIN @ \cup {o.leg} |->
                                          IF l = o.leg THEN o ELSE s.last[l]]]
    IN  IF known /\ o.time <= s.last[o.leg].time
        THEN [s EXCEPT !.ignored = Append(@, o.id)]
        ELSE IF ~known \/ ReplayedFields(s.last[o.leg], o) = {} THEN recorded
        ELSE Judged(recorded, CandidateOf(scenario, s.last[o.leg], o))

\* What the loop carries after the first n of the observations received.
After(scenario, received, n) ==
    LET after[k \in 0 .. n] ==
            IF k = 0 THEN Start
            ELSE Observe(scenario, after[k - 1], received[k])
    IN  after[n]

\* ReplayEngine.run.
Replay(scenario) ==
    LET received == Received(scenario)
    IN  After(scenario, received, Len(received))

-----------------------------------------------------------------------------
(* calculate_metrics.  Results and golden results are sequences of what     *)
(* Replay returns; a rate is <<numerator, denominator>>, one for 0 / 0.     *)

Notifying(result) ==
    {i \in DOMAIN result.decisions : result.decisions[i].verdict # "SUPPRESS"}

Total(numbers) ==
    LET sum[n \in 0 .. Len(numbers)] ==
            IF n = 0 THEN 0 ELSE sum[n - 1] + numbers[n]
    IN  sum[Len(numbers)]

Keys(result) == {result.notifications[n].key : n \in DOMAIN result.notifications}

\* Notifications whose key was there before, in any scenario.
Repeated(results) ==
    Total([i \in DOMAIN results |-> Len(results[i].notifications)])
    - Cardinality(UNION {Keys(results[i]) : i \in DOMAIN results})

Unauthorized(result) ==
    {n \in DOMAIN result.notifications :
        result.notifications[n].decision \notin Notifying(result)}

\* Decisions have the same ids in both if they are the n-th in both.  A result
\* passes that is its golden result; the code lets a golden result leave fields
\* out, which makes no difference to one measured against itself.
Metrics(results, golden) ==
    LET size(S)  == Total([i \in DOMAIN results |-> Cardinality(S[i])])
        actual   == [i \in DOMAIN results |-> Notifying(results[i])]
        expected == [i \in DOMAIN results |-> Notifying(golden[i])]
        right    == [i \in DOMAIN results |-> actual[i] \cap expected[i]]
    IN  [passes |->
            <<Total([i \in DOMAIN results |->
                       IF results[i] = golden[i] THEN 1 ELSE 0]), Len(golden)>>,
         precision |-> <<size(right), size(actual)>>,
         recall |-> <<size(right), size(expected)>>,
         duplicates |-> <<Repeated(results), size(actual)>>,
         unauthorized |->
            size([i \in DOMAIN results |-> Unauthorized(results[i])])]

\* safe_ratio, compared with a percentage.
Below(rate, percent) == rate[2] # 0 /\ 100 * rate[1] < percent * rate[2]
Above(rate, permille) ==
    IF rate[2] = 0 THEN permille < 1000
    ELSE 1000 * rate[1] > permille * rate[2]

\* threshold_failures, with acceptance_thresholds.json.
ThresholdFailures(metrics) ==
    {m \in {"passes"} : Below(metrics.passes, 100)}
    \cup {m \in {"precision"} : Below(metrics.precision, 90)}
    \cup {m \in {"recall"} : Below(metrics.recall, 95)}
    \cup {m \in {"duplicates"} : Above(metrics.duplicates, 5)}
    \cup {m \in {"unauthorized"} : metrics.unauthorized > 0}
=============================================================================
