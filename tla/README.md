# A formal model of the flight disruption agents

This directory holds TLA+ specifications of the multi-agent travel disruption
system of this repository: what its processes do to the state they share, in
which order, and what may go wrong between two steps. TLC checks the
specifications on small instances; TLAPS proves some of the results for every
value of the constants. Paths below are relative to the root of the sources
(`flight_agent/…`, `travel_eval/…`).

Contents: [the system](#the-system) · [modules](#modules-and-the-code-they-model) ·
[runs](#runs) · [bounds](#bounds) · [fairness](#fairness) · [proofs](#proofs) ·
[divergences](#where-code-and-documents-differ) ·
[what the code does not promise](#what-the-code-does-not-promise) ·
[not modelled](#not-modelled) · [plan](#plan)

## The system

A traveler's itinerary is parsed and stored; a scheduler polls each flight leg
until two hours after arrival; a monitoring agent turns changes into
*disruption candidates*; the Eval Agent decides each candidate with a
deterministic policy; confirmed disruptions are acted on by SMS and by a search
for alternative flights.

```
 travel-api ─► trip-orchestrator ─► document-agent
                 │  (Postgres: trips, trip_legs, monitoring_runs)
                 │ polls due legs
                 ▼
             monitor-agent ── MCP tools ── flight agency, weather
                 │  (DynamoDB: observations, candidate outbox)
                 ▼ travel.disruption_candidate.v1
             eval-agent
                 │  (DynamoDB: decision, band, confirmed event, outbox)
                 ▼ travel.disruption_confirmed.v1
        ┌────────┴──────────────────┐
 notification-action-service   flight-search-action-service
        │ MCP tool                  │ MCP tool
     Twilio ──callbacks──► notification-webhook-service
```

The events travel on JetStream (default) or SQS. Every service may run several
processes, and every arrow may fail.

| Component | State it keeps | Operations that change state | Hard behaviour | Correct when |
|---|---|---|---|---|
| Suppression policy `travel_eval/policy.py` | highest band notified per episode (handed in and out) | `evaluate` | bands and verdicts have boundaries of their own | a band is confirmed once, an escalation is not hidden |
| Event delivery `event_delivery.py` | JetStream: messages, delivery counts; DynamoDB: dead letters | publish, receive, ack, nak, quarantine | redelivery, lost confirmations, an exhausted budget | nothing leaves the consumer without a lasting result; everything leaves it |
| SQS bus `event_bus.py` | queues, idempotency claims | publish to each queue, claim, complete, release, heartbeat | lease of the claim against visibility of the message; an exception ends the loop | the fan-out is complete; an event is handled once at a time, and eventually |
| Operations `operations_service.py` | dead letters, re-drive claims | re-drive a dead letter | four calls, any may fail; the operator repeats | a request re-drives once; marked only after publication |
| Eval Agent `eval_service.py` | decision, confirmed event, band, outbox row per candidate | handle a candidate, drain the outbox, force a redelivery | read–evaluate–write without a condition; two actors on one outbox row; crash between calls | an approved disruption is never lost, a decision is final and is what was published |
| Notification action `notification_action_service.py` | one action record per decision, a reverse index by provider id | handle a confirmed event | a record read first and overwritten last; submissions with unknown outcome | one decision is one SMS; acked only if an SMS can be found |
| Notification provider `notification.py` | receipts, in the MCP's memory | `send` | restart, timeout after POST | as above |
| Webhook `notification_webhook.py` | the same action records | reconcile a callback | callbacks reordered, repeated, concurrent, early | a record only advances |
| Flight search action `flight_search_action_service.py`, `flight_search.py` | one search record per decision | handle a confirmed event; rank offers | a shared stream with two verdicts; redelivery over a result; offers cut before they are judged | only a verdict that allows it is searched for; what is offered can be flown and nothing better was there |
| Monitoring Agent `monitoring_flow.py` | last observation and weather per leg, candidate outbox | poll, drain | read–compare–write, stale provider times, a poll cut in the middle | a stored candidate is published; no change is taken for known |
| Flight agency `flight_agency_service.py` | simulated flights with revisions, in memory | seed, mutate, reset | a restart reuses revisions | an observation id identifies a state |
| Monitoring store `monitoring_store.py` | all DynamoDB items above | transactions, compare-and-set, unconditional puts | which writes carry a condition | as its users' |
| Trip scheduler `trip_orchestrator.py`, `trip_store.py` | Postgres: trips, legs with due time and lease, runs | claim, complete, fail a poll | leases that expire under a slow tick; READ COMMITTED; crash while holding leases | the schedule only moves forward, due legs are polled |
| Trip activation (same files, `api.py`, `document_store.py`) | a trip's rows, the stored document | activate | check-then-insert, document stored before the row, clients that repeat | one trip per id, of one document, whole |
| Document Agent `flow.py`, `parser.py`, `itinerary_llm.py`, `ocr.py` | none | parse | OCR and model fallbacks, errors of the model's data | no leg without evidence; the unreadable goes to review |
| Communication Agent `disruption_explanation.py` | none | word a disruption | free text of a model | only stored facts are told |
| Provider adapters `weather.py`, `flight_status.py` | none | normalise an answer | thresholds, missing fields, the nearest forecast | worse weather is never a lower risk; a delay is seen |
| Replay evaluation `travel_eval/engine.py`, `metrics.py`, `runner.py` | none that others read | replay, measure, gate | order of receipt, stale evidence, rates of nothing | old evidence is no news; the policy passes its own gates |
| Telemetry, API pass-through, UI, stubs, commands | none that others read | — | — | — |

They interact by messages (the two subjects), by DynamoDB items two services
both write (the action record: action service and webhook; the outbox: handler
and drain), by Postgres rows two workers both write, and by request/response
(MCP, A2A, HTTP), where the answer may be lost after the effect.

## Modules and the code they model

| Module | Role |
|---|---|
| `SuppressionPolicy` | the policy as pure operators (`Evaluate`, `SeverityBand`, `BandAfter`) |
| `EventDelivery` | what every JetStream consumer does around its own steps; shared by INSTANCE |
| `EvalContract` | what the Eval Agent promises, without messages, tables or failures: the abstract specification |
| `EvalAgent` | the Eval Agent on `EventDelivery` and `SuppressionPolicy`; implements `EvalContract` |
| `NotificationAction` | action service, Twilio provider and webhook on `EventDelivery` |
| `FlightSearchAction`, `FlightSearchRanking` | the search service on `EventDelivery`; the provider's cut and the ranking as operators |
| `SqsEventBus`, `OperationsRedrive` | the SQS transport; the operations service above it |
| `FlightAgency`, `CandidateRules`, `MonitoringPoll` | the simulated agency; what counts as a change; the Monitoring Agent over both |
| `TripScheduler` | claim / poll / complete / fail against Postgres |
| `DocumentParsing`, `TripActivation` | the path a document takes, as an operator; the activation over it |
| `WeatherForecast`, `FlightStatus`, `DisruptionWording`, `ReplayEvaluation` | rules without state, as operators |
| `Ordering` | the order in which Python's stable sort leaves a list; used by the ranking and the replay |
| `MCEvalAgent`, `MCNotificationAction`, `MCFlightSearchAction`, `MCOperationsRedrive`, `MCMonitoringPoll`, `MCTripScheduler`, `MCTripActivation`, `MCAgentRules` | constants for TLC; the last also applies the rules to bounded inputs |
| `EvalAgent_proofs`, `NotificationAction_proofs`, `FlightSearchAction_proofs`, `OperationsRedrive_proofs`, `MonitoringPoll_proofs`, `TripScheduler_proofs`, `TripActivation_proofs` | theorems about the module each is named after, with those it extends |
| `AgentRules_proofs` | theorems about the rules, for every input, and about `MCAgentRules` |

The definitions whose comment begins with *Mutant* are not part of any
specification: each is a definition changed the way a plausible bug would
change it, kept beside the original to show that a property notices.

**Steps.** A step of a handler is one call it makes: a DynamoDB read or
transaction, a publication, an acknowledgement, an MCP call. Between two steps
anything else may happen: another process, the broker's timer, a crash. Each
call may raise before its effect or, where it has one that outlives the call,
after it (the reply is lost). `faults` counts these events, so that a run
explores every placement of a few of them.

**EventDelivery.** `message` and `deliveries` are what the broker knows:
unpublished, available, in flight, acknowledged, terminated, or `exhausted`
(delivered `max_deliver` times and not settled: the broker keeps it but never
offers it again). `call[r]` is the callback process *r* is in; nats-py runs the
callbacks of a subscription one at a time. `Receive` includes `decode_envelope`;
`RetryOrQuarantine`, `PutDeadLetter` and `Term` are `retry_or_quarantine` and
`quarantine_message`. `ErrorPathRaises` is an exception inside an exception
handler; `GuardedSettlementRaises` is the same call made inside the try block,
as the action services do when they settle a failed or rejected record.

**EvalAgent.** `decision`, `confirmed`, `band` and `outbox` are DynamoDB items,
`stream` the confirmed subject. `CheckDecision`, `EvaluateCandidate`, `Commit`,
`PublishConfirmed`, `DeletePublished` are the calls of
`process_candidate_message` in order, `PublicationFails` its inner
`except: pass`, `StepRaises` its outer one. `ListOutbox` … `DrainAborts` are
`publish_pending_outbox`; `batch` and `drained` are the loop's locals, which
outlive what they were read from. `ForceRedelivery` is the reliability
endpoint. A message id the broker has already seen is dropped inside its
duplicate window and stored after it: `Publish` allows both. The advisory model
runs between evaluation and commit and never changes either, so it is part of
`Commit`'s delay and nothing else.

**NotificationAction.** `record` and `index` are DynamoDB items; `receipts`
the MCP's memory; `sms` and `carrier` what Twilio knows; `hook` the webhook's
concurrent requests. `LookUpRecord`, `VerifyDecision`, `ResolveRecipient`,
`Send`, `PutNotification` are the calls of `process_confirmed_event`;
`SendFails` and `SendTimesOut` its two ways to fail, the second with an SMS that
may exist. Statuses keep the order `_PROGRESS_RANK` gives them. Provider replies
to a submission carry the status `queued`. `ExplainDecision` is the step that
composes the wording: what it says is `DisruptionWording`'s, here only whether
the request for it can be made.

**SqsEventBus.** `copy` is what SQS knows of each message: state, receive
count, who received it last, and which publication it came from. A receiver is
one process's `_poll` loop, step by step: `Receive` takes a batch, `Claim` is
the conditional put of the idempotency table with the read that follows a
refusal, `RunCallback` the consumer's own work, `Complete`, `Delete`, `Release`
and `MakeVisible` the calls of `SqsMessage` that settle. `poll[r].guard` records
what encloses the step – the consumer's try block, the loop's, or nothing – and
so where `CallRaises` goes (`Escape`); out of the loop the receiver is
`stopped` while its process lives on. `VisibilityExpires`, `LeaseExpires` and
`MoveToNativeQueue` are the clocks of SQS and of the claims.

**OperationsRedrive.** `call[o]` is one operator's HTTP call in the steps of
`redrive_dead_letter`: read, claim, publish, mark, finish. It extends the SQS
transport, so that the event it publishes is received, retried and perhaps
dead-lettered again between two of its steps. With JetStream the service does
the same calls.

**FlightAgency, CandidateRules, MonitoringPoll.** The agency's record is a
revision, a time and the operational facts; each operation holds its lock and is
one step. A poll is `FetchEvidence`, the two reads, the comparison (`Evaluate`,
local), then `StoreCandidate` – `PublishCandidate` – `Unqueue` when something
changed, and `PutFlight` – `PutWeather`; any of them may be the last (`PollEnds`).
`Stale` evidence of the flight is set aside while the weather of the same poll
counts. `EventId` is `_event_id`: the digest's inputs, in a form that is equal
when they are. `torn` and `reported` are history that no step reads: whether a
poll was cut after it stored its candidate or began beside another one, and the
facts told last.

**FlightSearchAction, FlightSearchRanking.** The steps of
`process_search_event` on `EventDelivery`: the verdict first, then the record,
the authority, the observation, the provider, `PutSearch`. An outcome is what
`ProviderSearch` (normalise, sort, cut) and `RankFeasibleOptions` make of an
answer; the record also keeps the offers it was made from, which the code does
not, to say that none was better. `overlapped` is history.

**TripActivation, DocumentParsing.** A call is one upload through the API, the
orchestrator, S3 (`HeadObject`, `PutObject`), the Document Agent (`Parse`, whose
result `DocumentFlow` computes from what the document contains and what the
model answers), Postgres (`Save`, one transaction with ON CONFLICT DO NOTHING)
and the read back. A failure anywhere is 502, and the client may ask again.

**TripScheduler.** `leg`, `trip`, `runs` are the tables, `worker[w]` the tick a
process is in with the one clock reading it uses throughout. `claim_due_legs` is
one statement (`Claim`). `complete_poll` is a READ COMMITTED transaction: its
rows are locked from `BeginComplete`, its `NOT EXISTS` sees what was committed
when it ran (`CheckTrip`), its effect appears at `Commit`. Both updates of a leg
carry the guard `next_poll_at = due_at` (`Applies`). `Abandon` is a crash, or an
exception of `fail_poll` that ends the tick; either leaves legs leased.

**Rules.** `WeatherForecast` (which forecast step, which risk), `FlightStatus`
(which record, which observation), `DisruptionWording` (which sentence is let
through) and `ReplayEvaluation` (the loop over a scenario, and the metrics) are
operators. `MCAgentRules` takes an input as its initial state and applies the
rule in its one step.

**EvalContract.** `Decide` writes a decision and its episode's band in one step,
by the policy; `Announce` publishes what is approved, as it was decided. The
refinement maps `announced` to the confirmed stream and keeps the other names;
the handler's reads, retries, dead letters, drain and crashes are stutters.

## Runs

| Run | Instance | Shows | States |
|---|---|---|---|
| `eval` | 1 process; delays 30, 89, 90 min; 5 messages, one repeated, one unreadable; 3 deliveries; 2 faults | types, `NoApprovedEventLost`, `SettledOnlyWithResult`, `SearchNotMasked`, `ImplementsContract` | 1.4 M |
| `eval_live` | 2 processes; one candidate published twice; 2 deliveries; 1 fault | `EveryMessageSettled`, `ApprovedEventsPublished` | 33 k |
| `eval_two_decisions` | 2 processes, one message | violates `DecisionIsFinal`, [see below](#where-code-and-documents-differ) | — |
| `notification` | 1 process, 1 webhook request; 2 messages of one decision; 3 deliveries; 2 faults, 1 MCP restart, 1 unanswered submission | types, `SettledOnlyWithResult`, `EveryEventSettled` | 250 k |
| `notification_once` | 2 processes, 2 webhook requests; 2 messages of one decision; 2 deliveries; 1 fault, 1 MCP restart | `RepeatsAccountedFor`, `CallbacksOnlyAdvance` | 629 k, up to symmetry |
| `scheduler` | 2 workers, 2 legs of a trip, one of them overnight, 7 instants, 1 fault | types, `ScheduledWhileActive`, `DepartureCovered`, `TripNotCompletedEarly`, `ScheduleAdvances` | 1.6 M |
| `scheduler_solo` | 1 worker, one leg per tick, the same 2 legs, 8 instants, 2 faults | `DueLegsPolled` | 63 k |
| `sqs` | 1 event, 2 queues, 2 receivers at one of them, 3 copies, 2 deliveries, batches of 2, 1 fault; 2 operator calls of one request | `DeletedOnlyWithResult`, `FanOutComplete`, `OneRunAtATime`, `RedrivenOncePerRequest`, `MarkedAfterPublication`, `EventsSettled` | 924 k |
| `monitoring` | 1 poll at a time and the drain; 3 revisions of 3 states of a flight, a thunderstorm or no forecast; 1 fault | `CandidateNotLost`, `NothingSwallowed`, `IdNamesOneState`, `CandidatesPublished` | 376 k |
| `search` | 2 processes; 3 messages of 2 decisions; 4 answers of up to 4 offers, 2 kept; 2 deliveries; 1 fault | `NotifyOnlyLeftAlone`, `NothingBetterOffered`, `ResultKept`, `EveryEventSettled` | 51 k |
| `activation` | 5 uploads for 1 trip, 2 travellers, 2 documents; 3 answers of the model; 1 failure | `EvidenceStored`, `RowOfOneUpload`, `OneActivation`, `UploadsAnswered` | 328 k |
| `rules` | every forecast step, record pair, scenario and sentence of small sets | `WorseWeatherNeverLowersRisk`, `NewDelayIsReported`, `ReplayTellsOnce`, `OnlyFactsTold` | 45 k |

What the properties say, beyond their names:

* `NoApprovedEventLost`, `CandidateNotLost`: from the commit on, an event is a
  publishable outbox row or on the stream. The handler and the drain both delete
  rows; neither deletes one that was not published.
* `SettledOnlyWithResult` (Eval): acknowledged ⇒ decision stored, terminated ⇒
  dead letter stored. (Notification): acknowledged ⇒ an SMS exists *and* its id
  is indexed, so that callbacks find it. `DeletedOnlyWithResult` is its
  counterpart on SQS.
* `ImplementsContract`: whatever the transport does, one process decides each
  candidate once, in the order of some sequence of atomic decisions, and
  publishes exactly what it stored – what the action services verify.
* `SearchNotMasked`: bands are coarser information than verdicts; a disruption
  that warrants a search is suppressed as a repeat only after one did search.
* `CallbacksOnlyAdvance`: whatever a webhook request writes is further along
  than what it overwrites, also when the consumer replaced the record between
  the request's read and its compare-and-set.
* `RepeatsAccountedFor`: the receipts are in the memory of one process, and the
  consumers' records are overwritten unconditionally; a traveller told twice is
  still accounted for by a restart or an unanswered submission, one for one.
* `DepartureCovered`: an interval of `next_poll_time` chosen before the departure
  ends at most ten minutes after it, also when the worker's reading of the clock
  is old or its poll failed. The exception is in the property: two hours after
  its stored arrival a leg is not monitored, departed or not.
* `ScheduleAdvances`: a worker whose lease is long gone, and whose clock reading
  is old, never moves a leg's next poll back.
* `OneRunAtATime`: the claim keeps two receivers from one event although copies,
  re-drives and visibility timeouts give it to both; only a lease that ran out
  under a receiver, or a settlement that raised and released twice, lets them in.
* `EventsSettled`: the queue's own dead-letter queue, which the service never
  looks at, receives an event only after a fault.
* `NothingSwallowed`: at rest the stored observation says what was told last, so
  that the next comparison finds every change, a way back included.
* `IdNamesOneState`: the Eval Agent decides an id once; what an id made of a
  revision stands for must therefore be one thing.
* `NothingBetterOffered`: the cut keeps the earliest arrivals before anything is
  judged; the first alternative still arrives no later than any offer that could
  be flown, kept or cut. Sorted by price it would not.
* `RowOfOneUpload`, `OneActivation`: insert races mix nothing; of all callers one
  is told that it activated the trip, and the row is what that one sent.
* `ReplayTellsOnce`: a candidate compares an observation with one received before
  it and of an earlier time, so that evidence which arrives late is news to
  nobody; and no scenario notifies a severity twice or acts on a suppressed
  decision, as the release gates ask.

### Bounds

* `MaxFaults`: two faults are what an error inside an error path needs; the
  liveness runs have fewer faults than deliveries, because with as many the
  property fails (see [below](#where-code-and-documents-differ)). In `sqs`,
  `monitoring`, `search` and `activation` one fault at every place is what the
  state space allows.
* `MaxDeliveries` is `EVENT_MAX_DELIVERIES` (5 by default), here 2 or 3: first,
  middle and last attempt are the three cases `retry_or_quarantine` has. On SQS
  it is also the queue's `maxReceiveCount`, as the deployment sets it.
* Candidates: delays of 30, 89 and 90 minutes are the lowest notification, the
  highest notification and the lowest search; the first two share a band.
* `Sid`: in `notification_once`, which has one restart, one more id than the SMS
  a correct run creates, so that one too many is possible. `CarrierStatus`: one
  progress, one failure.
* `MaxRestarts`, `MaxTimeouts`: one each is enough to lose the receipts or leave
  a submission unknown. `notification_once` has the restart only; with both it
  takes longer than minutes, and `RepeatsBounded` is the general statement.
* `notification_once` identifies states that differ by a permutation of the
  processes, of the webhook requests or of the two messages: no property or
  definition names one of them, both messages carry the same event, and the run
  checks no liveness.
* `MaxCopies`: three is the outbox's copy and one of each operator's call, so
  that a second re-drive of one request is possible where it is forbidden.
* `MaxRevision`: three states in a row are a change and a change back.
  `OutboxLimit` is the code's 20; the candidates of the instance never fill it.
  One poll at a time: two that overlap exceed what TLC finishes in minutes, and
  `NothingSwallowed` says nothing of them.
* `Answer` (search): an answer sorted otherwise by price, one with a connection
  too short by a minute, one of refused offers only, one that cannot be read.
* `Call` (activation): the five kinds of upload; a repetition after a failure is
  the same call again.
* `Instant`: the readings of the clock, in minutes. With a lease of 2, a retry
  delay of 5 and an interval of 10 minutes they let a lease expire under a
  worker, and a retry and a next poll come due. A fault needs a clock that can
  still outlast a lease.
* The timetable: one leg departs at 12 and arrives at 100, so that polls before,
  at and after its departure are reached, and the end of its monitoring at 220;
  the overnight one departs at 850 and has its arrival at −110 as the parser
  stores it, so that its monitoring ends at 10, long before it departs.
* `rules`: codes, winds and visibilities at both sides of every threshold; delays
  inside, at and beyond the contract; four observations, of which one may be old
  and two swapped.

The deadlock check is on for `EvalAgent`, whose drain loop never stops. It is
off elsewhere: Twilio has no more ids to give or no callbacks to send, the
scheduler's clock ends at its last instant, an event is settled and nothing is
published after it, every upload is answered, a flight is at its last revision
with nothing new to poll, and a rule is applied once.

### Fairness

`EvalAgent`, `NotificationAction`, `FlightSearchAction`: weak fairness of each
process's handler, drain loop and webhook request (asyncio runs them as long as
the process lives, and a process that stopped is restarted by its container's
policy), and of the broker's acknowledgement timer. Publications, faults,
crashes, revocations and the carrier are not required to happen.
`TripScheduler`: weak fairness of the clock and of each worker's tick, which
`schedule_loop` repeats for ever. `OperationsRedrive`: of the publisher's loop,
the timers and each receive loop; a loop that is over is not restarted, and no
operator has to call. `MonitoringPoll`: of the scheduler's repeated poll and of
the drain. `TripActivation`: of the handler and of a client that repeats a
request that failed; without the latter an upload may end in an error.

## Proofs

`tlapm M_proofs.tla` checks every obligation of a module; the eight modules are
`EvalAgent`, `NotificationAction`, `FlightSearchAction`, `OperationsRedrive`,
`MonitoringPoll`, `TripScheduler`, `TripActivation` and `AgentRules`, each with
`_proofs`. A theorem holds for every value of the constants that satisfies the
ASSUMEs named with it. These say that `None` and the other markers (`Unreadable`,
`Absent`, `Outbox`) are no values of what they stand beside, that bounds are
natural numbers, and what the tables given as constants contain; what they say
beyond that is noted below. Where a theorem needs more – one process, one worker –
it is a hypothesis of that theorem, because the code does not guarantee it.

Type invariants come first. `TypeOK` alone is inductive in none of the modules: a
delivery count stays within its bound only because a message still offered has
deliveries left, and a call's message is a message only because the step it has
reached implies that it holds one. Each proof states what a step of a callback
implies about its locals (`Holding`, `Equipped`, `Engaged`, `Prepared`).

**Eval Agent** (`EvalAssumption`, `FactAssumption`, `ThresholdAssumption`).

* `TypeCorrect`: `Spec => []TypeOK`.
* `ApprovedIsKept`: `Spec => []NoApprovedEventLost`. The invariant is
  strengthened by what the actors hold in memory: a handler about to delete a
  row, and a drain loop that has published one, have put an event of that
  candidate on the stream. Nothing is ever taken off the stream, so a row is
  deleted only when the second disjunct holds.
* `SettledWithResult`: `Spec => []SettledOnlyWithResult`, strengthened by what
  each step of a callback already knows: at `ack` the decision is stored, at
  `term` the dead letter is. These hold for several racing processes although
  the decision itself may be replaced; that the run `eval` uses one process is
  no restriction for them.
* `ImplementsWithOneReplica`: with one process, `Spec => ImplementsContract`,
  step by step: a commit is a `Decide`, a publication a stutter or an
  `Announce`, everything else a stutter. It needs that what a callback computed
  is still true when it commits (`Deciding`: the candidate is undecided and the
  band it read is the stored one), and that every place from which an event is
  published holds what was decided (`AsDecided`: the confirmed item, the outbox
  row, the drain's batch, the callback). Two processes break the first
  conjunct; that is the counterexample of `eval_two_decisions`.
  `FinalWithOneReplica` is the same argument for `DecisionIsFinal`.
* `SearchReached`: with one process and `SearchDelay = 90`,
  `Spec => []SearchNotMasked`. An episode's highest band is put there by a
  search (`SearchBacked`). That is so because the search threshold of the policy
  file (`suppression_policy.v1.json:9`) is the literal 90 that `severity_band`
  has for the highest band; with another threshold a notification without a
  search may occupy the band, and the statement is false.

**Notification** (`NotificationAssumption`, with it that a status of Twilio is
not `None`).

* `NotificationTypeCorrect`, and `ActionSettledWithResult`:
  `Spec => []SettledOnlyWithResult`. The invariant links three stores: an
  indexed id, a receipt and a record about to be put name SMS of their decision
  (`Linked`); a record in a status that counts as done has one that is indexed
  (`DoneIndexed`), whichever of consumer and webhook wrote it last.
* `RepeatsBounded`: `Spec => []RepeatsAccountedFor`, for any number of processes
  and any number of restarts and submissions without an answer. At most one SMS
  of a decision is on a receipt, and the others are no more than the restarts and
  timeouts so far (`Counted`): a restart takes a receipt away and creates no SMS,
  an unanswered submission creates at most one and leaves the receipts alone, and
  a submission with an answer finds no receipt and puts one there
  (`CountsChange`).
* `WebhookOnlyAdvances`: `Spec => CallbacksOnlyAdvance`. A request about to
  write has compared the callback with the record it expects, and the write is
  conditional on that record (`WritesAdvance`).

**Flight search** (`SearchAssumption`, `RankingAssumption`, `AnswerAssumption`:
a usable offer has whole times, a price that is a number or missing, and a
segment, as `flight_search_contracts.py:46-79` demands).

* `SearchTypeCorrect`; with it, that behind the check of the verdict a callback
  works on a decision to search.
* `NotifyOnlyUntouched`: `Spec => []NotifyOnlyLeftAlone`. Without a fault no
  callback of such a decision is ever on a way to quarantine (`Untroubled`).
* `ResultStays`: `Spec => ResultKept`. Two callbacks behind the verdict of one
  decision have met (`Apart`), and one that met no other has found no result
  that is still on record (`FoundNone`).
* `BestOfferKept`: `Spec => []NothingBetterOffered`. The sort is the operator
  `Sorted`: the n-th position is the one with n − 1 before it. `SortedEnumerates`
  proves, for every finite set and every key, that this is a list of all
  positions, each once, in order: "earlier" is a strict total order (two keys
  differ first somewhere, `BeforeFirst`), so each position has more before it
  than any it follows, and an injection of a finite set into as many places
  fills them. Then an offer that was cut arrives no earlier than any kept
  (`KeptOptions`), the code's gates admit exactly what `Flyable` states
  independently (`FeasibleIsFlyable`, `FlyableIsFeasible`), and the first of the
  ranked arrives no later than any of them (`RankingLosesNothing`, for every
  answer). What is stored with a completed search is such a ranking.

**SQS and re-drive** (`SqsAssumption`).

* `RedriveTypeCorrect`; `NoEventLost`: `Spec => []DeletedOnlyWithResult`, by
  what a complete claim and a receiver that settles imply (`ResultInv`);
  `FanOut`: `Spec => []FanOutComplete`; `MarkedAfter`:
  `Spec => []MarkedAfterPublication`.
* `RedrivenOnce`: `Spec => []RedrivenOncePerRequest`. The claim of a request is
  a ticket: at most one call holds it, and it is spent by the copy that carries
  the request's name (`OnceInv`).
* `OneRun`: `Spec => []OneRunAtATime`. Unless a lease ran out or a call of a
  receiver raised, a receiver between claim and settlement owns a claim that is
  neither expired nor another's (`OwnerInv`). The condition is part of the
  property: without it the claim is not fenced by an owner.

**Monitoring** (`MonitoringAssumption`, `AgencyAssumption`; with them, that two
different facts of a flight differ in a field `ChangedFields` compares).

* `MonitoringTypeCorrect`; `NoCandidateLost`: `Spec => []CandidateNotLost`.
* `IdOfOneState`: `Spec => []IdNamesOneState`, by the consistency of all that is
  remembered of the flight: nothing is newer than the agency's revision, of two
  observations the later has the greater id, and an id has one state
  (`Consistent`).
* `ComparedWithTold`: `Spec => []NothingSwallowed`. One poller is at work at a
  time; each of its steps relies on what `Sound` says of it, and what the stream
  names is not newer than the stored observation, but for the poll's own
  candidate (`AloneAtWork`). `torn`, the condition of the property, also covers
  polls that overlap.

**Trip scheduler** (`SchedulerAssumption`).

* `SchedulerTypeCorrect`, `LegsStayScheduled` (`[]ScheduledWhileActive`) and
  `ScheduleNeverGoesBack` (`Spec => ScheduleAdvances`). The invariant adds that
  every attempt a worker holds was due at the clock reading it still uses. If
  the guard on the due time then admits the worker's update, the leg's due time
  is at most that reading, and both `now + 5` and `NextPoll(leg, now)` lie after
  it.
* `TripNotEarly`: `Spec => []TripNotCompletedEarly` for any number of workers.
  Transactions on one attempt exclude each other by its row lock (`Exclusive`);
  and what a worker saw of the other legs before it completes the trip is still
  so when it commits, because nothing reopens a completed leg (`Settled`).
* `TripFollowsWithOneWorker`: with one worker, and a leg in every trip,
  `Spec => []TripFollowsLegs`. With one worker the answer of the check is exact
  in both directions (`Exact`); with two it is not, which is the write skew
  [below](#what-the-code-does-not-promise).
* `DepartureObserved`: `Spec => []DepartureCovered`, for every timetable. The
  intervals end at most ten minutes after the departure from any reading of the
  clock before it (`IntervalsStopAtDeparture`), no worker's reading is ahead of
  the clock (`NotAhead`), and a due time or a completion a worker leaves follows
  from one or the other. `MonitoredUntilDeparture`: a leg whose stored arrival is
  at most two hours before its departure is monitored until it departs. For
  overnight legs the hypothesis is false, and so may be the conclusion.

**Trip activation** (`ActivationAssumption`, `ParsingAssumption`: blocks and
legs are finite sequences, a model's answer is one of four kinds).

* `ActivationTypeCorrect`; `EvidenceFirst`: `Spec => []EvidenceStored`: a call
  past `put_pdf` has its object in S3, where nothing is overwritten or deleted.
* `OneCallActivates`: `Spec => []OneActivation`: an answer that is no replay
  comes from the call whose insert won, and one call wins (`ActivationInv`).
* `RowFromOneUpload`: `Spec => []RowOfOneUpload`: what a call is about to save
  is explained by one answer to its own document (`RowInv`).
* `NoLegWithoutEvidence`, for every document and every answer: legs are printed
  in blocks that are all legible, of airports with a known zone, or claimed by an
  answer whose every leg is confident, evidenced, timed and lasts from one minute
  to 48 hours; anything else yields no leg. Only the claimed ones are in the order
  of time: see the overnight flights [below](#where-code-and-documents-differ).
  `ActiveOnEvidence`: `Spec => []LegsEvidenced`, the same of every active trip
  and, of a trip in review, that it has no legs. This one is no property of a run:
  it follows from `RowOfOneUpload`, which is.

**Rules** (`NoneAssumption`, `AnswerAssumption`). The general theorems are about
the operators, for every input and not those of the run: `WorseIsNoSafer` (all
winds, visibilities and codes), `NewDelayReported` (all pairs of records with
schedules, whatever else differs between them), `ToldFromEvidence` (all events,
candidates and answers) and `EachTurnSound`: any turn of a replay keeps that the
notified keys are distinct, that each is by a decision that is not suppressed,
and that every such decision notifies. For the last the invariant adds that the
policy's memory has caught up with every key that was notified (`Remembered`).
`WorseWeatherRun`, `NewDelayRun` and `OnlyEvidenceTold` derive the properties of
the run `rules` from them, adding the choice of the forecast step and of the
record.

`EverySuitePasses` goes from one turn to whole evaluations: any number of
scenarios of different trips, as the recorded ones are, of any length and in any
order of receipt, fail no release gate when they are measured against themselves,
unless none of them notifies. Measured so, three of the five measures are one by
themselves; what is proved is that no key repeats anywhere in the suite, that no
notification lacks its authority, and when the rates have no denominator. The
loop of a replay and the sums of the metrics are recursive functions. That a
function satisfying such a definition exists is shown by a least counterexample (`LoopExists`, `SumsExist`), and what its values keep is
carried along it (`LoopSound`, `UpTo`). One thing more is carried: after *k* of
the observations received, what is known of a leg is one of these *k*, and every
candidate compares two of them of which the later one is news (`Forward`,
`EachTurnForward`). The keys of a sound replay are as many as
its notifications and carry its trip (`SoundCounts`), so over the suite the
union has as many keys as all lists together (`UnionTotal`) and nothing counts as
repeated. `ReplayRun`: `Spec => []ReplayTellsOnce` is the suite of one scenario,
with the order of its candidates.

Only model-checked are the liveness properties – `EveryMessageSettled`,
`ApprovedEventsPublished`, `EveryEventSettled`, `EventsSettled`,
`CandidatesPublished`, `DueLegsPolled`, `UploadsAnswered` – since fairness and
`ENABLED` are out of the prover's reach. Every other property of a passing run
has its theorem, some with a condition that is part of the statement: one Eval
process for `ImplementsWithOneReplica`, `FinalWithOneReplica` and
`SearchReached`, one worker for `TripFollowsWithOneWorker`. Induction is used
concretely, over the natural numbers and from the library's well-foundedness of
`<`; its induction theorems take an operator as a parameter, which the provers
cannot instantiate.

## Where code and documents differ

The run `eval_two_decisions` ends in a counterexample; the others were found the
same way, by checking the property named by the document, or are read off the
model.

* **One decision.** "One decision per candidate/version"
  (`travel_eval/docs/failure-chaos-matrix.md:19`). The acknowledgement deadline
  passes while a process evaluates; a second one evaluates the same candidate;
  the first commits NOTIFY and its band; the second, depending on when it read
  the band, commits SUPPRESS over it. The published event no longer matches the
  stored decision and the action services reject it. This is the run.
* **The last delivery.** A valid event that exhausts its budget "is stored under
  a consumer-specific dead-letter partition" (`docs/vertical-slice-08.md:82`).
  `max_deliver` equals the attempt on which the handler would store it, so a
  process that stops on that attempt leaves a message nobody is offered again.
* **Rows without payload.** "Require zero pending outboxes"
  (`docs/vertical-slice-08.md:112`). The drain loop lists a row, the handler
  publishes and deletes it, the drain's publication fails, and
  `note_outbox_failure`, an update without a condition, creates a row without
  payload. `list_outbox` skips it, `outbox_count` counts it.
* **Terminal records.** "Reuse terminal action records"
  (`failure-chaos-matrix.md:51`). A record whose delivery failed is not taken
  for done; a duplicate of the event finds the receipt and overwrites
  `undelivered` with `duplicate`, `queued`.
* **Early callbacks.** The webhook "atomically advances its durable DynamoDB
  state" (`docs/vertical-slice-14.md:7`). A callback that overtakes
  `put_notification` finds no reverse index, is answered 204 and is not repeated.
* **One owner.** "One owner per claimed leg" (`failure-chaos-matrix.md:47`).
  A tick polls up to `maximum_legs` legs one after another under leases taken at
  its start; a poll has timeouts but the tick has none, and two workers can poll
  one leg at once. `scheduler` shows that the schedule survives it.
* **Wording never blocks.** `explain_disruption` words "without ever blocking"
  (`disruption_explanation.py:413`, `docs/vertical-slice-17.md:35-37`), but the
  request for it is made before: a delay beyond the contract's 2880 minutes
  makes `_explanation_request` raise, and the event is retried and dead-lettered
  without an SMS. A weather risk `high`, which the policy knows and the contract
  does not, is left out of the facts.
* **Model output fails closed.** "Any failure still requests human review"
  (`README.md:157-161`, `docs/vertical-slice-16.md:46-48`). A time without its
  offset raises `ValueError` in `resolve_review_with_llm`, which the flow does
  not catch: the activation is answered 502. In the model, `Raised`.
* **Overnight flights.** `structure_itinerary` takes both times of a block on its
  one date (`parser.py:102-107`): a flight past midnight arrives before it
  departs, and its monitoring is over two hours after that arrival, often before
  it departs, against the intervals of `docs/vertical-slice-07.md`.
  `DepartureCovered` has it as its second case.
* **Repeated activation.** A repetition must be "the same trip, traveler, and
  PDF" (`docs/vertical-slice-07.md:46-48`), which the lookup checks; a call that
  loses the insert afterwards compares the digest only
  (`trip_orchestrator.py:169-176`), and another traveller's form is answered as
  already active. `OneActivation` still holds: nothing of it is stored.
* **Stale observations.** "An older or duplicate source event is ignored"
  (`docs/vertical-slice-03.md:112`): by the poll that sees it; of two polls that
  overlap the one with the older evidence may store it last, because
  `put_last_observation` has no condition.
* **Failed again.** An event that fails again after its re-drive should be an
  active dead letter again (`docs/vertical-slice-09.md:229-230`); when it fails
  before `mark_dead_letter_redriven` is called it stays marked re-driven.

## What the code does not promise

Seen while modelling, each by running a property outside the instance its run
is restricted to:

* One confirmation per severity band with two Eval processes: both read the band
  before either writes it.
* One SMS per decision, with an MCP restart: a record that is missing or `failed`
  is sent again, and the receipt is gone. With an unanswered submission: if
  recording the failure raises, the message is retried rather than quarantined,
  and no receipt remembers the first submission. `RepeatsAccountedFor` is what
  remains: one more SMS for each of these events, and for nothing else.
* A confirmed event whose wording cannot be requested, when the process stops on
  its last delivery, is neither sent nor dead-lettered.
* `TripFollowsLegs` with two workers: two transactions complete the last two
  legs, each seeing the other leg still active, and the trip stays active.
* An Eval candidate whose decision exists is acknowledged without looking at its
  confirmed event; that it still reaches the stream rests on the outbox
  (`NoApprovedEventLost`) alone.
* On SQS a lease that runs out under a slow callback lets a second receiver run
  it; the first one's release then removes the second one's claim.
* `NothingSwallowed` after a poll that was cut once its candidate was out: the
  flight returns to what was stored, the next poll finds no change, and the
  traveller keeps the old news. After the agency lost its records: a revision
  counted anew makes ids that were decided before, and `IdNamesOneState` fails.
  A candidate named by the flight may carry the weather of one poll only.
* A search whose early offers are all infeasible may end `no_options` although
  feasible ones lay behind the cut. The window of twelve hours may pass
  midnight; the provider is asked for the departure date.
* A document sent to review is never parsed again; a crash after the insert
  leaves a trip without its trace context; a document of an upload that lost
  stays in S3; a trip that is completed is still answered `already_active`.
* A buffer of −20 minutes cannot be stated by the model: the check compares
  digits, and `20` is no stored figure. A replay without any notification fails
  the gate on duplicates, because the rate of nothing counts as one.

## Not modelled

* Telemetry (`telemetry.py`, `otel_sink_stub.py`): nothing reads it.
* The Streamlit interface and the endpoints of `api.py` other than the
  activation: they pass requests through and present answers.
* The stubs of external services and the command-line tools, which are test
  equipment; the recording notification provider and the replay and fixture
  providers, which send or ask nothing.
* HTTP, A2A and MCP envelopes (`travel_tools_mcp.py`, the `*_client.py` modules):
  a call has an answer or raises, before or after its effect, and that is in
  every module that makes one. Authentication of the tools precedes the handlers.
* Text: PDF extraction, the patterns of the parser, phrasing and prompts. Where a
  property depends on text, the model keeps what the check looks at.
* The advisory of the Eval Agent, which never changes a decision; the score of a
  candidate, which nothing decides on.
* Endpoints that only read: health, audits, listings, verifying a document. The
  tick endpoint's caller-supplied clock, a test control.

## Plan

1. An outbox of its own with more rows than `list_outbox` reads, and two polls of
   a leg that overlap, each on an instance reduced for it.
2. The safety half of the liveness properties: that no step of a callback loses
   what a later one waits for.
3. The window of a search that passes midnight, with dates as data of the
   provider's request.
