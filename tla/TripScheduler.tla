---------------------------- MODULE TripScheduler ----------------------------
(***************************************************************************)
(* The durable scheduler: workers (Trip Orchestrator processes) claim due  *)
(* legs in Postgres under a lease, have the Monitoring Agent poll them one *)
(* after another, and complete or fail each scheduled attempt              *)
(* (flight_agent/trip_orchestrator.py, flight_agent/trip_store.py).        *)
(*                                                                         *)
(* Time is in minutes.  A worker uses one reading of the clock, taken when *)
(* its tick begins, for everything it does in that tick.  claim_due_legs   *)
(* is one statement; complete_poll is a READ COMMITTED transaction whose   *)
(* statements see what was committed when each of them began.              *)
(***************************************************************************)
EXTENDS Integers, FiniteSets

CONSTANTS
    Leg, Trip,
    TripOf,         \* the trip of each leg
    Departure,      \* scheduled_departure_at of each leg
    Arrival,        \* scheduled_arrival_at of each leg
    Worker,
    Lease,          \* SCHEDULER_LEASE_SECONDS
    MaximumLegs,    \* maximum_legs of a tick
    Instant,        \* bound: the readings of the clock
    MaxFaults,      \* bound: failures and crashes per behaviour
    None            \* NULL

ASSUME SchedulerAssumption ==
    /\ TripOf \in [Leg -> Trip]
    /\ Departure \in [Leg -> Int] /\ Arrival \in [Leg -> Int]
    /\ Lease \in Nat \ {0} /\ MaximumLegs \in Nat \ {0} /\ MaxFaults \in Nat
    /\ Instant \subseteq Nat /\ 0 \in Instant
    /\ None \notin Int

VARIABLES
    clock,
    leg,            \* trip_legs: status, next_poll_at, lease_until, poll_count
    trip,           \* trips.status
    runs,           \* monitoring_runs: the outcome recorded for each attempt
    worker,         \* each worker's tick
    faults

vars == <<clock, leg, trip, runs, worker, faults>>

Hours(n) == 60 * n

\* Mutant: the last six hours keep the interval of the eighteen before them.
PollIntervalCoarse(remaining) ==
    CASE remaining > Hours(72) -> Hours(6)
      [] Hours(24) < remaining /\ remaining <= Hours(72) -> Hours(2)
      [] OTHER -> 30

\* The interval of next_poll_time, by the time left until departure.
PollInterval(remaining) ==
    CASE remaining > Hours(72) -> Hours(6)
      [] Hours(24) < remaining /\ remaining <= Hours(72) -> Hours(2)
      [] Hours(6) < remaining /\ remaining <= Hours(24)  -> 30
      [] OTHER -> 10

\* Monitoring ends two hours after the scheduled arrival.
Over(l, now) == now >= Arrival[l] + Hours(2)

NextPoll(l, now) == now + PollInterval(Departure[l] - now)

RetryDelay == 5

\* A scheduled attempt: its leg and the due time that names it (poll_key).
Attempt == [leg : Leg, due : Int]

\* A tick: its clock reading, the attempts claimed and not yet begun, the one
\* at hand, and, in complete_poll, whether no leg of the trip was active.
Step == {"idle", "next", "poll", "complete", "check", "commit", "fail"}
Tick == [step : Step, now : Int, claimed : SUBSET Attempt,
         current : Attempt \cup {None}, allDone : BOOLEAN]

Idle == [step |-> "idle", now |-> 0, claimed |-> {}, current |-> None,
         allDone |-> FALSE]

\* save_parsed_trip: every leg is due at once.
Init ==
    /\ clock = 0
    /\ leg = [l \in Leg |-> [status |-> "active", due |-> 0, lease |-> None,
                             polls |-> 0]]
    /\ trip = [t \in Trip |-> "active"]
    /\ runs = {}
    /\ worker = [w \in Worker |-> Idle]
    /\ faults = 0

-----------------------------------------------------------------------------
stored == <<leg, trip, runs>>

Current(w) == worker[w].current
Goto(w, step) == worker' = [worker EXCEPT ![w].step = step]
Stop(w) == worker' = [worker EXCEPT ![w] = Idle]

\* A failure happens only while the clock can still outlast a lease.
Fault ==
    /\ faults < MaxFaults
    /\ \E t \in Instant : clock + Lease <= t
    /\ faults' = faults + 1

\* The rows of the attempt are locked by a transaction under way.
InTransaction(attempt) ==
    \E w \in Worker : /\ worker[w].step \in {"check", "commit"}
                      /\ Current(w) = attempt

\* Mutant: `AND next_poll_at = due_at' is missing.
AppliesAlways(attempt) == TRUE

\* The guard `AND next_poll_at = due_at' of both updates of a leg.
Applies(attempt) == leg[attempt.leg].due = attempt.due

Due(l, now) == /\ leg[l].status = "active"
               /\ leg[l].due <= now

\* Mutant: an expired lease is not taken over.
ClaimableUnleased(l, now) ==
    /\ Due(l, now)
    /\ leg[l].lease = None
    /\ ~InTransaction([leg |-> l, due |-> leg[l].due])

Claimable(l, now) ==
    /\ Due(l, now)
    /\ leg[l].lease = None \/ leg[l].lease <= now
    /\ ~InTransaction([leg |-> l, due |-> leg[l].due])     \* SKIP LOCKED

\* The earliest due, MaximumLegs at most.
Picked(picked, now) ==
    LET claimable == {l \in Leg : Claimable(l, now)}
    IN /\ picked \subseteq claimable
       /\ \/ picked = claimable
          \/ Cardinality(picked) = MaximumLegs
       /\ Cardinality(picked) <= MaximumLegs
       /\ \A l \in picked, k \in claimable \ picked : leg[l].due <= leg[k].due

\* claim_due_legs
Claim(w) ==
    /\ worker[w].step = "idle"
    /\ \E picked \in (SUBSET Leg) \ {{}} :
          /\ Picked(picked, clock)
          /\ leg' = [l \in Leg |->
                IF l \in picked THEN [leg[l] EXCEPT !.lease = clock + Lease]
                                ELSE leg[l]]
          /\ worker' = [worker EXCEPT ![w] =
                [Idle EXCEPT !.step = "next", !.now = clock,
                             !.claimed = {[leg |-> l, due |-> leg[l].due] :
                                            l \in picked}]]
    /\ UNCHANGED <<clock, trip, runs, faults>>

StartPoll(w, attempt) ==
    /\ worker[w].step = "next"
    /\ attempt \in worker[w].claimed
    /\ worker' = [worker EXCEPT ![w].step = "poll",
                                ![w].current = attempt,
                                ![w].claimed = @ \ {attempt}]
    /\ UNCHANGED <<clock, stored, faults>>

\* The Monitoring Agent answers, or the call raises.
EndPoll(w) ==
    /\ worker[w].step = "poll"
    /\ \/ Goto(w, "complete") /\ UNCHANGED faults
       \/ Goto(w, "fail") /\ Fault
    /\ UNCHANGED <<clock, stored>>

\* The loop goes on with the next claimed attempt.
Continue(w) ==
    IF worker[w].claimed = {} THEN Stop(w)
    ELSE worker' = [worker EXCEPT ![w].step = "next", ![w].current = None,
                                  ![w].allDone = FALSE]

-----------------------------------------------------------------------------
(* complete_poll and fail_poll.                                            *)

\* INSERT ... ON CONFLICT (poll_key) DO NOTHING
Recorded(attempt, status) ==
    IF \E run \in runs : run.leg = attempt.leg /\ run.due = attempt.due
    THEN runs
    ELSE runs \cup {[leg |-> attempt.leg, due |-> attempt.due,
                     status |-> status]}

\* The run is inserted and the leg updated: from here on their rows are
\* locked.  A transaction on the same rows has to wait.
BeginComplete(w) ==
    /\ worker[w].step = "complete"
    /\ ~InTransaction(Current(w))
    /\ Goto(w, "check")
    /\ UNCHANGED <<clock, stored, faults>>

\* What the transaction leaves of the leg.
Completed(w) ==
    LET l == Current(w).leg
        now == worker[w].now
    IN IF Applies(Current(w))
       THEN [status |-> IF Over(l, now) THEN "completed" ELSE "active",
             due    |-> IF Over(l, now) THEN None ELSE NextPoll(l, now),
             lease  |-> None,
             polls  |-> leg[l].polls + 1]
       ELSE leg[l]

Companions(l) == {k \in Leg : TripOf[k] = TripOf[l]} \ {l}

\* Mutant: the trip is completed with the leg at hand.
CheckOwnLegOnly(w) ==
    /\ worker[w].step = "check"
    /\ worker' = [worker EXCEPT
          ![w].step = "commit",
          ![w].allDone = Completed(w).status # "active"]
    /\ UNCHANGED <<clock, stored, faults>>

\* NOT EXISTS an active leg: the transaction sees its own update, and of the
\* others what is committed.
CheckTrip(w) ==
    /\ worker[w].step = "check"
    /\ LET l == Current(w).leg
       IN worker' = [worker EXCEPT
             ![w].step = "commit",
             ![w].allDone = /\ Completed(w).status # "active"
                            /\ \A k \in Companions(l) : leg[k].status # "active"]
    /\ UNCHANGED <<clock, stored, faults>>

Commit(w) ==
    LET l == Current(w).leg
    IN /\ worker[w].step = "commit"
       /\ runs' = Recorded(Current(w), "completed")
       /\ leg' = [leg EXCEPT ![l] = Completed(w)]
       /\ trip' = IF worker[w].allDone
                  THEN [trip EXCEPT ![TripOf[l]] = "completed"] ELSE trip
       /\ \/ Continue(w) /\ UNCHANGED faults
          \/ Goto(w, "fail") /\ Fault       \* committed, but the reply was lost
       /\ UNCHANGED clock

\* The transaction is rolled back and the exception leads to fail_poll.
CompleteRaises(w) ==
    /\ worker[w].step \in {"complete", "check", "commit"}
    /\ Fault
    /\ Goto(w, "fail")
    /\ UNCHANGED <<clock, stored>>

\* Mutant: the run is given the status of last_poll_status, which the CHECK
\* of the table does not allow.
FailPollUnchecked(w) ==
    LET l == Current(w).leg
    IN /\ worker[w].step = "fail"
       /\ ~InTransaction(Current(w))
       /\ runs' = Recorded(Current(w), "poll_failed")
       /\ leg' = IF Applies(Current(w))
                 THEN [leg EXCEPT ![l].due = worker[w].now + RetryDelay,
                                  ![l].lease = None]
                 ELSE leg
       /\ Continue(w)
       /\ UNCHANGED <<clock, trip, faults>>

\* The retry is counted from the start of the tick.
FailPoll(w) ==
    LET l == Current(w).leg
    IN /\ worker[w].step = "fail"
       /\ ~InTransaction(Current(w))
       /\ runs' = Recorded(Current(w), "failed")
       /\ leg' = IF Applies(Current(w))
                 THEN [leg EXCEPT ![l].due = worker[w].now + RetryDelay,
                                  ![l].lease = None]
                 ELSE leg
       /\ Continue(w)
       /\ UNCHANGED <<clock, trip, faults>>

\* The process stops, or fail_poll itself raises and ends the tick: what was
\* claimed and not handled stays leased.
Abandon(w) ==
    /\ worker[w].step # "idle"
    /\ Fault
    /\ Stop(w)
    /\ UNCHANGED <<clock, stored>>

-----------------------------------------------------------------------------
Advance ==
    /\ \E t \in Instant :
          /\ t > clock
          /\ \A u \in Instant : u > clock => t <= u
          /\ clock' = t
    /\ UNCHANGED <<stored, worker, faults>>

Run(w) ==
    \/ Claim(w) \/ EndPoll(w) \/ BeginComplete(w) \/ CheckTrip(w) \/ Commit(w)
    \/ CompleteRaises(w) \/ FailPoll(w)
    \/ \E attempt \in worker[w].claimed : StartPoll(w, attempt)

Next == Advance \/ \E w \in Worker : Run(w) \/ Abandon(w)

Spec == Init /\ [][Next]_vars

\* Time passes and the background loop keeps ticking.
Fairness == WF_vars(Advance) /\ \A w \in Worker : WF_vars(Run(w))

FairSpec == Spec /\ Fairness

-----------------------------------------------------------------------------
TypeOK ==
    /\ clock \in Instant
    /\ leg \in [Leg -> [status : {"active", "completed"},
                        due : Int \cup {None}, lease : Int \cup {None},
                        polls : Nat]]
    /\ trip \in [Trip -> {"active", "completed"}]
    /\ runs \subseteq [leg : Leg, due : Int, status : {"completed", "failed"}]
    /\ worker \in [Worker -> Tick]
    /\ faults \in 0 .. MaxFaults

\* A leg is unscheduled exactly when its monitoring is complete.
ScheduledWhileActive ==
    \A l \in Leg : leg[l].due = None <=> leg[l].status = "completed"

\* A worker that lost its lease never pulls a leg's schedule back: the next
\* poll only moves into the future.
ScheduleAdvances ==
    [][\A l \in Leg : leg'[l].due \in {leg[l].due, None}
                      \/ leg'[l].due > leg[l].due]_vars

\* Until its departure a leg is monitored and due no later than ten minutes
\* after it, whichever worker polled it last, from whichever reading of the
\* clock, and whether the poll failed; unless two hours have passed since its
\* stored arrival, which ends its monitoring before it departs when the parser
\* has put the arrival of an overnight leg on the day of its departure.
DepartureCovered ==
    \A l \in Leg :
        clock < Departure[l] =>
            \/ leg[l].status = "active" /\ leg[l].due < Departure[l] + 10
            \/ leg[l].status = "completed" /\ Over(l, clock)

\* A trip is completed exactly when all of its legs are.
TripFollowsLegs ==
    \A t \in Trip :
        trip[t] = "completed" <=>
            \A l \in Leg : TripOf[l] = t => leg[l].status = "completed"

\* A trip is completed only when all of its legs are.
TripNotCompletedEarly ==
    \A t \in Trip :
        trip[t] = "completed" =>
            \A l \in Leg : TripOf[l] = t => leg[l].status = "completed"

\* Every scheduled attempt that came due is eventually completed or
\* rescheduled, though workers crash while they hold its lease.
DueLegsPolled ==
    \A l \in Leg, t \in Instant :
        leg[l].due = t /\ t <= clock ~> leg[l].due # t
=============================================================================
