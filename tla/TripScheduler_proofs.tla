------------------------- MODULE TripScheduler_proofs -------------------------
(***************************************************************************)
(* Theorems about TripScheduler for every set of legs, trips and workers,  *)
(* every timetable, lease and clock.                                       *)
(***************************************************************************)
EXTENDS TripScheduler, TLAPS

-----------------------------------------------------------------------------
(* next_poll_time.                                                         *)

LEMMA IntervalType ==
  ASSUME NEW remaining \in Int
  PROVE  PollInterval(remaining) \in Nat /\ PollInterval(remaining) > 0
BY DEF PollInterval, Hours

LEMMA NextPollLater ==
  ASSUME NEW l \in Leg, NEW now \in Int
  PROVE  NextPoll(l, now) \in Int /\ NextPoll(l, now) > now
<1>1. Departure[l] - now \in Int
  BY SchedulerAssumption
<1> QED
  BY <1>1, IntervalType DEF NextPoll

\* The intervals of next_poll_time never step more than ten minutes over the
\* departure, however long before it the poll was made.
LEMMA IntervalsStopAtDeparture ==
  ASSUME NEW l \in Leg, NEW now \in Int, now < Departure[l]
  PROVE  NextPoll(l, now) < Departure[l] + 10
<1>1. Departure[l] \in Int
  BY SchedulerAssumption
<1> QED
  BY <1>1 DEF NextPoll, PollInterval, Hours

-----------------------------------------------------------------------------
(* The inductive invariant.  A worker holds an attempt from the poll to    *)
(* its last transaction, and everything it claimed was due at the reading  *)
(* of the clock that it still uses.                                        *)

Row == [status : {"active", "completed"}, due : Int \cup {None},
        lease : Int \cup {None}, polls : Nat]

Holding == {"poll", "complete", "check", "commit", "fail"}

TickOK(p) ==
    /\ p \in Tick
    /\ p.step \in Holding => p.current \in Attempt /\ p.current.due <= p.now
    /\ \A attempt \in p.claimed : attempt.due <= p.now

WorkerOK == /\ worker \in [Worker -> Tick]
            /\ \A w \in Worker : TickOK(worker[w])

StoreOK ==
    /\ clock \in Instant
    /\ leg \in [Leg -> Row]
    /\ trip \in [Trip -> {"active", "completed"}]
    /\ runs \subseteq [leg : Leg, due : Int, status : {"completed", "failed"}]
    /\ faults \in 0 .. MaxFaults

Inv == StoreOK /\ WorkerOK /\ ScheduledWhileActive

LEMMA IdleOK == TickOK(Idle)
BY DEF TickOK, Idle, Tick, Step, Holding

LEMMA WorkerUpdate ==
  ASSUME WorkerOK, NEW w \in Worker, NEW p, TickOK(p),
         worker' = [worker EXCEPT ![w] = p]
  PROVE  WorkerOK'
<1>1. worker' \in [Worker -> Tick]
  BY DEF WorkerOK, TickOK
<1>2. ASSUME NEW v \in Worker PROVE TickOK(worker'[v])
  BY DEF WorkerOK
<1> QED
  BY <1>1, <1>2 DEF WorkerOK, TickOK

LEMMA StopOK ==
  ASSUME WorkerOK, NEW w \in Worker, Stop(w) PROVE WorkerOK'
BY IdleOK, WorkerUpdate DEF Stop

\* A worker that holds an attempt keeps it when it moves on.
LEMMA GotoOK ==
  ASSUME WorkerOK, NEW w \in Worker, worker[w].step \in Holding,
         NEW s \in Holding, Goto(w, s)
  PROVE  WorkerOK'
<1> DEFINE p == [worker[w] EXCEPT !.step = s]
<1>1. TickOK(worker[w])
  BY DEF WorkerOK
<1>2. TickOK(p)
  BY <1>1 DEF TickOK, Tick, Step, Holding
<1>3. worker' = [worker EXCEPT ![w] = p]
  BY DEF Goto, WorkerOK
<1> QED
  BY <1>2, <1>3, WorkerUpdate

LEMMA ContinueOK ==
  ASSUME WorkerOK, NEW w \in Worker, Continue(w)
  PROVE  WorkerOK'
<1> DEFINE p == [worker[w] EXCEPT !.step = "next", !.current = None,
                                  !.allDone = FALSE]
<1>1. TickOK(worker[w])
  BY DEF WorkerOK
<1>2. TickOK(p)
  BY <1>1 DEF TickOK, Tick, Step, Holding
<1>3. CASE Stop(w)
  BY <1>3, StopOK
<1>4. CASE worker' = [worker EXCEPT ![w] = p]
  BY <1>2, <1>4, WorkerUpdate
<1> QED
  BY <1>3, <1>4 DEF Continue, WorkerOK

LEMMA FaultOK == ASSUME StoreOK, Fault PROVE faults' \in 0 .. MaxFaults
BY SchedulerAssumption DEF StoreOK, Fault

LEMMA RecordedOK ==
  ASSUME StoreOK, NEW attempt \in Attempt,
         NEW status \in {"completed", "failed"}
  PROVE  Recorded(attempt, status) \subseteq
            [leg : Leg, due : Int, status : {"completed", "failed"}]
BY DEF Recorded, StoreOK, Attempt

\* What complete_poll leaves of a leg: a row whose due time, if it has one,
\* is the one it had or a later one.
LEMMA CompletedOK ==
  ASSUME Inv, NEW w \in Worker, worker[w].step \in Holding
  PROVE  LET l == Current(w).leg
             row == Completed(w)
         IN /\ l \in Leg
            /\ row \in Row
            /\ row.due = None <=> row.status = "completed"
            /\ row.due \in {leg[l].due, None} \/ row.due > leg[l].due
<1> DEFINE l == Current(w).leg
           now == worker[w].now
<1>1. /\ Current(w) \in Attempt /\ Current(w).due <= now
      /\ now \in Int /\ l \in Leg /\ Current(w).due \in Int
  BY DEF Inv, WorkerOK, TickOK, Current, Attempt, Tick
<1>2. leg[l] \in Row /\ (leg[l].due = None <=> leg[l].status = "completed")
  BY <1>1 DEF Inv, StoreOK, ScheduledWhileActive
<1>3. NextPoll(l, now) \in Int /\ NextPoll(l, now) > now
  BY <1>1, NextPollLater
<1>4. CASE Applies(Current(w))
  <2>1. leg[l].due = Current(w).due
    BY <1>4 DEF Applies
  <2>2. CASE Over(l, now)
    <3>1. Completed(w) = [status |-> "completed", due |-> None, lease |-> None,
                          polls |-> leg[l].polls + 1]
      BY <1>4, <2>2 DEF Completed
    <3> QED
      BY <1>1, <1>2, <3>1 DEF Row
  <2>3. CASE ~Over(l, now)
    <3>1. Completed(w) = [status |-> "active", due |-> NextPoll(l, now),
                          lease |-> None, polls |-> leg[l].polls + 1]
      BY <1>4, <2>3 DEF Completed
    <3>2. NextPoll(l, now) # None
      BY <1>3, SchedulerAssumption
    <3>3. NextPoll(l, now) > leg[l].due
      BY <1>1, <1>3, <2>1
    <3> QED
      BY <1>1, <1>2, <1>3, <3>1, <3>2, <3>3 DEF Row
  <2> QED
    BY <2>2, <2>3
<1>5. CASE ~Applies(Current(w))
  BY <1>1, <1>2, <1>5 DEF Completed
<1> QED
  BY <1>4, <1>5

-----------------------------------------------------------------------------
(* Every step keeps the invariant and moves due times only forward.        *)

Forward == \A l \in Leg : leg'[l].due \in {leg[l].due, None}
                          \/ leg'[l].due > leg[l].due

LEMMA ClaimOK ==
  ASSUME Inv, NEW w \in Worker, Claim(w) PROVE Inv' /\ Forward
<1>1. PICK picked \in SUBSET Leg :
        /\ Picked(picked, clock)
        /\ leg' = [l \in Leg |->
              IF l \in picked THEN [leg[l] EXCEPT !.lease = clock + Lease]
                              ELSE leg[l]]
        /\ worker' = [worker EXCEPT ![w] =
              [Idle EXCEPT !.step = "next", !.now = clock,
                           !.claimed = {[leg |-> l, due |-> leg[l].due] :
                                          l \in picked}]]
  BY DEF Claim
<1> DEFINE claimed == {[leg |-> l, due |-> leg[l].due] : l \in picked}
           p == [Idle EXCEPT !.step = "next", !.now = clock,
                             !.claimed = claimed]
<1>2. clock \in Int /\ clock + Lease \in Int
  BY SchedulerAssumption DEF Inv, StoreOK
<1>3. ASSUME NEW l \in picked
      PROVE  l \in Leg /\ leg[l].due \in Int /\ leg[l].due <= clock
  <2>1. l \in Leg /\ leg[l].status = "active" /\ leg[l].due <= clock
    BY <1>1 DEF Picked, Claimable, Due
  <2>2. leg[l] \in Row /\ leg[l].due # None
    BY <2>1 DEF Inv, StoreOK, ScheduledWhileActive
  <2> QED
    BY <2>1, <2>2 DEF Row
<1>4. TickOK(p)
  <2>1. claimed \subseteq Attempt
    BY <1>3 DEF Attempt
  <2>2. \A attempt \in claimed : attempt.due <= clock
    BY <1>3
  <2> HIDE DEF claimed
  <2> QED
    BY <1>2, <2>1, <2>2 DEF TickOK, Tick, Step, Holding, Idle
<1>5. WorkerOK'
  BY <1>1, <1>4, WorkerUpdate DEF Inv
<1>6. ASSUME NEW l \in Leg
      PROVE  /\ leg'[l] \in Row /\ leg'[l].due = leg[l].due
             /\ leg'[l].status = leg[l].status
  BY <1>1, <1>2 DEF Inv, StoreOK, Row
<1>7. StoreOK'
  BY <1>1, <1>6 DEF Inv, StoreOK, Claim
<1> QED
  BY <1>5, <1>6, <1>7 DEF Inv, ScheduledWhileActive, Forward

LEMMA StartPollOK ==
  ASSUME Inv, NEW w \in Worker, NEW attempt \in worker[w].claimed,
         StartPoll(w, attempt)
  PROVE  Inv' /\ Forward
<1> DEFINE p == [worker[w] EXCEPT !.step = "poll", !.current = attempt,
                                  !.claimed = @ \ {attempt}]
<1>1. TickOK(worker[w])
  BY DEF Inv, WorkerOK
<1>2. TickOK(p)
  BY <1>1 DEF TickOK, Tick, Step, Holding
<1>3. worker' = [worker EXCEPT ![w] = p]
  BY DEF StartPoll, Inv, WorkerOK
<1>4. WorkerOK'
  BY <1>2, <1>3, WorkerUpdate DEF Inv
<1> QED
  BY <1>4 DEF StartPoll, Inv, StoreOK, stored, ScheduledWhileActive, Forward

LEMMA CheckTripOK ==
  ASSUME Inv, NEW w \in Worker, CheckTrip(w) PROVE Inv' /\ Forward
<1> DEFINE l == Current(w).leg
           done == /\ Completed(w).status # "active"
                   /\ \A k \in Companions(l) : leg[k].status # "active"
           p == [worker[w] EXCEPT !.step = "commit", !.allDone = done]
<1>1. TickOK(worker[w]) /\ worker[w].step = "check"
  BY DEF Inv, WorkerOK, CheckTrip
<1>2. TickOK(p)
  <2> HIDE DEF done
  <2>1. done \in BOOLEAN
    BY DEF done
  <2> QED
    BY <1>1, <2>1 DEF TickOK, Tick, Step, Holding
<1>3. worker' = [worker EXCEPT ![w] = p]
  BY DEF CheckTrip, Inv, WorkerOK
<1>4. WorkerOK'
  BY <1>2, <1>3, WorkerUpdate DEF Inv
<1> QED
  BY <1>4 DEF CheckTrip, Inv, StoreOK, stored, ScheduledWhileActive, Forward

LEMMA CommitOK ==
  ASSUME Inv, NEW w \in Worker, Commit(w) PROVE Inv' /\ Forward
<1> DEFINE l == Current(w).leg
<1>1. worker[w].step \in Holding
  BY DEF Commit, Holding
<1>2. /\ Current(w) \in Attempt /\ l \in Leg
  BY <1>1 DEF Inv, WorkerOK, TickOK, Current, Attempt
<1>3. WorkerOK'
  BY <1>1, ContinueOK, GotoOK DEF Commit, Inv, Holding
<1>4. leg' = [leg EXCEPT ![l] = Completed(w)]
  BY DEF Commit
<1>5. ASSUME NEW k \in Leg
      PROVE  /\ leg'[k] \in Row
             /\ leg'[k].due = None <=> leg'[k].status = "completed"
             /\ leg'[k].due \in {leg[k].due, None} \/ leg'[k].due > leg[k].due
  <2>1. CASE k = l
    BY <1>1, <1>4, <2>1, CompletedOK DEF Inv, StoreOK
  <2>2. CASE k # l
    BY <1>4, <2>2 DEF Inv, StoreOK, ScheduledWhileActive
  <2> QED
    BY <2>1, <2>2
<1>6. leg' \in [Leg -> Row]
  BY <1>4, <1>5 DEF Inv, StoreOK
<1>7. trip' \in [Trip -> {"active", "completed"}]
  BY <1>2, SchedulerAssumption DEF Commit, Inv, StoreOK
<1>8. runs' \subseteq [leg : Leg, due : Int, status : {"completed", "failed"}]
  BY <1>2, RecordedOK DEF Commit, Inv
<1>9. faults' \in 0 .. MaxFaults
  BY FaultOK DEF Commit, Inv, StoreOK
<1> QED
  BY <1>3, <1>5, <1>6, <1>7, <1>8, <1>9
     DEF Inv, StoreOK, ScheduledWhileActive, Forward, Commit

LEMMA FailPollOK ==
  ASSUME Inv, NEW w \in Worker, FailPoll(w) PROVE Inv' /\ Forward
<1> DEFINE l == Current(w).leg
           now == worker[w].now
<1>1. /\ Current(w) \in Attempt /\ l \in Leg /\ now \in Int
      /\ Current(w).due \in Int /\ Current(w).due <= now
  BY DEF Inv, WorkerOK, TickOK, Current, Attempt, FailPoll, Holding, Tick
<1>2. WorkerOK'
  BY ContinueOK DEF FailPoll, Inv
<1>3. ASSUME NEW k \in Leg
      PROVE  /\ leg'[k] \in Row
             /\ leg'[k].due = None <=> leg'[k].status = "completed"
             /\ leg'[k].due \in {leg[k].due, None} \/ leg'[k].due > leg[k].due
  <2>1. leg[k] \in Row /\ (leg[k].due = None <=> leg[k].status = "completed")
    BY DEF Inv, StoreOK, ScheduledWhileActive
  <2>2. CASE k = l /\ Applies(Current(w))
    <3>1. leg[k].due = Current(w).due /\ leg[k].status # "completed"
      BY <1>1, <2>1, <2>2, SchedulerAssumption DEF Applies
    <3>2. leg'[k] = [leg[k] EXCEPT !.due = now + RetryDelay, !.lease = None]
      BY <1>1, <2>2 DEF FailPoll, Inv, StoreOK
    <3>3. now + RetryDelay \in Int /\ now + RetryDelay > leg[k].due
      BY <1>1, <3>1 DEF RetryDelay
    <3> QED
      BY <2>1, <3>1, <3>2, <3>3, SchedulerAssumption DEF Row
  <2>3. CASE k # l \/ ~Applies(Current(w))
    BY <2>1, <2>3 DEF FailPoll, Inv, StoreOK
  <2> QED
    BY <2>2, <2>3
<1>4. leg' \in [Leg -> Row]
  BY <1>3 DEF FailPoll, Inv, StoreOK
<1>5. runs' \subseteq [leg : Leg, due : Int, status : {"completed", "failed"}]
  BY <1>1, RecordedOK DEF FailPoll, Inv
<1> QED
  BY <1>2, <1>3, <1>4, <1>5
     DEF Inv, StoreOK, ScheduledWhileActive, Forward, FailPoll

LEMMA NextOK ==
  ASSUME Inv, [Next]_vars PROVE Inv' /\ Forward
<1>1. ASSUME NEW w \in Worker,
             EndPoll(w) \/ BeginComplete(w) \/ CompleteRaises(w) \/ Abandon(w)
      PROVE  Inv' /\ Forward
  <2>1. WorkerOK'
    BY <1>1, GotoOK, StopOK DEF EndPoll, BeginComplete, CompleteRaises, Abandon,
       Holding, Inv
  <2>2. faults' \in 0 .. MaxFaults
    BY <1>1, FaultOK DEF EndPoll, BeginComplete, CompleteRaises, Abandon, Inv,
       StoreOK
  <2> QED
    BY <1>1, <2>1, <2>2 DEF EndPoll, BeginComplete, CompleteRaises, Abandon,
       Inv, StoreOK, stored, ScheduledWhileActive, Forward
<1>2. CASE Advance
  BY <1>2 DEF Advance, Inv, StoreOK, WorkerOK, stored, ScheduledWhileActive,
     Forward
<1>3. CASE UNCHANGED vars
  BY <1>3 DEF vars, Inv, StoreOK, WorkerOK, ScheduledWhileActive, Forward
<1> QED
  BY <1>1, <1>2, <1>3, ClaimOK, StartPollOK, CheckTripOK, CommitOK, FailPollOK
     DEF Next, Run

LEMMA InitOK == Init => Inv
<1> SUFFICES ASSUME Init PROVE Inv
  OBVIOUS
<1>1. StoreOK /\ ScheduledWhileActive
  BY SchedulerAssumption DEF Init, StoreOK, Row, ScheduledWhileActive
<1>2. WorkerOK
  BY IdleOK DEF Init, WorkerOK, TickOK
<1> QED
  BY <1>1, <1>2 DEF Inv

LEMMA Invariance == Spec => []Inv
<1>1. Inv /\ [Next]_vars => Inv'
  BY NextOK
<1> QED
  BY <1>1, InitOK, PTL DEF Spec

\* Every state of every instance has the types TypeOK gives.
THEOREM SchedulerTypeCorrect == Spec => []TypeOK
<1>1. Inv => TypeOK
  BY DEF Inv, StoreOK, WorkerOK, Row, TypeOK
<1> QED
  BY <1>1, Invariance, PTL

\* A leg has a next poll exactly while it is monitored, whatever worker was
\* late and whatever call failed.
THEOREM LegsStayScheduled == Spec => []ScheduledWhileActive
<1>1. Inv => ScheduledWhileActive
  BY DEF Inv
<1> QED
  BY <1>1, Invariance, PTL

\* No worker, however long ago its tick began and whoever has taken over its
\* lease, moves a leg's next poll back.
THEOREM ScheduleNeverGoesBack == Spec => ScheduleAdvances
<1>1. Inv /\ [Next]_vars =>
        [\A l \in Leg : leg'[l].due \in {leg[l].due, None}
                        \/ leg'[l].due > leg[l].due]_vars
  BY NextOK DEF Forward
<1> QED
  BY <1>1, Invariance, PTL DEF Spec, ScheduleAdvances
-----------------------------------------------------------------------------
(* A trip and its legs.  The transaction that completes a trip reads the   *)
(* other legs in one statement and writes the trip in a later one.  The    *)
(* lock on the rows of its attempt keeps its own leg as it saw it, and a   *)
(* leg that is complete has no due time for any attempt to match, so that  *)
(* it stays complete until the trip is written.                            *)

Writing == {"check", "commit"}

\* Two workers never have a transaction on the same attempt under way.
Exclusive ==
    \A v, w \in Worker :
        /\ worker[v].step \in Writing /\ worker[w].step \in Writing
        /\ Current(v) = Current(w)
        => v = w

\* What a worker about to complete the trip saw of its legs still holds.
Settled ==
    \A w \in Worker :
        worker[w].step = "commit" /\ worker[w].allDone =>
            /\ Completed(w).status = "completed"
            /\ \A k \in Companions(Current(w).leg) : leg[k].status = "completed"

TripInv == Exclusive /\ Settled /\ TripNotCompletedEarly

\* A step that completes no leg anew, reopens none and moves no due time.
LegsKept == \A l \in Leg : /\ leg'[l].status = leg[l].status
                           /\ leg'[l].due = leg[l].due

LEMMA LockedRow ==
  ASSUME Inv, NEW w \in Worker, worker[w].step \in Holding
  PROVE  /\ Current(w) \in Attempt /\ Current(w).leg \in Leg
         /\ Current(w).due \in Int /\ Current(w).due # None
         /\ leg[Current(w).leg] \in Row
BY SchedulerAssumption
   DEF Inv, StoreOK, WorkerOK, TickOK, Current, Attempt

\* The row complete_poll leaves is the row of a completed leg in exactly two
\* cases: the leg's own update ends its monitoring, or it was over before.
LEMMA CompletedStatus ==
  ASSUME Inv, NEW w \in Worker, worker[w].step \in Holding
  PROVE  /\ Completed(w).status \in {"active", "completed"}
         /\ Completed(w).status = "completed" <=>
              \/ /\ Applies(Current(w))
                 /\ Over(Current(w).leg, worker[w].now)
              \/ leg[Current(w).leg].status = "completed"
<1>1. /\ leg[Current(w).leg] \in Row
      /\ Applies(Current(w)) => leg[Current(w).leg].status # "completed"
  BY LockedRow DEF Inv, ScheduledWhileActive, Applies
<1> QED
  BY <1>1 DEF Completed, Row

\* The worker that has locked its attempt's rows still finds them as it saw
\* them, and a companion that was complete still is, after any step of
\* another worker that keeps that worker at its place.
LEMMA LegsOfOthers ==
  ASSUME Inv, Exclusive, NEW v \in Worker, Commit(v) \/ FailPoll(v)
  PROVE  /\ \A l \in Leg : leg[l].status = "completed" => leg'[l] = leg[l]
         /\ \A w \in Worker \ {v} :
               worker[w].step = "commit" /\ Applies(Current(w)) =>
                  leg'[Current(w).leg] = leg[Current(w).leg]
<1> DEFINE a == Current(v)
<1>1. worker[v].step \in Holding
  BY DEF Commit, FailPoll, Holding
<1>2. a \in Attempt /\ a.leg \in Leg /\ a.due # None
  BY <1>1, LockedRow
<1>3. /\ leg \in [Leg -> Row]
      /\ \A l \in Leg : leg[l].due = None <=> leg[l].status = "completed"
  BY DEF Inv, StoreOK, ScheduledWhileActive
<1>4. ASSUME NEW l \in Leg, l # a.leg \/ ~Applies(a) PROVE leg'[l] = leg[l]
  <2>1. CASE Commit(v)
    <3>1. leg' = [leg EXCEPT ![a.leg] = Completed(v)]
      BY <2>1 DEF Commit
    <3>2. ~Applies(a) => Completed(v) = leg[a.leg]
      BY DEF Completed
    <3> QED
      BY <1>2, <1>3, <1>4, <3>1, <3>2
  <2>2. CASE FailPoll(v)
    BY <1>2, <1>3, <1>4, <2>2 DEF FailPoll
  <2> QED
    BY <2>1, <2>2
<1>5. ASSUME NEW l \in Leg, leg[l].status = "completed" PROVE leg'[l] = leg[l]
  BY <1>2, <1>3, <1>4, <1>5 DEF Applies
<1>6. ASSUME NEW w \in Worker \ {v}, worker[w].step = "commit",
             Applies(Current(w))
      PROVE  leg'[Current(w).leg] = leg[Current(w).leg]
  <2>1. Current(w) \in Attempt
    BY <1>6, LockedRow DEF Holding
  <2>2. Current(w) # a
    BY <1>6 DEF Exclusive, Writing, Commit, FailPoll, InTransaction
  <2>3. ~(Current(w).leg = a.leg /\ Applies(a))
    BY <1>2, <1>6, <2>1, <2>2 DEF Applies, Attempt
  <2> QED
    BY <1>4, <2>1, <2>3 DEF Attempt
<1> QED
  BY <1>5, <1>6

\* A step of v that leaves the other workers alone keeps Exclusive unless v
\* begins a transaction.
Untouched(v) == \A w \in Worker \ {v} : worker'[w] = worker[w]

LEMMA StepsLeaveOthers ==
  ASSUME Inv, NEW v \in Worker, Run(v) \/ Abandon(v)
  PROVE  Untouched(v)
BY DEF Inv, WorkerOK, Untouched, Run, Abandon, Claim, StartPoll, EndPoll, Goto,
   Stop, BeginComplete, CheckTrip, Commit, Continue, CompleteRaises, FailPoll

\* A transaction begins with BeginComplete alone, which waits for the lock.
LEMMA ExclusiveKept ==
  ASSUME Inv, Exclusive, NEW v \in Worker, Run(v) \/ Abandon(v)
  PROVE  Exclusive'
<1>1. Untouched(v)
  BY StepsLeaveOthers
<1>2. worker'[v].step \in Writing =>
        /\ Current(v)' = Current(v)
        /\ \/ worker[v].step \in Writing
           \/ \A w \in Worker \ {v} :
                 worker[w].step \in Writing => Current(w) # Current(v)
  <2>1. CASE BeginComplete(v)
    BY <2>1 DEF BeginComplete, InTransaction, Goto, Current, Inv, WorkerOK,
       Writing
  <2>2. CASE CheckTrip(v)
    BY <2>2 DEF CheckTrip, Current, Inv, WorkerOK, Writing
  <2>3. CASE Claim(v)
    <3>1. worker'[v].step = "next"
      BY <2>3 DEF Claim, Idle, Inv, WorkerOK
    <3> QED
      BY <3>1 DEF Writing
  <2>4. CASE \E attempt \in worker[v].claimed : StartPoll(v, attempt)
    <3>1. worker'[v].step = "poll"
      BY <2>4 DEF StartPoll, Inv, WorkerOK, Tick
    <3> QED
      BY <3>1 DEF Writing
  <2>5. CASE EndPoll(v) \/ CompleteRaises(v)
    <3>1. worker'[v].step \in {"complete", "fail"}
      BY <2>5 DEF EndPoll, CompleteRaises, Goto, Inv, WorkerOK, Tick
    <3> QED
      BY <3>1 DEF Writing
  <2>6. CASE Abandon(v) \/ Commit(v) \/ FailPoll(v)
    <3>1. CASE Stop(v)
      BY <3>1 DEF Stop, Idle, Inv, WorkerOK, Writing
    <3>2. CASE Goto(v, "fail")
      BY <3>2 DEF Goto, Inv, WorkerOK, Tick, Writing
    <3>3. CASE Continue(v) /\ ~Stop(v)
      <4>1. worker'[v].step = "next"
        BY <3>3 DEF Continue, Inv, WorkerOK, Tick
      <4> QED
        BY <4>1 DEF Writing
    <3> QED
      BY <2>6, <3>1, <3>2, <3>3 DEF Abandon, Commit, FailPoll
  <2> QED
    BY <2>1, <2>2, <2>3, <2>4, <2>5, <2>6 DEF Run
<1> QED
  BY <1>1, <1>2 DEF Exclusive, Untouched, Current

\* Only Commit and FailPoll write a leg's status or due time.
LEMMA LegsKeptElsewhere ==
  ASSUME Inv, NEW v \in Worker, Run(v) \/ Abandon(v), ~Commit(v), ~FailPoll(v)
  PROVE  LegsKept /\ trip' = trip
<1>1. CASE Claim(v)
  <2>1. PICK picked \in SUBSET Leg :
          leg' = [l \in Leg |->
              IF l \in picked THEN [leg[l] EXCEPT !.lease = clock + Lease]
                              ELSE leg[l]]
    BY <1>1 DEF Claim
  <2> QED
    BY <1>1, <2>1 DEF Inv, StoreOK, Row, LegsKept, Claim
<1>2. CASE ~Claim(v)
  BY <1>2 DEF Run, Abandon, EndPoll, BeginComplete, CheckTrip, CompleteRaises,
     StartPoll, stored, LegsKept
<1> QED
  BY <1>1, <1>2

\* What v saw stays true when a step keeps v's place and its leg's row.
LEMMA SettledKept ==
  ASSUME Inv, Inv', Settled, NEW w \in Worker,
         worker'[w] = worker[w],
         \A l \in Leg : leg[l].status = "completed" => leg'[l].status = "completed",
         worker[w].step = "commit" /\ Applies(Current(w)) =>
            leg'[Current(w).leg].due = leg[Current(w).leg].due,
         worker'[w].step = "commit", worker'[w].allDone
  PROVE  /\ Completed(w)'.status = "completed"
         /\ \A k \in Companions(Current(w).leg)' : leg'[k].status = "completed"
<1>1. Current(w)' = Current(w) /\ Current(w).leg \in Leg
  BY LockedRow DEF Current, Holding
<1>2. /\ Completed(w).status = "completed"
      /\ \A k \in Companions(Current(w).leg) : leg[k].status = "completed"
  BY DEF Settled
<1>3. \/ /\ Applies(Current(w)) /\ Over(Current(w).leg, worker[w].now)
      \/ leg[Current(w).leg].status = "completed"
  BY <1>2, CompletedStatus DEF Holding
<1>4. \/ /\ Applies(Current(w))' /\ Over(Current(w).leg, worker[w].now)'
      \/ leg'[Current(w).leg].status = "completed"
  BY <1>1, <1>3 DEF Applies, Over
<1>5. Completed(w)'.status = "completed"
  <2> DEFINE l == Current(w).leg
  <2>1. CASE Applies(Current(w))'
    <3>1. leg'[l].status # "completed"
      BY <1>1, <2>1, LockedRow, SchedulerAssumption
         DEF Applies, Inv, ScheduledWhileActive, Holding
    <3>2. Over(l, worker[w].now)'
      BY <1>1, <1>4, <3>1
    <3> QED
      BY <1>1, <2>1, <3>2 DEF Completed
  <2>2. CASE ~Applies(Current(w))'
    BY <1>1, <1>4, <2>2 DEF Completed
  <2> QED
    BY <2>1, <2>2
<1>6. Companions(Current(w).leg)' = Companions(Current(w).leg)
  BY <1>1 DEF Companions
<1> QED
  BY <1>1, <1>2, <1>5, <1>6 DEF Companions
\* Only the check of the trip leads to the statement that writes it.
LEMMA CommitAfterCheck ==
  ASSUME Inv, NEW v \in Worker, Run(v) \/ Abandon(v), ~CheckTrip(v)
  PROVE  worker'[v].step # "commit"
<1>1. CASE Claim(v)
  <2>1. worker'[v].step = "next"
    BY <1>1 DEF Claim, Idle, Inv, WorkerOK
  <2> QED
    BY <2>1
<1>2. CASE \E attempt \in worker[v].claimed : StartPoll(v, attempt)
  BY <1>2 DEF StartPoll, Inv, WorkerOK, Tick
<1>3. CASE EndPoll(v) \/ BeginComplete(v) \/ CompleteRaises(v)
  BY <1>3 DEF EndPoll, BeginComplete, CompleteRaises, Goto, Inv, WorkerOK, Tick
<1>4. CASE Abandon(v) \/ Commit(v) \/ FailPoll(v)
  <2>1. CASE Stop(v)
    BY <2>1 DEF Stop, Idle, Inv, WorkerOK
  <2>2. CASE Goto(v, "fail")
    BY <2>2 DEF Goto, Inv, WorkerOK, Tick
  <2>3. CASE Continue(v) /\ ~Stop(v)
    BY <2>3 DEF Continue, Inv, WorkerOK, Tick
  <2> QED
    BY <1>4, <2>1, <2>2, <2>3 DEF Abandon, Commit, FailPoll
<1> QED
  BY <1>1, <1>2, <1>3, <1>4 DEF Run

\* What the check answers, and that it changes nothing it looked at.
LEMMA CheckTripAnswer ==
  ASSUME Inv, NEW v \in Worker, CheckTrip(v)
  PROVE  /\ worker'[v].allDone =
              (/\ Completed(v).status = "completed"
               /\ \A k \in Companions(Current(v).leg) :
                     leg[k].status = "completed")
         /\ Completed(v)' = Completed(v)
         /\ Companions(Current(v).leg)' = Companions(Current(v).leg)
         /\ leg' = leg /\ trip' = trip
<1> DEFINE done == /\ Completed(v).status # "active"
                   /\ \A k \in Companions(Current(v).leg) :
                         leg[k].status # "active"
<1>1. /\ worker' = [worker EXCEPT ![v].step = "commit", ![v].allDone = done]
      /\ leg' = leg /\ trip' = trip /\ worker[v].step = "check"
  BY DEF CheckTrip, stored
<1>2. done = (/\ Completed(v).status = "completed"
              /\ \A k \in Companions(Current(v).leg) :
                    leg[k].status = "completed")
  <2>1. Completed(v).status \in {"active", "completed"}
    BY <1>1, CompletedStatus DEF Holding
  <2>2. \A k \in Companions(Current(v).leg) :
           leg[k].status \in {"active", "completed"}
    BY DEF Companions, Inv, StoreOK, Row
  <2> QED
    BY <2>1, <2>2
<1> HIDE DEF done
<1>3. /\ worker'[v].allDone = done
      /\ worker'[v].current = worker[v].current
      /\ worker'[v].now = worker[v].now
  BY <1>1 DEF Inv, WorkerOK, Tick
<1>4. leg' = leg
  BY <1>1
<1>5. Current(v)' = Current(v)
  BY <1>3 DEF Current
<1>6. Applies(Current(v))' = Applies(Current(v))
  BY <1>4, <1>5 DEF Applies
<1>7. Completed(v)' = Completed(v)
  BY <1>3, <1>4, <1>5, <1>6 DEF Completed
<1>8. Companions(Current(v).leg)' = Companions(Current(v).leg)
  BY <1>5 DEF Companions
<1> QED
  BY <1>1, <1>2, <1>3, <1>7, <1>8

LEMMA TripStep ==
  ASSUME Inv, Inv', TripInv, NEW v \in Worker, Run(v) \/ Abandon(v)
  PROVE  TripInv'
<1> DEFINE Done(f, t) == \A l \in Leg : TripOf[l] = t => f[l].status = "completed"
<1>1. Exclusive' /\ Untouched(v)
  BY ExclusiveKept, StepsLeaveOthers DEF TripInv
<1>2. /\ \A l \in Leg : leg[l].status = "completed" => leg'[l].status = "completed"
      /\ \A w \in Worker \ {v} :
            worker[w].step = "commit" /\ Applies(Current(w)) =>
               leg'[Current(w).leg].due = leg[Current(w).leg].due
  <2>1. CASE Commit(v) \/ FailPoll(v)
    BY <2>1, LegsOfOthers DEF TripInv
  <2>2. CASE ~Commit(v) /\ ~FailPoll(v)
    <3>1. LegsKept
      BY <2>2, LegsKeptElsewhere
    <3>2. \A w \in Worker : worker[w].step = "commit" => Current(w).leg \in Leg
      BY LockedRow DEF Holding
    <3> QED
      BY <3>1, <3>2 DEF LegsKept
  <2> QED
    BY <2>1, <2>2
<1>3. ASSUME NEW w \in Worker, worker'[w].step = "commit", worker'[w].allDone
      PROVE  /\ Completed(w)'.status = "completed"
             /\ \A k \in Companions(Current(w).leg)' : leg'[k].status = "completed"
  <2>1. CASE w # v
    BY <1>1, <1>2, <1>3, <2>1, SettledKept DEF TripInv, Untouched
  <2>2. CASE w = v /\ CheckTrip(v)
    BY <1>3, <2>2, CheckTripAnswer
  <2>3. CASE w = v /\ ~CheckTrip(v)
    BY <1>3, <2>3, CommitAfterCheck
  <2> QED
    BY <2>1, <2>2, <2>3
<1>4. ASSUME NEW t \in Trip, trip'[t] = "completed"
      PROVE  Done(leg', t)
  <2>1. CASE trip[t] = "completed"
    BY <1>2, <2>1 DEF TripInv, TripNotCompletedEarly
  <2>2. CASE trip[t] # "completed"
    <3>1. Commit(v) /\ worker[v].allDone /\ TripOf[Current(v).leg] = t
      <4>1. Commit(v)
        BY <1>4, <2>2, LegsKeptElsewhere DEF FailPoll
      <4>2. Current(v).leg \in Leg
        BY <4>1, LockedRow DEF Commit, Holding
      <4> QED
        BY <1>4, <2>2, <4>1, <4>2, SchedulerAssumption DEF Commit, Inv, StoreOK
    <3>2. worker[v].step = "commit" /\ Current(v).leg \in Leg
      BY <3>1, LockedRow DEF Commit, Holding
    <3>3. /\ Completed(v).status = "completed"
          /\ \A k \in Companions(Current(v).leg) : leg[k].status = "completed"
      BY <3>1, <3>2 DEF TripInv, Settled
    <3>4. leg'[Current(v).leg] = Completed(v)
      BY <3>1, <3>2 DEF Commit, Inv, StoreOK
    <3> QED
      BY <1>2, <3>1, <3>2, <3>3, <3>4 DEF Companions
  <2> QED
    BY <2>1, <2>2
<1> QED
  BY <1>1, <1>3, <1>4 DEF TripInv, Settled, TripNotCompletedEarly

LEMMA TripInvariance == Spec => []TripInv
<1>1. Init => TripInv
  BY DEF Init, TripInv, Exclusive, Settled, TripNotCompletedEarly, Idle, Writing
<1>2. Inv /\ Inv' /\ TripInv /\ [Next]_vars => TripInv'
  <2> SUFFICES ASSUME Inv, Inv', TripInv, [Next]_vars PROVE TripInv'
    OBVIOUS
  <2>1. CASE UNCHANGED <<worker, leg, trip>>
    <3>1. Exclusive' /\ TripNotCompletedEarly'
      BY <2>1 DEF TripInv, Exclusive, TripNotCompletedEarly, Current
    <3>2. Settled'
      BY <2>1 DEF TripInv, Settled, Completed, Current, Applies, Companions
    <3> QED
      BY <3>1, <3>2 DEF TripInv
  <2>2. ASSUME NEW v \in Worker, Run(v) \/ Abandon(v) PROVE TripInv'
    BY <2>2, TripStep
  <2> QED
    BY <2>1, <2>2 DEF Next, Advance, stored, vars
<1> QED
  BY <1>1, <1>2, Invariance, PTL DEF Spec

\* However many workers complete polls of a trip at once, and whichever of
\* them fail, no trip is completed while a leg of it is still monitored
\* (trip_store.py, complete_poll).
THEOREM TripNotEarly == Spec => []TripNotCompletedEarly
<1>1. TripInv => TripNotCompletedEarly
  BY DEF TripInv
<1> QED
  BY <1>1, TripInvariance, PTL

-----------------------------------------------------------------------------
(* The converse needs that no other worker is completing the trip's other  *)
(* leg: two transactions that each see the other's leg as it was leave the *)
(* trip active for good.                                                   *)

\* With one worker the answer of the check is exact, and every trip whose legs
\* are all complete has been completed.
Exact ==
    \A w \in Worker :
        worker[w].step = "commit" =>
            worker[w].allDone = (/\ Completed(w).status = "completed"
                                 /\ \A k \in Companions(Current(w).leg) :
                                       leg[k].status = "completed")

SoloInv == Exact /\ TripFollowsLegs

LEMMA SoloStep ==
  ASSUME Inv, Inv', TripNotCompletedEarly', SoloInv,
         NEW v \in Worker, \A w \in Worker : w = v, Run(v) \/ Abandon(v)
  PROVE  SoloInv'
<1>1. CASE CheckTrip(v)
  <2>1. Exact'
    BY <1>1, CheckTripAnswer DEF Exact
  <2>2. leg' = leg /\ trip' = trip
    BY <1>1, CheckTripAnswer
  <2>3. TripFollowsLegs'
    BY <2>2 DEF SoloInv, TripFollowsLegs
  <2> QED
    BY <2>1, <2>3 DEF SoloInv
<1>2. CASE ~CheckTrip(v)
  <2>1. worker'[v].step # "commit"
    BY <1>2, CommitAfterCheck
  <2>2. Exact'
    BY <2>1 DEF Exact
  <2>3. ASSUME NEW t \in Trip,
               \A l \in Leg : TripOf[l] = t => leg'[l].status = "completed"
        PROVE  trip'[t] = "completed"
    <3>1. CASE trip[t] = "completed"
      BY <3>1, SchedulerAssumption, LegsKeptElsewhere
         DEF Commit, FailPoll, Inv, StoreOK
    <3>2. CASE trip[t] # "completed"
      <4>1. PICK k \in Leg : TripOf[k] = t /\ leg[k].status # "completed"
        BY <3>2 DEF SoloInv, TripFollowsLegs
      <4>2. leg'[k].status # leg[k].status
        BY <2>3, <4>1
      <4>3. Commit(v)
        <5>1. CASE FailPoll(v)
          <6>1. leg'[k].status = leg[k].status
            BY <5>1 DEF FailPoll, Inv, StoreOK, Row
          <6> QED
            BY <4>2, <6>1
        <5> QED
          BY <4>2, <5>1, LegsKeptElsewhere DEF LegsKept
      <4>4. /\ Current(v).leg \in Leg /\ worker[v].step = "commit"
            /\ leg' = [leg EXCEPT ![Current(v).leg] = Completed(v)]
        BY <4>3, LockedRow DEF Commit, Holding
      <4>5. k = Current(v).leg /\ Completed(v).status = "completed"
        BY <2>3, <4>1, <4>2, <4>4 DEF Inv, StoreOK
      <4>6. \A j \in Companions(k) : leg[j].status = "completed"
        BY <2>3, <4>1, <4>4, <4>5 DEF Companions, Inv, StoreOK
      <4>7. worker[v].allDone
        BY <4>4, <4>5, <4>6 DEF SoloInv, Exact
      <4> QED
        BY <4>1, <4>3, <4>5, <4>7, SchedulerAssumption DEF Commit, Inv, StoreOK
    <3> QED
      BY <3>1, <3>2
  <2> QED
    BY <2>2, <2>3 DEF SoloInv, TripFollowsLegs, TripNotCompletedEarly
<1> QED
  BY <1>1, <1>2

\* With a single worker, and every trip having a leg, a trip is completed
\* exactly when all of its legs are: whichever polls fail and whenever the
\* worker stops between two of its transactions.
THEOREM TripFollowsWithOneWorker ==
  ASSUME \A v, w \in Worker : v = w,
         \A t \in Trip : \E l \in Leg : TripOf[l] = t
  PROVE  Spec => []TripFollowsLegs
<1>1. Init => SoloInv
  <2> SUFFICES ASSUME Init PROVE SoloInv
    OBVIOUS
  <2>1. Exact
    BY DEF Init, Exact, Idle
  <2>2. \A t \in Trip : trip[t] # "completed"
    BY DEF Init
  <2>3. \A l \in Leg : leg[l].status # "completed"
    BY DEF Init
  <2> QED
    BY <2>1, <2>2, <2>3 DEF SoloInv, TripFollowsLegs
<1>2. Inv /\ Inv' /\ TripNotCompletedEarly' /\ SoloInv /\ [Next]_vars => SoloInv'
  <2> SUFFICES ASSUME Inv, Inv', TripNotCompletedEarly', SoloInv, [Next]_vars
               PROVE  SoloInv'
    OBVIOUS
  <2>1. CASE UNCHANGED <<worker, leg, trip>>
    <3>1. TripFollowsLegs'
      BY <2>1 DEF SoloInv, TripFollowsLegs
    <3>2. Exact'
      <4>1. worker' = worker /\ leg' = leg
        BY <2>1
      <4>2. ASSUME NEW w \in Worker
            PROVE  /\ Completed(w)' = Completed(w)
                   /\ Companions(Current(w).leg)' = Companions(Current(w).leg)
        BY <4>1 DEF Completed, Current, Applies, Companions
      <4> QED
        BY <4>1, <4>2 DEF SoloInv, Exact
    <3> QED
      BY <3>1, <3>2 DEF SoloInv
  <2>2. ASSUME NEW v \in Worker, Run(v) \/ Abandon(v) PROVE SoloInv'
    BY <2>2, SoloStep
  <2> QED
    BY <2>1, <2>2 DEF Next, Advance, stored, vars
<1>3. SoloInv => TripFollowsLegs
  BY DEF SoloInv
<1> QED
  BY <1>1, <1>2, <1>3, Invariance, TripNotEarly, PTL DEF Spec
-----------------------------------------------------------------------------
(* The last poll before a departure.  The next poll is counted from the    *)
(* reading of the clock the worker's tick began with, which may be long    *)
(* past but is never ahead of the clock: this is what DepartureCovered     *)
(* needs to be kept when a late worker completes or fails an attempt.      *)

NotAhead == \A w \in Worker : worker[w].now <= clock

LEMMA ReadingsKept ==
  ASSUME Inv, NEW v \in Worker, Run(v) \/ Abandon(v)
  PROVE  /\ clock' = clock
         /\ worker'[v].now \in {worker[v].now, clock, 0}
<1>1. clock' = clock
  BY DEF Run, Abandon, Claim, StartPoll, EndPoll, BeginComplete, CheckTrip,
     Commit, CompleteRaises, FailPoll
<1>2. CASE Claim(v)
  BY <1>2 DEF Claim, Idle, Inv, WorkerOK
<1>3. CASE \E attempt \in worker[v].claimed : StartPoll(v, attempt)
  BY <1>3 DEF StartPoll, Inv, WorkerOK, Tick
<1>4. CASE EndPoll(v) \/ BeginComplete(v) \/ CompleteRaises(v) \/ CheckTrip(v)
  BY <1>4 DEF EndPoll, BeginComplete, CompleteRaises, CheckTrip, Goto, Inv,
     WorkerOK, Tick
<1>5. CASE Abandon(v) \/ Commit(v) \/ FailPoll(v)
  <2>1. CASE Stop(v)
    BY <1>1, <2>1 DEF Stop, Idle, Inv, WorkerOK
  <2>2. CASE Goto(v, "fail")
    BY <1>1, <2>2 DEF Goto, Inv, WorkerOK, Tick
  <2>3. CASE Continue(v) /\ ~Stop(v)
    BY <1>1, <2>3 DEF Continue, Inv, WorkerOK, Tick
  <2> QED
    BY <1>5, <2>1, <2>2, <2>3 DEF Abandon, Commit, FailPoll
<1> QED
  BY <1>1, <1>2, <1>3, <1>4, <1>5 DEF Run

LEMMA NotAheadStep ==
  ASSUME Inv, NotAhead, NEW v \in Worker, Run(v) \/ Abandon(v)
  PROVE  NotAhead'
<1>1. clock \in Nat
  BY SchedulerAssumption DEF Inv, StoreOK
<1>2. ASSUME NEW w \in Worker PROVE worker'[w].now <= clock'
  <2>1. CASE w = v
    BY <1>1, <2>1, ReadingsKept DEF NotAhead
  <2>2. CASE w # v
    BY <2>2, StepsLeaveOthers, ReadingsKept DEF NotAhead, Untouched
  <2> QED
    BY <2>1, <2>2
<1> QED
  BY <1>2 DEF NotAhead

\* A row that Commit or FailPoll leaves keeps the leg covered.
LEMMA CoveredRow ==
  ASSUME Inv, NotAhead, DepartureCovered, NEW v \in Worker,
         Commit(v) \/ FailPoll(v), NEW l \in Leg, clock < Departure[l]
  PROVE  \/ leg'[l].status = "active" /\ leg'[l].due < Departure[l] + 10
         \/ leg'[l].status = "completed" /\ Over(l, clock)
<1> DEFINE a == Current(v)
           now == worker[v].now
<1>1. worker[v].step \in Holding
  BY DEF Commit, FailPoll, Holding
<1>2. a.leg \in Leg /\ a.due # None
  BY <1>1, LockedRow
<1>3. /\ now \in Int /\ clock \in Int /\ now <= clock
      /\ Departure[l] \in Int /\ Arrival[l] \in Int
  BY SchedulerAssumption DEF Inv, StoreOK, WorkerOK, Tick, NotAhead
<1>4. /\ leg \in [Leg -> Row]
      /\ \A k \in Leg : leg[k].due = None <=> leg[k].status = "completed"
  BY DEF Inv, StoreOK, ScheduledWhileActive
<1>5. CASE l # a.leg \/ ~Applies(a)
  <2>1. leg'[l] = leg[l]
    <3>1. CASE Commit(v)
      BY <1>2, <1>4, <1>5, <3>1 DEF Commit, Completed
    <3>2. CASE FailPoll(v)
      BY <1>2, <1>4, <1>5, <3>2 DEF FailPoll
    <3> QED
      BY <3>1, <3>2
  <2> QED
    BY <2>1 DEF DepartureCovered
<1>6. CASE l = a.leg /\ Applies(a)
  <2>1. leg[l].status = "active" /\ leg[l] \in Row
    BY <1>2, <1>4, <1>6 DEF Applies, Row
  <2>2. CASE Commit(v)
    <3>1. leg'[l] = Completed(v)
      BY <1>4, <1>6, <2>2 DEF Commit
    <3>2. CASE Over(l, now)
      <4>1. Completed(v).status = "completed"
        BY <1>6, <3>2 DEF Completed
      <4>2. Over(l, clock)
        BY <1>3, <3>2 DEF Over, Hours
      <4> QED
        BY <3>1, <4>1, <4>2
    <3>3. CASE ~Over(l, now)
      <4>1. Completed(v).status = "active" /\ Completed(v).due = NextPoll(l, now)
        BY <1>6, <3>3 DEF Completed
      <4>2. NextPoll(l, now) < Departure[l] + 10
        BY <1>3, IntervalsStopAtDeparture
      <4> QED
        BY <3>1, <4>1, <4>2
    <3> QED
      BY <3>2, <3>3
  <2>3. CASE FailPoll(v)
    <3>1. leg'[l] = [leg[l] EXCEPT !.due = now + RetryDelay, !.lease = None]
      BY <1>4, <1>6, <2>3 DEF FailPoll
    <3>2. leg'[l].status = "active" /\ leg'[l].due = now + RetryDelay
      BY <2>1, <3>1 DEF Row
    <3>3. now + RetryDelay < Departure[l] + 10
      BY <1>3 DEF RetryDelay
    <3> QED
      BY <3>2, <3>3
  <2> QED
    BY <2>2, <2>3
<1> QED
  BY <1>5, <1>6

LEMMA CoveredStep ==
  ASSUME Inv, NotAhead, DepartureCovered, NEW v \in Worker, Run(v) \/ Abandon(v)
  PROVE  DepartureCovered'
<1>1. clock' = clock
  BY ReadingsKept
<1>2. CASE Commit(v) \/ FailPoll(v)
  BY <1>1, <1>2, CoveredRow DEF DepartureCovered, Over
<1>3. CASE ~Commit(v) /\ ~FailPoll(v)
  <2>1. LegsKept
    BY <1>3, LegsKeptElsewhere
  <2> QED
    BY <1>1, <2>1 DEF DepartureCovered, LegsKept, Over
<1> QED
  BY <1>2, <1>3

LEMMA CoveredAdvance ==
  ASSUME Inv, NotAhead, DepartureCovered, Advance
  PROVE  NotAhead' /\ DepartureCovered'
<1>1. /\ clock \in Int /\ clock' \in Int /\ clock < clock'
      /\ leg' = leg /\ worker' = worker
  BY SchedulerAssumption DEF Inv, StoreOK, Advance, stored
<1>2. \A w \in Worker : worker[w].now \in Int
  BY DEF Inv, WorkerOK, Tick
<1>3. NotAhead'
  BY <1>1, <1>2 DEF NotAhead
<1>4. ASSUME NEW l \in Leg, clock' < Departure[l]
      PROVE  \/ leg[l].status = "active" /\ leg[l].due < Departure[l] + 10
             \/ leg[l].status = "completed" /\ Over(l, clock')
  <2>1. Departure[l] \in Int /\ Arrival[l] \in Int
    BY SchedulerAssumption
  <2>2. \/ leg[l].status = "active" /\ leg[l].due < Departure[l] + 10
        \/ leg[l].status = "completed" /\ Over(l, clock)
    BY <1>1, <1>4, <2>1 DEF DepartureCovered
  <2>3. Over(l, clock) => Over(l, clock')
    BY <1>1, <2>1 DEF Over, Hours
  <2> QED
    BY <2>2, <2>3
<1> QED
  BY <1>1, <1>3, <1>4 DEF DepartureCovered, Over

\* For every timetable, and whatever workers were late, crashed or lost their
\* lease: a leg that has not departed is monitored and due at most ten
\* minutes after its departure, or two hours have passed since its stored
\* arrival.  The second happens to overnight legs, whose arrival is stored on
\* the day of their departure (parser.py:105, trip_store.py:45).
THEOREM DepartureObserved == Spec => []DepartureCovered
<1>1. Init => NotAhead /\ DepartureCovered
  <2> SUFFICES ASSUME Init PROVE NotAhead /\ DepartureCovered
    OBVIOUS
  <2>1. NotAhead
    BY DEF Init, NotAhead, Idle
  <2>2. \A l \in Leg : Departure[l] \in Int
    BY SchedulerAssumption
  <2> QED
    BY <2>1, <2>2 DEF Init, DepartureCovered
<1>2. Inv /\ NotAhead /\ DepartureCovered /\ [Next]_vars
        => NotAhead' /\ DepartureCovered'
  <2> SUFFICES ASSUME Inv, NotAhead, DepartureCovered, [Next]_vars
               PROVE  NotAhead' /\ DepartureCovered'
    OBVIOUS
  <2>1. CASE Advance
    BY <2>1, CoveredAdvance
  <2>2. ASSUME NEW v \in Worker, Run(v) \/ Abandon(v)
        PROVE  NotAhead' /\ DepartureCovered'
    BY <2>2, NotAheadStep, CoveredStep
  <2>3. CASE UNCHANGED vars
    BY <2>3 DEF vars, NotAhead, DepartureCovered, Over
  <2> QED
    BY <2>1, <2>2, <2>3 DEF Next
<1> QED
  BY <1>1, <1>2, Invariance, PTL DEF Spec

\* A leg whose stored arrival is no more than two hours before its departure,
\* as that of every leg that lands on its day of departure, is monitored
\* until it departs.
THEOREM MonitoredUntilDeparture ==
  ASSUME NEW l \in Leg, Departure[l] <= Arrival[l] + Hours(2)
  PROVE  Spec => [](clock < Departure[l] =>
                      leg[l].status = "active" /\ leg[l].due < Departure[l] + 10)
<1>1. Inv /\ DepartureCovered =>
        (clock < Departure[l] =>
           leg[l].status = "active" /\ leg[l].due < Departure[l] + 10)
  <2> SUFFICES ASSUME Inv, DepartureCovered, clock < Departure[l]
               PROVE  ~Over(l, clock)
    BY DEF DepartureCovered
  <2>1. clock \in Int /\ Departure[l] \in Int /\ Arrival[l] \in Int
    BY SchedulerAssumption DEF Inv, StoreOK
  <2> QED
    BY <2>1 DEF Over, Hours
<1> QED
  BY <1>1, Invariance, DepartureObserved, PTL
=============================================================================
