---------------------------- MODULE FlightAgency ----------------------------
(***************************************************************************)
(* The flight agency simulator (flight_agency_service.py): the state of one *)
(* flight, its revisions, and the observation the flight status provider    *)
(* reads from it.  Every operation holds the store's lock: an action each.  *)
(* The records live in the process: a restart, like DELETE /v1/flights,     *)
(* forgets them.                                                            *)
(***************************************************************************)
EXTENDS Integers

CONSTANTS
    Facts,          \* operational states a flight may be in
    Booked,         \* the one its itinerary was booked with
    MaxRevision     \* bound on the revisions of a record

ASSUME AgencyAssumption ==
    /\ Booked \in Facts
    /\ MaxRevision \in Nat \ {0}

VARIABLES
    flight,         \* the flight's record, or NoFlight
    now,            \* the agency's clock
    forgotten       \* history: the records were lost

agency == <<flight, now, forgotten>>

NoFlight == [revision |-> 0, updated |-> 0, facts |-> Booked]

Record == [revision : 1 .. MaxRevision, updated : Nat, facts : Facts]

AgencyInit == flight = NoFlight /\ now = 0 /\ forgotten = FALSE

\* _next_changed_at: later than every change before, even if the clock stood
\* still; only the order of the times matters.
NextChangedAt == now + 1

\* seed_batch without reset_existing: a flight already known stays as it is.
Seed ==
    /\ flight = NoFlight
    /\ now' = NextChangedAt
    /\ flight' = [revision |-> 1, updated |-> NextChangedAt, facts |-> Booked]
    /\ UNCHANGED forgotten

\* Mutant: an update keeps the revision.
MutateInPlace(facts) ==
    /\ flight # NoFlight
    /\ facts # flight.facts
    /\ now' = NextChangedAt
    /\ flight' = [flight EXCEPT !.updated = NextChangedAt, !.facts = facts]
    /\ UNCHANGED forgotten

\* mutate, and reset with the booked facts: a value that is not new makes no
\* revision.
Mutate(facts) ==
    /\ flight # NoFlight
    /\ facts # flight.facts
    /\ flight.revision < MaxRevision
    /\ now' = NextChangedAt
    /\ flight' = [revision |-> flight.revision + 1, updated |-> NextChangedAt,
                  facts |-> facts]
    /\ UNCHANGED forgotten

\* reset_all, or a restart.
Forget ==
    /\ flight # NoFlight
    /\ flight' = NoFlight
    /\ forgotten' = TRUE
    /\ UNCHANGED now

\* observation: the id names flight, date and revision, not the change.
Observation == [id |-> flight.revision, time |-> flight.updated,
                facts |-> flight.facts]

Operate == Seed \/ \E f \in Facts : Mutate(f)
=============================================================================
