SPECIFICATION Spec
CONSTANTS
    out = out
    back = back
    t1 = t1
    None = None
    Leg = {out, back}
    Trip = {t1}
    TripOf <- MCTripOf
    Departure <- MCDeparture
    Arrival <- MCArrival
    Lease = 2
    Worker = {w1, w2}
    MaximumLegs = 2
    Instant = {0, 2, 5, 10, 12, 20, 220}
    MaxFaults = 1
CHECK_DEADLOCK FALSE
INVARIANTS
    TypeOK
    ScheduledWhileActive
    DepartureCovered
    TripNotCompletedEarly
PROPERTIES
    ScheduleAdvances
