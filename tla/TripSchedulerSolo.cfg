SPECIFICATION FairSpec
CONSTANTS
    out = out
    back = back
    t1 = t1
    None = None
    Leg = {out, back}
    Trip = {t1}
    TripOf <- MCTripOf
    Departure <- MCDeparture
    Arrival <- MCArrival
    Lease = 2
    Worker = {w1}
    MaximumLegs = 1
    Instant = {0, 2, 5, 7, 10, 12, 20, 220}
    MaxFaults = 2
CHECK_DEADLOCK FALSE
PROPERTIES
    DueLegsPolled
