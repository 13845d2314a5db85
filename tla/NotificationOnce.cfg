SPECIFICATION Spec
CONSTANTS
    d1 = d1
    m1 = m1
    m2 = m2
    None = None
    Unreadable = Unreadable
    DecisionId = {d1}
    Message = {m1, m2}
    Body <- MCBody
    Event <- MCEvent
    Candidate <- MCCandidate
    Replica = {r1, r2}
    Hook = {h1, h2}
    Sid = {1, 2, 3}
    CarrierStatus = {"sent", "undelivered"}
    MaxDeliveries = 2
    MaxAttempts = 2
    MaxFaults = 1
    MaxRestarts = 1
    MaxTimeouts = 0
SYMMETRY Symmetry
CHECK_DEADLOCK FALSE
INVARIANTS
    RepeatsAccountedFor
PROPERTIES
    CallbacksOnlyAdvance
