SPECIFICATION FairSpec
CONSTANTS
    d1 = d1
    m1 = m1
    m2 = m2
    None = None
    Unreadable = Unreadable
    DecisionId = {d1}
    Message = {m1, m2}
    Body <- MCBody
    Event <- MCEvent
    Candidate <- MCCandidate
    Replica = {r1}
    Hook = {h1}
    Sid = {1, 2, 3}
    CarrierStatus = {"undelivered"}
    MaxDeliveries = 3
    MaxAttempts = 2
    MaxFaults = 2
    MaxRestarts = 1
    MaxTimeouts = 1
CHECK_DEADLOCK FALSE
INVARIANTS
    TypeOK
    SettledOnlyWithResult
PROPERTIES
    EveryEventSettled
