SPECIFICATION Spec
CONSTANTS
    delay30 = delay30
    delay89 = delay89
    delay90 = delay90
    m1 = m1
    m2 = m2
    m3 = m3
    m4 = m4
    m5 = m5
    None = None
    Unreadable = Unreadable
    NotifyDelay = 30
    SearchDelay = 90
    Candidate = {delay30}
    Message = {m1}
    Replica = {r1, r2}
    Fact <- MCFact
    Body <- MCBody
    MaxDeliveries = 3
    MaxFaults = 1
PROPERTIES
    DecisionIsFinal
