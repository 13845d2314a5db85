SPECIFICATION FairSpec
CONSTANTS
    d1 = d1
    d2 = d2
    m1 = m1
    m2 = m2
    m3 = m3
    r1 = r1
    r2 = r2
    LHR = LHR
    AMS = AMS
    CDG = CDG
    BA = BA
    AF = AF
    KL = KL
    None = None
    Unreadable = Unreadable
    DecisionId = {d1, d2}
    Searches = {d1}
    Message = {m1, m2, m3}
    Body <- MCBody
    Answer <- MCAnswer
    Command <- MCCommand
    SearchedAt = 0
    MaximumOffers = 2
    Replica = {r1, r2}
    MaxDeliveries = 2
    MaxFaults = 1
CHECK_DEADLOCK FALSE
INVARIANTS
    NotifyOnlyLeftAlone
    NothingBetterOffered
PROPERTIES
    ResultKept
    EveryEventSettled
