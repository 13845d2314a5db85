SPECIFICATION FairSpec
CONSTANTS
    p1 = p1
    LHR = LHR
    None = None
    Absent = Absent
    Ghost = Ghost
    Located = {LHR}
    Facts <- MCFacts
    Booked <- MCBooked
    Weather <- MCStorm
    Poller = {p1}
    MaxRevision = 3
    OutboxLimit = 20
    MaxFaults = 1
CHECK_DEADLOCK FALSE
INVARIANTS
    CandidateNotLost
    NothingSwallowed
    IdNamesOneState
PROPERTIES
    CandidatesPublished
