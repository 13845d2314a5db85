SPECIFICATION FairSpec
CONSTANTS
    e1 = e1
    notify = notify
    search = search
    r1 = r1
    r2 = r2
    q1 = q1
    o1 = o1
    o2 = o2
    Outbox = Outbox
    None = None
    Event = {e1}
    Consumer = {notify, search}
    Receiver = {r1, r2}
    Serves <- MCServes
    Request = {q1}
    Call = {o1, o2}
    MaxCopies = 3
    MaxDeliveries = 2
    BatchSize = 2
    MaxFaults = 1
CHECK_DEADLOCK FALSE
INVARIANTS
    DeletedOnlyWithResult
    FanOutComplete
    OneRunAtATime
    RedrivenOncePerRequest
    MarkedAfterPublication
PROPERTIES
    EventsSettled
