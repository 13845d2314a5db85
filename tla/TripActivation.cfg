SPECIFICATION FairSpec
CONSTANTS
    t1 = t1
    anna = anna
    bob = bob
    ticket = ticket
    scan = scan
    home = home
    work = work
    a1 = a1
    a2 = a2
    other = other
    image = image
    wrong = wrong
    None = None
    Trip = {t1}
    Traveler = {anna, bob}
    Pdf = {ticket, scan}
    Phone = {home, work}
    Call = {a1, a2, other, image, wrong}
    Form <- MCForm
    Content <- MCContent
    LlmAnswer <- MCLlmAnswer
    Zone <- MCZone
    LlmMode = "fallback"
    MaxFaults = 1
CHECK_DEADLOCK FALSE
INVARIANTS
    EvidenceStored
    RowOfOneUpload
    OneActivation
PROPERTIES
    UploadsAnswered
