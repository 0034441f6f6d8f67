CONSTANTS
    r1 = r1
    r2 = r2
    r3 = r3
    h1 = h1
    h2 = h2
    user1 = user1
    user2 = user2
    source1 = source1
    source2 = source2
    Everyone = Everyone
    None = None
    Requests = {r1, r2, r3}
    Homes = {h1, h2}
    Subjects = {Everyone, user1, user2, source1, source2}
    HomeOf <- MCHomeOf
    UserOf <- MCUserOf
    SourceOf <- MCSourceOf
    SlotOf <- MCSlotOf
    Maximum <- MCMaximum
    Window <- MCWindow
    AuditSlots = 2
    Retention = 2
    Deadline = 1
    MaxOwnedHomes = 1
    MaxClock = 3
    MaxLostAcks = 1
SPECIFICATION Spec
CHECK_DEADLOCK FALSE
INVARIANTS
    TypeOK
    WindowsHold
    TicketKeepsItsRecord
    AuditTruthful
