SPECIFICATION FairSpec
CONSTANTS
    c = c
    k1 = k1
    k2 = k2
    a1 = a1
    a2 = a2
    b1 = b1
    m1 = m1
    m2 = m2
    x = x
    y = y
    None = None
    Items = {m1, m2}
    Attachments = {a1, a2, b1}
    ItemOf <- AttachmentItems
    Hash <- AttachmentHashes
    NoObject = NoObject
    PerMessage = 1
    Capacity = 1
    Batch = 1
    MaxRequests = 3
    MaxCrashes = 1
INVARIANTS
    StorageIsSound
PROPERTIES
    EventsAreHandled
    ProviderEventsArrive
    OrphansAreCollected
CHECK_DEADLOCK FALSE
