SPECIFICATION FairSpec
CONSTANTS
    p1 = p1 p2 = p2 e1 = e1 e2 = e2
    Clients = {p1, p2}
    Entries = {e1, e2}
    PageOf <- EntryPages
    numChunks = 2
    NoFile = NoFile
    Scenarios <- AllScenarios
    maxUuids = 2
    maxJobs = 3
    retries = 3
    maxWaits = 1
    NewLimits = {2, 9, 30}
    defaultLimits = {0, 1, 20}
    maxCalls = 2
INVARIANTS
    StoredFilesWhole StoredOnce QuotaKept PageSettled DoneIsStored ListingConsistent
PROPERTIES
    UploadEnds ReservationsReleased
CHECK_DEADLOCK FALSE
