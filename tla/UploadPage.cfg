SPECIFICATION FairSpec
CONSTANTS
    t1 = t1 t2 = t2 f1 = f1 f2 = f2
    Tabs = {t1, t2}
    Files = {f1, f2}
    NoFile = NoFile
    Notices <- AllNotices
    Statuses <- StatusEvents
    Scenarios <- AllScenarios
    bufferSize = 2
    Selections = {1, 2, 3}
    Contents <- Dropped
    Entries <- AllEntries
    Typed <- TypedNames
    batchSize = 2
    ZIP_FILENAME_MAX_BYTES = 6
    ZIP_MAX_TOTAL_SIZE = 6
    Limits = {0}
    Times = {1, 3}
    Today = 2
    MaxTouched = 1
INVARIANTS
    TypeOK OneConnection TableTrue KeysKept ArchiveWhole
PROPERTIES
    UploadShown EditKeepsUntouched
CHECK_DEADLOCK FALSE
