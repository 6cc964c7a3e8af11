SPECIFICATION Spec
CONSTANTS
    a = a
    b = b
    h = h
    k = k
    p1 = p1
    p2 = p2
    p3 = p3
    p4 = p4
    p5 = p5
    None = None
    Procs = {p1, p2, p3, p4, p5}
    Files = {a, b}
    Hashes = {h, k}
    Scenarios <- UploadRaceScenario
    Delay = 1
CHECK_DEADLOCK FALSE
INVARIANTS
    LiveFilesStored
