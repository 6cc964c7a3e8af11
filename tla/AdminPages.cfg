SPECIFICATION Spec
CONSTANTS
    boss = boss u1 = u1 u2 = u2 k1 = k1 k2 = k2
    Users = {boss, u1, u2}
    Keys = {k1, k2}
    Tokens = {t1, t2, t3, t4}
    NoToken = NoToken
    Names = {"a", "b", "c", "Unnamed key"}
    Scenarios <- AllScenarios
    Lines = {"l1", "l2"}
    Category <- TagOf
    Deletion = "deletion"
    Tags = {"all", "warning"}
    lastSecond = 2
    maxPolls = 3
    maxEvents = 2
    b1 = b1 b2 = b2 r1 = r1 r2 = r2 r3 = r3
    Accounts = {u1}
    Browsers = {b1, b2}
    Owner <- OneOwner
    Requests = {r1, r2, r3}
    BrowserOf <- BrowserOfSlot
    Admins = {a1}
    Urls = {url1}
    RenewAfter = 0
    Lifetime = 1
    PresignLife = 0
    Schedules <- AllSchedules
SYMMETRY Interchangeable
INVARIANTS
    TypeOK KeysBounded PagesTrue LogsComplete
    StaysLoggedIn OutStaysOut DownloadedOnce
CHECK_DEADLOCK FALSE
