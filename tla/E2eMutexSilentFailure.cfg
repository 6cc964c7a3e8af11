SPECIFICATION Spec
CONSTANTS
    u1 = u1
    s1 = s1
    s2 = s2
    s3 = s3
    NoTimer = NoTimer
    UserOf <- OneUser
    Users = {u1}
    Sessions = {s1}
    Cli = {s1}
CHECK_DEADLOCK FALSE
INVARIANTS
    SuccessMeansSaved
