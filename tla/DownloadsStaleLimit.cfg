SPECIFICATION Spec
CONSTANTS
    s1 = s1
    NoRow = NoRow
    Free = Free
    Stripes = {s1}
    Stripe <- OneStripe
    Files = {f1}
    Requests = {r1, r2}
    Editors = {e1}
    Edits <- MakeLimited
    Writers = {}
    InitRows <- OnlyUnlimited
    MaxNow = 1
CHECK_DEADLOCK FALSE
INVARIANTS
    LimitRespected
