SPECIFICATION FairSpec
CONSTANTS
    s1 = s1
    NoRow = NoRow
    Free = Free
    Stripes = {s1}
    Stripe <- OneStripe
    Files = {f1}
    Requests = {r1, r2}
    Editors = {e1}
    Edits <- AllEdits
    Writers = {w1}
    InitRows <- MixedRows
    MaxNow = 2
CHECK_DEADLOCK FALSE
INVARIANTS
    MutexDiscipline
    CountExact
    AllowanceConserved
    NoOverdraw
PROPERTIES
    AllowanceKept
    AllAnswered
