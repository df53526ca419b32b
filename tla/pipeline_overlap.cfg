SPECIFICATION FairSpec
CONSTANTS
    lower = lower
    upper = upper
    other = other
    shared = shared
    single = single
    User = {u1, u2}
    Address = {lower, upper, other}
    Email = {shared, single}
    Casefold <- CasefoldOf
    Password = {w1, w2}
    Proc = {p1, p2}
    NoUser = NoUser
    NoRow = NoRow
    MaxBody = 1
    MaxSize = 3
    Orders = {"commit_first", "respond_first"}
INVARIANTS
    PipelineTypeOK
    OneAccountPerEmail
    ConflictIsReal
    AnsweredIsStored
    OversizeRefused
PROPERTIES
    ReadRequestsEnd
