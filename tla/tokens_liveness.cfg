SPECIFICATION FairSpec
CONSTANTS
    User = {u1}
    Token = {t1, t2}
    Proc = {p1, p2}
    NoToken = NoToken
    NoUser = NoUser
    NoRow = NoRow
    MaxExpired = 1
    MaxSessions = 2
    Orders = {"commit_first", "respond_first"}
PROPERTIES
    EveryRequestEnds
