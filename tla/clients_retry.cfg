SPECIFICATION ClientSpec
CONSTANTS
    u1 = u1
    User = {u1}
    Client = {c1, c2}
    UserOf <- OneUser
    Token = {t1, t2, t3}
    Proc = {p1, p2}
    NoToken = NoToken
    NoUser = NoUser
    NoRow = NoRow
    NoClient = NoClient
    MaxExpired = 0
    MaxSessions = 2
    Orders = {"commit_first", "respond_first"}
SYMMETRY Symmetry
INVARIANTS
    ClientTypeOK
    NoFalseAlarm
    WalletIsNewest
