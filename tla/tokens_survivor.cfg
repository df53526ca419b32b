SPECIFICATION Spec
CONSTANTS
    User = {u1}
    Token = {t1, t2, t3}
    Proc = {p1, p2}
    NoToken = NoToken
    NoUser = NoUser
    NoRow = NoRow
    MaxExpired = 0
    MaxSessions = 3
    Orders = {"commit_first"}
SYMMETRY Symmetry
INVARIANTS
    NoSurvivor
