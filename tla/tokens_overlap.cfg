SPECIFICATION Spec
CONSTANTS
    User = {u1, u2}
    Token = {t1, t2, t3, t4}
    Proc = {p1, p2}
    NoToken = NoToken
    NoUser = NoUser
    NoRow = NoRow
    MaxExpired = 0
    MaxSessions = 2
    Orders = {"commit_first"}
SYMMETRY Symmetry
INVARIANTS
    TypeOK
    RotationLinks
    SweepComplete
    ForkBound
    EscalatesOnlyOnRotated
    HeldIsStored
PROPERTIES
    RevocationIsFinal
    OtherUsersUntouched
    LedgerImplemented
