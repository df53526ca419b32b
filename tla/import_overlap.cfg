SPECIFICATION Spec
CONSTANTS
    g1 = g1
    User = {u1, u2}
    Genre = {g1}
    Proc = {p1, p2}
    Import = {i1, i2, i3}
    File <- MixedFiles
    Limit = 1
    MaxErrors = 1
    Orders = {"commit_first", "respond_first"}
    Unparsable = Unparsable
    NoFile = NoFile
    NoUser = NoUser
    NoImport = NoImport
    NoSession = NoSession
SYMMETRY Symmetry
INVARIANTS
    TypeOK
    ReportAgrees
    RowsAtomic
    RowsIndependent
    RateBound
