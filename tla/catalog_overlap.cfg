SPECIFICATION Spec
CONSTANTS
    Book = {b1}
    Author = {a1, a2}
    Genre = {g1, g2}
    Proc = {p1, p2}
    NoGenre = NoGenre
    Unborn = Unborn
    Deleted = Deleted
    NoBook = NoBook
    Keep = Keep
SYMMETRY Symmetry
INVARIANTS
    TypeOK
    ReferencesHold
    LoneBookHasAuthor
PROPERTIES
    LonePatchExact
    LedgerImplemented
