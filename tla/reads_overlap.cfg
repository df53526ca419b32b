SPECIFICATION Spec
CONSTANTS
    a1 = a1
    a2 = a2
    g1 = g1
    Author = {a1, a2}
    Genre = {g1}
    Year <- Years
    NoGenre = NoGenre
    NoYear = NoYear
    Book = {1, 2, 3}
    Rows <- FourRows
    Filters <- FewFilters
    Limit = 2
    Partition = 1
    MaxWrites = 2
    Unborn = Unborn
    Deleted = Deleted
    NoBook = NoBook
INVARIANTS
    TypeOK
    QuietWalkExact
    StableBooksSeen
    SimilarExact
    ExportIsSnapshot
    AuthorlessIsDeleted
