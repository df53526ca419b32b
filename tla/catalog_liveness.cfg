SPECIFICATION FairSpec
CONSTANTS
    Book = {b1}
    Author = {a1, a2}
    Genre = {}
    Proc = {p1, p2}
    NoGenre = NoGenre
    Unborn = Unborn
    Deleted = Deleted
    NoBook = NoBook
    Keep = Keep
PROPERTIES
    EveryRequestEnds
