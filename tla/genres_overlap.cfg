SPECIFICATION Spec
CONSTANTS
    Genre = {g1, g2, g3}
    Name <- Names
    Key <- Keys
    Slug <- Slugs
    Lower <- LowerOf
    Casefold <- CasefoldOf
    SlugOf <- SlugOfKey
    Proc = {p1, p2}
    NoRequest = NoRequest
    Unborn = Unborn
    Deleted = Deleted
    Keep = Keep
SYMMETRY Symmetry
INVARIANTS
    TypeOK
    NamesDistinct
    LoneSlugDerived
PROPERTIES
    DeletedForGood
