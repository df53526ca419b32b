SPECIFICATION Spec
CONSTANTS
    Genre = {g1, g2, g3}
    Name <- DottedNames
    Key <- Keys
    Slug <- Slugs
    Lower <- LowerOf
    Casefold <- CasefoldOf
    SlugOf <- SlugOfKey
    Proc = {p1}
    NoRequest = NoRequest
    Unborn = Unborn
    Deleted = Deleted
    Keep = Keep
INVARIANTS
    PreCheckDecides
