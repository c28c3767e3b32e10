SPECIFICATION Spec
CONSTANTS
    p = p
    q = q
    v = v
    w = w
    b = b
    c = c
    Imports = {1, 2}
    Stocks = {s1}
    Feeds <- FeedsSmall
    Lists <- ListsSmall
    Products = {p, q}
    Variants = {v, w}
    Texts = {"old", "new"}
    Codes = {b, c}
    Names = {"Coats", "coats"}
    Lower <- Case
    NoRow = NoRow
    NoCode = NoCode
    NoQty = NoQty
    Shops <- ShopsSmall
    MaxFaults = 1
CHECK_DEADLOCK FALSE
INVARIANTS
    CatalogTypeOK
    ResendIsQuiet
    CatalogMirrorsFeed
    JobTellsTheTruth
    DoublesOnlyByOverlap
