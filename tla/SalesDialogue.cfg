SPECIFICATION Spec
CONSTANTS
    p1 = p1
    p2 = p2
    M = M
    L = L
    Products <- MCProducts
    Sizes <- MCSizes
    Carried <- MCCarried
    InStock <- MCInStock
    NoProduct = NoProduct
    NoSize = NoSize
    NoVariant = NoVariant
    Category = Category
    Messages <- MCMessages
    Whims = 3
    Patience = 7
CHECK_DEADLOCK FALSE
INVARIANTS
    ShippedWasAgreed
    SwappedNeverShips
    DeclinedReturnsOnlyAlone
    BuyerIsServed
PROPERTIES
    AnswersClose
