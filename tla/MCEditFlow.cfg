SPECIFICATION Spec
CONSTANTS
    Edits = {e1, e2}
    Earlier <- EarlierEdits
    MaxLive = 2
    MaxNumber = 20
    MaxMishaps = 1
INVARIANTS TypeOK ServedIsConsistent NoResultLost NumbersDistinct
PROPERTIES DeletedStaysDeleted EditSettles
