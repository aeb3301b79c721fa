SPECIFICATION FairSpec
CONSTANTS
    Items = {i1, i2}
    Slots = {1, 2}
    Orders = {o1}
    Unloads = {u1}
    Edits = {e1, e2}
    BatchSizes = {2}
    Quantities = {1, 2}
    ShelfLife <- MCShelfLife
    MaxClock = 1
    Cups = {1}
    Stocks <- MCStocks
    Doses <- MCDoses
    DefaultDose = 2
    Seeded = {i1}
    SeedStock = 3
    SeedDose = 1
    MaxGrams = 4
    None = None
    Null = Null
CONSTRAINT Apart
CHECK_DEADLOCK FALSE
INVARIANTS
    TypeOK
    QuantityCovered
    BooksBalance
    CupsFollowGrams
PROPERTIES
    PricedBatchIsTaken
    ExpiredIsCaught
