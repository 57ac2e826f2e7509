\* Three sources, at most four entries of a symbol, all modes, sensitivity 1.5.
SPECIFICATION Spec
CONSTANTS
    SensitivityNum = 3
    SensitivityDen = 2
    Sources = {1, 2, 3}
    Offers <- AllOffers
    WeightChoices <- Weights
    StandardWeight = 2
    Whitelist = {"uusd", "ukrw", "usdr", "UST"}
    One = 100
INVARIANTS
    TypeOK
    DenomsOnce
    MajorityDecides
    OrderIndependent
    ZeroMedianNeedsHalf
    LoneOutlierRejected
PROPERTY LuncAnywhereSuffices
