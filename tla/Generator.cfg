SPECIFICATION MCSpec
CONSTANTS
    Formats <- MCFormats
    Unzip <- MCUnzip
    Levels <- MCLevels
    Align = 2
    MaxGap = 2
    Pairs <- MCPairs
    TokensOf <- MCTokensOf
    MinDelta = 1
    MaxRuns = 2
    Plans <- MCPlans
    Length <- MCLength
    SmallSize = 1
    MINIMUM_SIZE = 2
    MAXIMUM_SIZE = 5
CHECK_DEADLOCK FALSE
INVARIANTS
    TokensAreOfTheArchives
    StagesAgree
    DiffRebuildsTarget
    CarriesNothingOfTheSource
    DeltasAreWhole
    RecipesAreUsable
    CatalogIsBest
PROPERTIES
    DeltasAreFinal
    RunEnds
