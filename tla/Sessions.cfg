SPECIFICATION Spec
CONSTANTS
    Patched <- MCPatched
    Legacy <- MCLegacy
    ClientRecipes <- MCClientRecipes
    Targets <- MCTargets
    Assets <- MCAssets
    Remainders <- MCRemainders
    Sources <- MCSources
    DiffPath = "diff"
    LegacyFiles = {"outer", "broken", "sourceless"}
    Contents <- MCContents
    MaxNested = 1
    MaxArchives = 2
    NamesMayClash = FALSE
CHECK_DEADLOCK FALSE
INVARIANTS
    AppliesAlike
    RecipesAreRight
    OnlyWholeDiffsAreRead
    LegacyTargetsAreMade
