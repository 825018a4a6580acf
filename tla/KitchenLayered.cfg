SPECIFICATION Spec
CONSTANTS
    Items <- LayeredItems
    Recipes <- LayeredRecipes
    ResultOf <- LayeredResult
    IngredientsOf <- LayeredIngredients
    KindOf <- LayeredKind
    Unpreparable = {1, 4}
    ZeroLength = {"z"}
    NoItem = NoItem
    NoRecipe = NoRecipe
    ArchivePantries <- LayeredPantries
    ArchiveCookbooks <- LayeredCookbooks
    StoredItems = {"s"}
    AddedRecipes = {5}
    Requests = {"t", "x"}
    ProcessModes <- AllModes
    MaxSources = 3
CHECK_DEADLOCK FALSE
INVARIANTS
    IInv
    UnreachableIsUnderivable
PROPERTIES
    DerivesOnlyDerivable
    ResultsStable
