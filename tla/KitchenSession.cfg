SPECIFICATION Spec
CONSTANTS
    Items <- CircularItems
    Recipes <- CircularRecipes
    ResultOf <- CircularResult
    IngredientsOf <- CircularIngredients
    KindOf <- CircularKind
    Unpreparable = {}
    ZeroLength = {}
    NoItem = NoItem
    NoRecipe = NoRecipe
    ArchivePantries <- CircularPantries
    ArchiveCookbooks <- CircularCookbooks
    StoredItems = {"s"}
    AddedRecipes = {5}
    Requests = {"t", "x"}
    ProcessModes <- PlainModes
    MaxSources = 3
INVARIANTS
    SelectedWellFounded
    PlanComplete
    OutcomeAccounted
    NeverCrashes
PROPERTIES
    DroppedRequestsAreFetchable
    ProcessReturns
