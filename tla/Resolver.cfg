SPECIFICATION Spec
CONSTANTS
    Ids <- MCIds
    Catalogs <- MCCatalogs
INVARIANTS
    OrderIsTopological
    CycleErrorIsRight
    CycleErrorNamesTheBlocked
    OrderIsDeterministic
