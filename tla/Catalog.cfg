SPECIFICATION CatalogSpec
CONSTANTS
    catalog = catalog
    Ids <- MCIds
    Catalogs <- MCCatalogs
    Capabilities = {catalog}
    Installations <- MCInstallations
INVARIANTS
    NothingImportedFromABrokenSet
    StartupHasGround
    ReasonsAreRight
    OnlyInstancesStayImported
