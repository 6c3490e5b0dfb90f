SPECIFICATION Spec
CONSTANTS
    Replicas = {1, 2}
    Handlers = {1}
    Names = {1, 2}
    Stores <- MCStores
    Catalogue <- MCCatalogue
    Requests <- MCRequests
    Readings <- MCReadings
    Registry = {"restart"}
    Default = "dryRun"
    Overrides <- MCOverrides
    Budgets <- MCBudgets
INVARIANTS
    OnlyOneAccepts
    RoutedToMostSpecific
    ActsOnlyWithMargin
    StopHolds
PROPERTIES
    StatusTellsTheTruth
