SPECIFICATION MCSpec
CONSTANTS
    Missing = Missing
    Nothing = Nothing
    people = people
    seats = seats
    Datasets <- MCDatasets
    RowCounts <- MCCounts
    Bodies = {x}
    Contracts = {c1, c2}
    Versions <- MCVersions
    Floor = 1
    MaxShrink = 10
    Window = 2
    MaxStamp = 4
    MaxCrashes = 1

INVARIANTS
    CatalogComplete
    VersionPinsContract
    NoChurn
    ShrinkGated
PROPERTIES
    CatalogFollowsBuild
    ImplementsTree
