SPECIFICATION Spec
CONSTANTS
    Missing = Missing
    Nothing = Nothing
    people = people
    seats = seats
    Datasets = {people}
    RowCounts <- MCCounts
    Bodies = {x}
    Contracts = {c1, c2}
    Versions <- MCVersions
    Floor = 1
    MaxShrink = 10
    Window = 2
    MaxStamp = 4
    MaxCrashes = 1
INVARIANTS
    OrphansLeftOut
