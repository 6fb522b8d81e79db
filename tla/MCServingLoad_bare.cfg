SPECIFICATION Spec
CONSTANTS
    c1 = c1
    c2 = c2
    Datasets <- MCOneDataset
    Served <- MCOneServed
    Stamps <- MCStamps
    Packages <- MCPackages
    Nothing = Nothing
    Contracts = {c1, c2}
    Loaders = {l1}
    Roots = {"published", "bare"}
    MaxDeploys = 2
    MaxCatalogs = 2
INVARIANTS
    StateDescribesRows
