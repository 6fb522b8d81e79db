SPECIFICATION MCSpec
CONSTANTS
    c1 = c1
    c2 = c2
    Datasets <- MCDatasets
    Served <- MCServed
    Stamps <- MCStamps
    Packages <- MCPackages
    Nothing = Nothing
    Contracts = {c1, c2}
    Loaders = {l1, l2}
    Roots = {"published"}
    MaxDeploys = 2
    MaxCatalogs = 3
SYMMETRY LoaderSymmetry
INVARIANTS
    StateDescribesRows
    OneCatalog
    ContractHeld
