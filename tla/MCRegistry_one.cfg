SPECIFICATION Spec
CONSTANTS
    Keys = {w1, w2, r1}
    RosterKeys = {r1}
    Entities = {e1, e2, e3}
    Adjudicators = {op}
    None = None
    MaxDecisions = 3
SYMMETRY Symmetry
INVARIANTS
    EverySurvives
    TombstonesReplay
    BindingsReplay
    ClustersStayWhole
PROPERTIES
    IdentityIsAdjudicated
