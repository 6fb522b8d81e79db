SPECIFICATION Spec
CONSTANTS
    Keys = {w1, w2, r1}
    RosterKeys = {r1}
    Entities = {e1, e2, e3}
    Adjudicators = {op1, op2}
    None = None
    MaxDecisions = 2
SYMMETRY Symmetry
INVARIANTS
    EverySurvives
