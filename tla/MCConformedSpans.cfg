SPECIFICATION Spec
CONSTANTS
  LastBiennium = 2
  Length = 4
  Grace = 2
  Capacity <- MCCapacity
  Artifacts <- MCArtifacts
  EraStarts = {1}
  MaxHops = 1
  MinCoverage = 50
  Surname <- MCSurname
  Cases = {"careers", "handoffs", "threes", "neighbours",
           "editions", "curations", "movers", "ballotings"}
  Inputs <- MCInputs
INVARIANTS DeparturesHold BoundariesAgree OverlapsReported SeatsNotGuessed
CHECK_DEADLOCK FALSE
PROPERTIES NarrowsOnly
