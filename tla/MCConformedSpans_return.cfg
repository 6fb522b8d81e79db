SPECIFICATION Spec
CONSTANTS
  LastBiennium = 2
  Length = 4
  Grace = 2
  Capacity <- MCCapacity
  Artifacts <- MCArtifacts
  EraStarts = {1}
  MaxHops = 1
  MinCoverage = 50
  Surname <- MCSurname
  Cases = {"returns"}
  Inputs <- Returns
INVARIANTS KeysUnique
CHECK_DEADLOCK FALSE
