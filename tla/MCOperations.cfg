CONSTANTS
  Held = {"operator_events", "bills", "powermap_outbox", "adjudications"}
  Odd = {"powermap_outbox"}
  MaxMoves = 2
  Harvests = 2
  Probes = 1
  Accepted = {2}
  MaxNights = 2
SPECIFICATION MCSpec
INVARIANTS
  MigrationsFit
  ChainReversible
  ApplicationServed
  QuietMeansFresh
  WholeBuildsOnly
  OkMeansLanded
PROPERTIES
  AttestedRowsKept
  RehearsalApart
CHECK_DEADLOCK FALSE
