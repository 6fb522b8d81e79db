\* Three commands, overlapping or not.
CONSTANTS
    day1 = day1
    day2 = day2
    vacated1 = vacated1
    Commands <- MCCommands
    Facts = {f1, f2}
    Keys <- MCKeys
    KindOf <- MCKindOf
    NoCommand = NoCommand
    NoKey = NoKey
    NoRow = NoRow
    NoBody = NoBody
    AtOnce = 3
SYMMETRY MCSymmetry
SPECIFICATION Spec
CHECK_DEADLOCK FALSE
INVARIANTS
    SupersededOrRetracted
    ArchiveFollowsRows
    NewestNamesRow
PROPERTIES
    RetractionStands
    LinksNeverRestamped
