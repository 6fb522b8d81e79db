\* Three commands, one after another, on two dates of one departure.
CONSTANTS
    day1 = day1
    day2 = day2
    vacated1 = vacated1
    Commands <- MCCommands
    Facts = {f1}
    Keys <- MCKeys
    KindOf <- MCKindOf
    NoCommand = NoCommand
    NoKey = NoKey
    NoRow = NoRow
    NoBody = NoBody
    AtOnce = 1
SPECIFICATION Spec
CHECK_DEADLOCK FALSE
INVARIANT ChainsEnd
