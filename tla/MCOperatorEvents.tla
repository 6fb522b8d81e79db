-------------------------- MODULE MCOperatorEvents --------------------------
\* Two dates of one departure, and the departure read as a vacated seat.
EXTENDS OperatorEvents, TLC

CONSTANTS day1, day2, vacated1

MCCommands == 1..3
MCKeys == {day1, day2, vacated1}
MCKindOf == [k \in MCKeys |-> IF k = vacated1 THEN "vacated" ELSE "departed"]
MCSymmetry == Permutations(Facts) \cup Permutations({day1, day2})
=============================================================================
