---------------------------- MODULE MCPublisher ----------------------------
(***************************************************************************)
(* Instances of Publisher.  The row counts are chosen around the 10% gate: *)
(* 100 -> 92 -> 85 decays under it step by step and fails it as a whole.   *)
(***************************************************************************)
EXTENDS Publisher

CONSTANTS people, seats

MCDatasets == {people, seats}
MCCounts == {85, 92, 100}
MCVersions == 1..2
SeatsTable == [rows |-> 100, body |-> CHOOSE x \in Bodies : TRUE,
               contract |-> CHOOSE c \in Contracts : TRUE]

\* The kill question: two datasets of one size, which no override concerns, published up to twice.
Kills == /\ stamp <= 2 /\ ~(stamp = 2 /\ pc = "gating")
         /\ ~override
         /\ \A d \in Datasets : build[d] # Missing => build[d].rows = 100

\* The gate question: one dataset, four nights, no kill; seats was never published.
Gates == /\ crashes = 0
         /\ listed = {people} /\ log[seats] = <<>>
         /\ build[seats] = SeatsTable /\ declared[seats] = 1

\* The orphan question: the same with one kill, but no override and no bump.
Orphans == /\ listed = {people} /\ log[seats] = <<>>
           /\ build[seats] = SeatsTable /\ \A d \in Datasets : declared[d] = 1
           /\ ~override

MCFocus == Kills \/ Gates \/ Orphans
MCInit == Init /\ MCFocus
MCSpec == MCInit /\ [][Next /\ MCFocus']_vars
=============================================================================
