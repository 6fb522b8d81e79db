--------------------------- MODULE MCServingLoad ---------------------------
(***************************************************************************)
(* Two loaders over two served datasets while two versions of each are     *)
(* minted and published.                                                   *)
(***************************************************************************)
EXTENDS ServingLoad, TLC

CONSTANTS c1, c2

MCDatasets == {"persons", "roles"}
MCServed == <<"persons", "roles">>
MCOneDataset == {"persons"}
MCOneServed == <<"persons">>
MCStamps == 1..2
MCPackages == [contract : Contracts, at : Stamps]
LoaderSymmetry == Permutations(Loaders)

Columns == {model[d] : d \in ServedSet} \cup {shape[d] : d \in ServedSet}
           \cup {dirs[d][s].contract : <<d, s>> \in {x \in Datasets \X Stamps : dirs[x[1]][x[2]] # Nothing}}

\* The overlap question: one contract, no deploy, every catalog two versions allow.
Overlap == Columns = {c1} /\ deploys = 0

\* The drift question: the columns of persons change; roles has its one version from the start.
Drift == /\ model["roles"] = c1 /\ dirs["roles"][2] = Nothing
         /\ dirs["roles"][1] # Nothing => dirs["roles"][1].contract = c1
         /\ dirs["roles"][1] = Nothing =>
              dirs["persons"] = [s \in Stamps |-> Nothing] /\ \A l \in Loaders : pc[l] = "idle"
         /\ catalog # NoEntries => catalog["roles"] # Nothing /\ catalog["persons"] # Nothing
         /\ Cardinality(published) <= 2

MCFocus == Overlap \/ Drift
MCInit == Init /\ MCFocus
MCSpec == MCInit /\ [][Next /\ MCFocus']_vars
=============================================================================
