--------------------------- MODULE PublishedTree ---------------------------
(***************************************************************************)
(* What the published tree promises its readers (the serving loader, the   *)
(* /datasets mount, a consumer's mirror), whatever the publisher does:     *)
(* version directories appear once and never change, the catalog changes   *)
(* in one step, lists only complete directories, and never lists an older  *)
(* version of a dataset than it did.                                       *)
(***************************************************************************)
EXTENDS Integers

CONSTANTS
    Datasets,
    Stamps,       \* names of version directories, in order of minting
    Packages,     \* contents of a version directory; records with `at`
    Nothing       \* no version directory; no catalog entry

ASSUME StampsAreNat == Stamps \subseteq Nat
ASSUME PackagesAreStamped == \A p \in Packages : p.at \in Stamps
ASSUME NothingIsNew == Nothing \notin Packages

VARIABLES
    dirs,         \* dataset -> stamp -> the version directory, or Nothing
    catalog       \* dataset -> its entry in catalog.json, or Nothing

treeVars == <<dirs, catalog>>

NoEntries == [d \in Datasets |-> Nothing]

TreeInit ==
    /\ dirs = [d \in Datasets |-> [s \in Stamps |-> Nothing]]
    /\ catalog = NoEntries

\* A version directory is renamed into place, under a name of its own.
Land(d, p) ==
    /\ dirs[d][p.at] = Nothing
    /\ dirs' = [dirs EXCEPT ![d][p.at] = p]
    /\ UNCHANGED catalog

\* What a dataset's entry may become: a landed version no older than its own.
Listable(d) ==
    {p \in Packages : /\ dirs[d][p.at] = p
                      /\ catalog[d] # Nothing => catalog[d].at <= p.at}

\* catalog.json is replaced. It is never emptied.
FlipTo(entries) ==
    /\ entries \in [Datasets -> Packages \cup {Nothing}]
    /\ \A d \in Datasets : entries[d] \in Listable(d) \cup {Nothing}
    /\ entries # NoEntries
    /\ catalog' = entries
    /\ UNCHANGED dirs

TreeNext ==
    \/ \E d \in Datasets, s \in Stamps : /\ dirs'[d][s] \in Packages
                                        /\ Land(d, dirs'[d][s])
    \/ FlipTo(catalog')

TreeSpec == TreeInit /\ [][TreeNext]_treeVars
=============================================================================
