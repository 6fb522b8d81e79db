------------------------- MODULE ServingLoad_proofs -------------------------
(***************************************************************************)
(* Proofs about ServingLoad: any number of loaders, publishers and deploys *)
(* over any list of served datasets.                                       *)
(***************************************************************************)
EXTENDS ServingLoad, SequenceTheorems, TLAPS

-----------------------------------------------------------------------------
(* The inductive invariant.                                                 *)

Working == {"writing", "deleting", "inserting"}

\* What loader l staged for d is the version its listing names, as it stands on
\* disk, and it has the fields of the model.
Faithful(l, d) ==
    /\ listing[l][d] \in Packages
    /\ staged[l][d] = listing[l][d]
    /\ dirs[d][staged[l][d].at] = staged[l][d]
    /\ staged[l][d].contract = model[d]

\* A catalog lists only versions that have landed.
Landed(entries) ==
    \A d \in Datasets : entries[d] # Nothing => dirs[d][entries[d].at] = entries[d]

PlaceOK ==
    \A l \in Loaders :
        /\ pc[l] \notin Working \cup {"staging"} => pos[l] = 1
        /\ pc[l] = "staging" => pos[l] <= Len(Served) + 1
        /\ pc[l] \in {"deleting", "inserting"} => pos[l] <= Last
        /\ pc[l] \notin Working => gone[l] = NothingGone

\* What a loader knows of the tree.
ListingOK ==
    /\ Landed(catalog)
    /\ catalog = NoEntries \/ catalog \in published
    /\ \A l \in Loaders :
        /\ Landed(listing[l])
        /\ pc[l] \in Working \cup {"reading", "staging"} => catalog # NoEntries
        /\ pc[l] \in Working \cup {"staging"} => listing[l] \in published

StagedOK ==
    \A l \in Loaders :
        /\ pc[l] = "staging" /\ ~refused[l] =>
              \A k \in 1..Len(Served) : k < pos[l] => Faithful(l, Served[k])
        /\ pc[l] \in Working => \A d \in ServedSet : Faithful(l, d)

\* The tables a loader found in step with their models still are.
ShapeOK ==
    \A l \in Loaders : pc[l] \notin {"idle", "inspecting"} =>
        \A d \in ServedSet \ drift[l] : shape[d] = model[d]

\* What other transactions can do to a relation that one has written or dropped.
HeldApart ==
    \A l, m \in Loaders : l # m =>
        /\ \A i \in 1..Last : ~(Inserted(l, i) /\ Inserted(m, i))
        /\ \A d \in Dropped(l) : d \notin Dropped(m) /\ ~Touches(m, d)

\* Nothing but its own version will be left of a relation a loader inserted into.
Replaced ==
    \A l \in Loaders : \A i \in 1..Last :
        Inserted(l, i) => Left(l, Relation(i)) = {}

EmptyUntilPublished ==
    catalog = NoEntries => \A rel \in Relations : db[rel] = {}

\* A degraded run of the published tree drops only tables that are empty.
DroppedEmpty ==
    \A l \in Loaders :
        /\ root[l] = "published"
        /\ pc[l] = "unpublished" => \A d \in drift[l] : db[<<d, "rows">>] = {}

Inv == /\ TypeOK /\ PlaceOK /\ ListingOK /\ StagedOK /\ ShapeOK /\ HeldApart
       /\ Replaced /\ EmptyUntilPublished /\ OneCatalog /\ ContractHeld

-----------------------------------------------------------------------------
(* The statements of a load.                                                *)

LEMMA ServedTypes ==
    /\ Len(Served) \in Nat
    /\ \A i \in 1..Len(Served) : Served[i] \in ServedSet
    /\ ServedSet \subseteq Datasets
    /\ Last \in Nat /\ Len(Served) <= Last
<1>1. /\ Len(Served) \in Nat
      /\ \A i \in 1..Len(Served) : Served[i] \in Datasets
  BY ServedArePublished, LenProperties, ElementOfSeq
<1>2. QED BY <1>1 DEF ServedSet, Last

\* The statements reach every table and every load_state row, each once.
LEMMA StatementsCover ==
    /\ \A i \in 1..Last : Relation(i) \in Relations
    /\ \A rel \in Relations : \E i \in 1..Last : Relation(i) = rel
    /\ \A i, j \in 1..Last : Relation(i) = Relation(j) => i = j
<1>1. ASSUME NEW i \in 1..Last
      PROVE  /\ (i + 1) \div 2 \in 1..Len(Served)
             /\ i = 2 * ((i + 1) \div 2) - (i % 2)
  BY ServedTypes DEF Last
<1>2. ASSUME NEW i \in 1..Last PROVE Relation(i) \in Relations
  BY <1>1, ServedTypes DEF Relation, Relations
<1>3. ASSUME NEW rel \in Relations PROVE \E i \in 1..Last : Relation(i) = rel
  <2>1. PICK k \in 1..Len(Served), part \in {"rows", "state"} : rel = <<Served[k], part>>
    BY DEF Relations, ServedSet
  <2>2. CASE part = "rows"
    <3>1. /\ 2 * k - 1 \in 1..Last
          /\ ((2 * k - 1) + 1) \div 2 = k
          /\ (2 * k - 1) % 2 = 1
      BY ServedTypes DEF Last
    <3>2. QED BY <2>1, <2>2, <3>1 DEF Relation
  <2>3. CASE part = "state"
    <3>1. /\ 2 * k \in 1..Last
          /\ (2 * k + 1) \div 2 = k
          /\ (2 * k) % 2 = 0
      BY ServedTypes DEF Last
    <3>2. QED BY <2>1, <2>3, <3>1 DEF Relation
  <2>4. QED BY <2>2, <2>3
<1>4. ASSUME NEW i \in 1..Last, NEW j \in 1..Last, Relation(i) = Relation(j)
      PROVE  i = j
  <2>1. Served[(i + 1) \div 2] = Served[(j + 1) \div 2]
    BY <1>4 DEF Relation
  <2>2. (i + 1) \div 2 = (j + 1) \div 2
    BY <1>1, <2>1, ServedOnce
  <2>3. i % 2 \in {0, 1} /\ j % 2 \in {0, 1}
    BY ServedTypes
  <2>4. (i % 2 = 1) <=> (j % 2 = 1)
    BY <1>4 DEF Relation
  <2>5. QED BY <1>1, <2>2, <2>3, <2>4
<1>5. QED BY <1>2, <1>3, <1>4

-----------------------------------------------------------------------------
(* What a commit leaves.                                                    *)

\* A loader commits one whole catalog, or takes nothing in.
LEMMA CommitWritesListing ==
    ASSUME Inv, NEW l \in Loaders, Commit(l)
    PROVE  \A d \in ServedSet :
              /\ db'[<<d, "rows">>] = {listing[l][d].at}
              /\ db'[<<d, "state">>] = {listing[l][d].at}
              /\ shape'[d] = model[d]
              /\ Faithful(l, d)
              /\ listing[l][d].at \in Stamps
<1>1. ASSUME NEW rel \in Relations
      PROVE  db'[rel] = {staged[l][rel[1]].at}
  <2>1. PICK i \in 1..Last : Relation(i) = rel
    BY StatementsCover
  <2>2. Inserted(l, i)
    BY <2>1, ServedTypes DEF Commit, Inserted
  <2>3. Left(l, rel) = {}
    BY <2>1, <2>2 DEF Inv, Replaced
  <2>4. QED BY <2>3 DEF Commit, CommitTransaction, Written
<1>2. ASSUME NEW d \in ServedSet
      PROVE  Faithful(l, d) /\ listing[l][d].at \in Stamps
  <2>1. Faithful(l, d)
    BY DEF Inv, StagedOK, Working, Commit
  <2>2. QED BY <2>1, PackagesAreStamped DEF Faithful
<1>3. ASSUME NEW d \in ServedSet PROVE shape'[d] = model[d]
  <2>1. pc[l] = "writing" /\ Dropped(l) = drift[l]
    BY DEF Commit, Dropped
  <2>2. d \notin drift[l] => shape[d] = model[d]
    BY <2>1 DEF Inv, ShapeOK
  <2>3. QED BY <2>1, <2>2 DEF Commit, CommitTransaction
<1>4. ASSUME NEW d \in ServedSet
      PROVE <<d, "rows">> \in Relations /\ <<d, "state">> \in Relations
  BY DEF Relations
<1>5. QED BY <1>1, <1>2, <1>3, <1>4 DEF Faithful

\* A degraded run takes nothing in, and empties the tables it dropped.
LEMMA UnpublishedEmpties ==
    ASSUME Inv, NEW l \in Loaders, CommitUnpublished(l)
    PROVE  /\ db' = [rel \in Relations |->
                       IF rel[2] = "rows" /\ rel[1] \in drift[l] THEN {} ELSE db[rel]]
           /\ shape' = [d \in ServedSet |-> IF d \in drift[l] THEN model[d] ELSE shape[d]]
           /\ \A d \in ServedSet :
                 /\ db'[<<d, "state">>] = db[<<d, "state">>]
                 /\ d \in drift[l] => db'[<<d, "rows">>] = {}
                 /\ d \notin drift[l] => db'[<<d, "rows">>] = db[<<d, "rows">>]
<1>1. gone[l] = NothingGone /\ Dropped(l) = drift[l] /\ pc[l] = "unpublished"
  BY DEF Inv, PlaceOK, CommitUnpublished, Dropped, Working
<1>2. ASSUME NEW rel \in Relations PROVE Left(l, rel) = Visible(l, rel) /\ Written(l, rel) = {}
  BY <1>1 DEF Left, NothingGone, Written
<1>3. db' = [rel \in Relations |->
               IF rel[2] = "rows" /\ rel[1] \in drift[l] THEN {} ELSE db[rel]]
  BY <1>1, <1>2 DEF CommitUnpublished, CommitTransaction, Visible
<1>4. ASSUME NEW d \in ServedSet
      PROVE  /\ db'[<<d, "state">>] = db[<<d, "state">>]
             /\ d \in drift[l] => db'[<<d, "rows">>] = {}
             /\ d \notin drift[l] => db'[<<d, "rows">>] = db[<<d, "rows">>]
  <2>1. <<d, "rows">> \in Relations /\ <<d, "state">> \in Relations
    BY DEF Relations
  <2>2. QED BY <1>3, <2>1
<1>5. QED BY <1>1, <1>3, <1>4 DEF CommitUnpublished, CommitTransaction

-----------------------------------------------------------------------------
(* Type correctness.                                                        *)

LEMMA InitInv == Init => Inv
<1> SUFFICES ASSUME Init PROVE Inv
  OBVIOUS
<1>1. NoEntries \in [Datasets -> Entry]
  BY DEF NoEntries, Entry
<1>2. TypeOK
  <2>1. 1 \in 1..(Last + 1) /\ 0 \in 0..MaxDeploys
    BY ServedTypes, BoundsAreNat
  <2>2. dirs \in [Datasets -> [Stamps -> Entry]] /\ catalog \in [Datasets -> Entry]
    BY <1>1 DEF Init, TreeInit, Entry
  <2>3. shape \in [ServedSet -> Contracts] /\ model \in [ServedSet -> Contracts]
    BY DEF Init
  <2>4. /\ db \in [Relations -> SUBSET Stamps]
        /\ gone \in [Loaders -> [Relations -> SUBSET Stamps]]
    BY DEF Init, NothingGone
  <2>5. /\ listing \in [Loaders -> [Datasets -> Entry]]
        /\ staged \in [Loaders -> [ServedSet -> Entry]]
    BY <1>1 DEF Init, Entry
  <2>6. QED BY <2>1, <2>2, <2>3, <2>4, <2>5 DEF Init, TypeOK
<1>3. \A d \in Datasets : NoEntries[d] = Nothing
  BY DEF NoEntries
<1>4. PlaceOK /\ ListingOK /\ StagedOK /\ ShapeOK
  BY <1>3 DEF Init, TreeInit, PlaceOK, ListingOK, Landed, StagedOK, ShapeOK, Working
<1>5. HeldApart /\ Replaced
  BY DEF Init, HeldApart, Replaced, Inserted, Dropped, Touches
<1>6. EmptyUntilPublished /\ OneCatalog /\ ContractHeld
  BY DEF Init, EmptyUntilPublished, OneCatalog, ContractHeld, Loaded, Relations
<1>7. QED BY <1>2, <1>4, <1>5, <1>6 DEF Inv

LEMMA TypesKept == Inv /\ [Next]_vars => TypeOK'
<1> SUFFICES ASSUME Inv, [Next]_vars PROVE TypeOK'
  OBVIOUS
<1> USE ServedTypes DEF Inv, TypeOK
<1>0. NoEntries \in [Datasets -> Entry] /\ NothingGone \in [Relations -> SUBSET Stamps]
  BY DEF NoEntries, Entry, NothingGone
<1>1. CASE UNCHANGED vars
  BY <1>1 DEF vars, treeVars, deployVars, dbVars, loadVars
<1>2. ASSUME NEW l \in Loaders, LoadStep(l) PROVE TypeOK'
  <2>1. ASSUME NEW r \in Roots, Start(l, r) PROVE TypeOK'
    BY <2>1, RootsAreTrees DEF Start, Goto, treeVars, deployVars, dbVars
  <2>2. CASE Inspect(l)
    BY <2>2 DEF Inspect, Goto, treeVars, deployVars, dbVars
  <2>3. CASE DropDrifted(l)
    BY <2>3 DEF DropDrifted, Goto, treeVars, deployVars, dbVars
  <2>4. CASE CheckPublished(l)
    BY <2>4 DEF CheckPublished, Goto, treeVars, deployVars, dbVars
  <2>5. CASE ReadCatalog(l)
    BY <2>5 DEF ReadCatalog, Goto, treeVars, deployVars, dbVars
  <2>6. CASE ReadDataset(l)
    <3>1. PICK d \in ServedSet : d = Served[pos[l]] /\ Chosen(l, d) \in Entry
      <4>1. Served[pos[l]] \in ServedSet
        BY <2>6 DEF ReadDataset
      <4>2. QED BY <4>1, PackagesAreStamped DEF Chosen, Entry
    <3>2. staged' \in [Loaders -> [ServedSet -> Entry]] /\ pos' \in [Loaders -> 1..(Last + 1)]
      BY <2>6, <3>1 DEF ReadDataset
    <3>3. refused' \in [Loaders -> BOOLEAN]
      BY <2>6 DEF ReadDataset, Conforms
    <3>4. UNCHANGED pc /\ pc[l] = "staging"
      BY <2>6 DEF ReadDataset
    <3>5. \A m \in Loaders : pc'[m] = "writing" => staged'[m] = staged[m]
      BY <2>6, <3>4 DEF ReadDataset
    <3>6. QED BY <2>6, <3>2, <3>3, <3>4, <3>5 DEF ReadDataset, treeVars, deployVars, dbVars
  <2>7. CASE StartWriting(l)
    <3>1. \A d \in ServedSet : Faithful(l, d)
      <4>1. ASSUME NEW k \in 1..Len(Served) PROVE Faithful(l, Served[k])
        BY <2>7 DEF StartWriting, AllRead, StagedOK
      <4>2. QED BY <4>1 DEF ServedSet
    <3>2. staged[l] \in [ServedSet -> Packages]
      BY <3>1 DEF Faithful
    <3>3. QED BY <2>7, <3>2 DEF StartWriting, AllRead, Goto, treeVars, deployVars, dbVars
  <2>8. CASE BeginDelete(l)
    <3>1. Relation(pos[l]) \in Relations
      BY <2>8, StatementsCover DEF BeginDelete
    <3>2. seen' \in [Loaders -> SUBSET Stamps]
      BY <2>8, <3>1 DEF BeginDelete, Visible
    <3>3. QED BY <2>8, <3>2 DEF BeginDelete, Goto, treeVars, deployVars, dbVars
  <2>9. CASE FinishDelete(l)
    BY <2>9 DEF FinishDelete, Goto, Visible, treeVars, deployVars, dbVars
  <2>10. CASE Insert(l)
    <3>1. staged[l] \in [ServedSet -> Packages]
      BY <2>10 DEF Insert, StagedOK, Working, Faithful
    <3>2. pos'[l] \in 1..(Last + 1)
      BY <2>10 DEF Insert, PlaceOK
    <3>3. QED BY <2>10, <3>1, <3>2 DEF Insert, Goto, treeVars, deployVars, dbVars
  <2>11. ASSUME Close(l), UNCHANGED <<treeVars, deployVars, published>>,
                db' \in [Relations -> SUBSET Stamps], shape' \in [ServedSet -> Contracts]
         PROVE  TypeOK'
    BY <1>0, <2>11 DEF Close, Goto, Entry, treeVars, deployVars
  <2>12. CASE Commit(l)
    <3>1. db' \in [Relations -> SUBSET Stamps]
      <4>1. \A rel \in Relations : Left(l, rel) \subseteq Stamps
        BY DEF Left, Visible
      <4>2. \A rel \in Relations : Written(l, rel) \subseteq Stamps
        <5>1. ASSUME NEW rel \in Relations PROVE staged[l][rel[1]].at \in Stamps
          <6>1. rel[1] \in ServedSet
            BY DEF Relations
          <6>2. QED BY <2>12, <6>1, CommitWritesListing DEF Faithful
        <5>2. QED BY <5>1 DEF Written
      <4>3. QED BY <2>12, <4>1, <4>2 DEF Commit, CommitTransaction
    <3>2. QED BY <2>11, <2>12, <3>1 DEF Commit, CommitTransaction
  <2>13. CASE CommitUnpublished(l)
    BY <2>11, <2>13, UnpublishedEmpties DEF CommitUnpublished, CommitTransaction
  <2>14. CASE Refuse(l) \/ Abort(l)
    BY <2>11, <2>14 DEF Refuse, Abort, RollBack, dbVars
  <2>15. QED BY <1>2, <2>1, <2>2, <2>3, <2>4, <2>5, <2>6, <2>7, <2>8, <2>9, <2>10,
                <2>12, <2>13, <2>14 DEF LoadStep
<1>3. ASSUME NEW entries \in [Datasets -> Entry], Publish(entries) PROVE TypeOK'
  BY <1>3 DEF Publish, FlipTo, deployVars, dbVars, loadVars
<1>4. ASSUME NEW d \in Datasets, NEW p \in Packages, MintVersion(d, p) PROVE TypeOK'
  BY <1>4, PackagesAreStamped DEF MintVersion, Land, Entry, deployVars, dbVars, loadVars
<1>5. ASSUME NEW d \in ServedSet, Deploy(d) PROVE TypeOK'
  BY <1>5, BoundsAreNat DEF Deploy, treeVars, dbVars, loadVars
<1>6. QED BY <1>1, <1>2, <1>3, <1>4, <1>5 DEF Next

-----------------------------------------------------------------------------
(* What a step leaves alone.                                                *)

\* However a run ends, its transaction does.
LEMMA EndsClose ==
    ASSUME NEW l, Commit(l) \/ CommitUnpublished(l) \/ Refuse(l) \/ Abort(l)
    PROVE  Close(l)
BY DEF Commit, CommitUnpublished, CommitTransaction, Refuse, Abort, RollBack

\* A loader's step is its own.
LEMMA OtherLoaders ==
    ASSUME TypeOK, NEW l \in Loaders, LoadStep(l), NEW m \in Loaders, m # l
    PROVE  /\ pc'[m] = pc[m] /\ root'[m] = root[m] /\ listing'[m] = listing[m]
           /\ staged'[m] = staged[m] /\ refused'[m] = refused[m] /\ pos'[m] = pos[m]
           /\ seen'[m] = seen[m] /\ gone'[m] = gone[m] /\ drift'[m] = drift[m]
<1> USE DEF TypeOK, Goto
<1>1. CASE \E r \in Roots : Start(l, r)
  BY <1>1 DEF Start
<1>2. CASE Inspect(l) \/ DropDrifted(l) \/ CheckPublished(l) \/ ReadCatalog(l)
  BY <1>2 DEF Inspect, DropDrifted, CheckPublished, ReadCatalog
<1>3. CASE ReadDataset(l)
  BY <1>3 DEF ReadDataset
<1>4. CASE StartWriting(l) \/ BeginDelete(l) \/ FinishDelete(l) \/ Insert(l)
  BY <1>4 DEF StartWriting, BeginDelete, FinishDelete, Insert
<1>5. CASE Close(l)
  BY <1>5 DEF Close
<1>6. QED BY <1>1, <1>2, <1>3, <1>4, <1>5, EndsClose DEF LoadStep

\* Only the end of a transaction changes the database.
LEMMA OnlyCommitsWrite ==
    ASSUME NEW l \in Loaders, LoadStep(l)
    PROVE  /\ UNCHANGED <<treeVars, deployVars, published>>
           /\ Commit(l) \/ CommitUnpublished(l) \/ UNCHANGED dbVars
BY DEF LoadStep, Start, Inspect, DropDrifted, CheckPublished, ReadCatalog, ReadDataset,
   StartWriting, BeginDelete, FinishDelete, Insert, Commit, CommitUnpublished,
   CommitTransaction, Refuse, Abort, RollBack

\* The environment: the tree, and deploys while no load runs.
LEMMA EnvironmentSteps ==
    ASSUME [Next]_vars, ~(\E l \in Loaders : LoadStep(l))
    PROVE  /\ UNCHANGED <<dbVars, loadVars>>
           /\ model' # model => \A l \in Loaders : pc[l] = "idle"
<1>1. CASE UNCHANGED vars
  BY <1>1 DEF vars, deployVars
<1>2. ASSUME NEW entries, Publish(entries) PROVE UNCHANGED <<dbVars, loadVars, model>>
  BY <1>2 DEF Publish, deployVars
<1>3. ASSUME NEW d, NEW p, MintVersion(d, p) PROVE UNCHANGED <<dbVars, loadVars, model>>
  BY <1>3 DEF MintVersion, deployVars
<1>4. ASSUME NEW d, Deploy(d)
      PROVE  UNCHANGED <<dbVars, loadVars>> /\ \A l \in Loaders : pc[l] = "idle"
  BY <1>4 DEF Deploy
<1>5. QED BY <1>1, <1>2, <1>3, <1>4 DEF Next

\* Version directories never change, and no catalog is forgotten.
LEMMA TreeOnlyGrows ==
    ASSUME TypeOK, [Next]_vars
    PROVE  /\ \A d \in Datasets, s \in Stamps : dirs[d][s] # Nothing => dirs'[d][s] = dirs[d][s]
           /\ published \subseteq published'
<1>1. CASE UNCHANGED <<treeVars, published>>
  BY <1>1 DEF treeVars
<1>2. ASSUME NEW entries, Publish(entries)
      PROVE  UNCHANGED dirs /\ published \subseteq published'
  BY <1>2 DEF Publish, FlipTo
<1>3. ASSUME NEW d \in Datasets, NEW p \in Packages, MintVersion(d, p)
      PROVE  /\ dirs' = [dirs EXCEPT ![d][p.at] = p]
             /\ dirs[d][p.at] = Nothing
             /\ UNCHANGED published
  BY <1>3 DEF MintVersion, Land
<1>4. ASSUME NEW d, Deploy(d) PROVE UNCHANGED <<treeVars, published>>
  BY <1>4 DEF Deploy
<1>5. CASE \E d \in Datasets, p \in Packages : MintVersion(d, p)
  <2>1. PICK d \in Datasets, p \in Packages : MintVersion(d, p)
    BY <1>5
  <2>2. /\ dirs' = [dirs EXCEPT ![d][p.at] = p]
        /\ dirs[d][p.at] = Nothing
        /\ UNCHANGED published
    BY <1>3, <2>1
  <2>3. /\ dirs \in [Datasets -> [Stamps -> Entry]]
        /\ p.at \in Stamps
    BY PackagesAreStamped DEF TypeOK
  <2>4. ASSUME NEW e \in Datasets, NEW s \in Stamps, dirs[e][s] # Nothing
        PROVE  dirs'[e][s] = dirs[e][s]
    BY <2>2, <2>3, <2>4
  <2>5. QED BY <2>2, <2>4
<1>6. QED BY <1>1, <1>2, <1>4, <1>5, OnlyCommitsWrite DEF Next, vars

\* So a catalog whose versions have landed keeps them.
LEMMA LandedStays ==
    ASSUME TypeOK, [Next]_vars, NEW entries \in [Datasets -> Entry], Landed(entries)
    PROVE  \A d \in Datasets : entries[d] # Nothing => dirs'[d][entries[d].at] = entries[d]
<1>1. ASSUME NEW d \in Datasets, entries[d] # Nothing
      PROVE  dirs'[d][entries[d].at] = entries[d]
  <2>1. entries[d] \in Packages /\ entries[d].at \in Stamps
    BY <1>1, PackagesAreStamped DEF Entry
  <2>2. dirs[d][entries[d].at] = entries[d] /\ entries[d] # Nothing
    BY <1>1 DEF Landed
  <2>3. QED BY <2>1, <2>2, TreeOnlyGrows
<1>2. QED BY <1>1

-----------------------------------------------------------------------------
(* Where a loader stands, and what it has read.                             *)

LEMMA PlaceKept == Inv /\ [Next]_vars => PlaceOK'
<1> SUFFICES ASSUME Inv, [Next]_vars PROVE PlaceOK'
  OBVIOUS
<1> DEFINE Place(l, at, where, out) ==
      /\ where \notin Working \cup {"staging"} => at = 1
      /\ where = "staging" => at <= Len(Served) + 1
      /\ where \in {"deleting", "inserting"} => at <= Last
      /\ where \notin Working => out = NothingGone
<1>1. ASSUME NEW l \in Loaders PROVE Place(l, pos[l], pc[l], gone[l])
  BY DEF Inv, PlaceOK
<1>2. /\ pc \in [Loaders -> {"idle", "inspecting", "dropping", "checking", "reading",
                             "staging", "writing", "deleting", "inserting", "unpublished"}]
      /\ pos \in [Loaders -> 1..(Last + 1)]
      /\ gone \in [Loaders -> [Relations -> SUBSET Stamps]]
  BY DEF Inv, TypeOK
<1>3. ASSUME NEW l \in Loaders, LoadStep(l) PROVE Place(l, pos'[l], pc'[l], gone'[l])
  <2> USE <1>1, <1>2, ServedTypes DEF Goto, Working
  <2>1. CASE \E r \in Roots : Start(l, r)
    BY <2>1 DEF Start
  <2>2. CASE Inspect(l) \/ DropDrifted(l) \/ CheckPublished(l)
    BY <2>2 DEF Inspect, DropDrifted, CheckPublished
  <2>3. CASE ReadCatalog(l)
    BY <2>3 DEF ReadCatalog
  <2>4. CASE ReadDataset(l)
    <3>1. pc[l] = "staging" /\ pos[l] <= Len(Served) /\ UNCHANGED <<pc, gone>>
      BY <2>4 DEF ReadDataset
    <3>2. pos'[l] = pos[l] + 1
      BY <2>4 DEF ReadDataset
    <3>3. QED BY <3>1, <3>2
  <2>5. CASE StartWriting(l)
    BY <2>5 DEF StartWriting
  <2>6. CASE BeginDelete(l)
    <3>1. pc'[l] = "deleting" /\ pos[l] <= Last /\ UNCHANGED pos
      BY <2>6 DEF BeginDelete
    <3>2. QED BY <3>1
  <2>7. CASE FinishDelete(l)
    <3>1. pc[l] = "deleting" /\ pc'[l] = "inserting" /\ UNCHANGED pos
      BY <2>7 DEF FinishDelete
    <3>2. QED BY <3>1
  <2>8. CASE Insert(l)
    <3>1. pc'[l] = "writing"
      BY <2>8 DEF Insert
    <3>2. QED BY <3>1
  <2>9. CASE Close(l)
    BY <2>9 DEF Close
  <2>10. QED BY <1>3, <2>1, <2>2, <2>3, <2>4, <2>5, <2>6, <2>7, <2>8, <2>9, EndsClose
            DEF LoadStep
<1>4. ASSUME NEW l \in Loaders PROVE Place(l, pos'[l], pc'[l], gone'[l])
  <2>1. ASSUME NEW m \in Loaders, m # l, LoadStep(m)
        PROVE  UNCHANGED <<pos[l], pc[l], gone[l]>>
    BY <2>1, OtherLoaders DEF Inv
  <2>2. CASE UNCHANGED <<pos[l], pc[l], gone[l]>>
    BY <1>1, <2>2
  <2>3. CASE UNCHANGED loadVars
    BY <2>2, <2>3 DEF loadVars
  <2>4. QED BY <1>3, <2>1, <2>2, <2>3, EnvironmentSteps
<1>5. QED BY <1>4 DEF PlaceOK

LEMMA ListingKept == Inv /\ [Next]_vars => ListingOK'
<1> SUFFICES ASSUME Inv, [Next]_vars PROVE ListingOK'
  OBVIOUS
<1> USE DEF Inv, ListingOK, Working
<1>1. /\ Landed(catalog)'
      /\ catalog' = NoEntries \/ catalog' \in published'
      /\ catalog # NoEntries => catalog' # NoEntries
  <2>1. CASE UNCHANGED catalog
    <3>1. \A d \in Datasets : catalog[d] # Nothing => dirs'[d][catalog[d].at] = catalog[d]
      BY LandedStays DEF TypeOK
    <3>2. QED BY <2>1, <3>1, TreeOnlyGrows DEF Landed
  <2>2. ASSUME NEW entries \in [Datasets -> Entry], Publish(entries)
        PROVE  Landed(catalog)' /\ catalog' \in published' /\ catalog' # NoEntries
    <3>1. catalog' = entries /\ entries # NoEntries /\ UNCHANGED dirs
      BY <2>2 DEF Publish, FlipTo
    <3>2. \A d \in Datasets : entries[d] # Nothing => dirs[d][entries[d].at] = entries[d]
      BY <2>2 DEF Publish, FlipTo, Listable
    <3>3. QED BY <2>2, <3>1, <3>2 DEF Publish, Landed
  <2>3. QED BY <2>1, <2>2, OnlyCommitsWrite
            DEF Next, vars, treeVars, MintVersion, Land, Deploy
<1>2. ASSUME NEW l \in Loaders, LoadStep(l)
      PROVE  /\ listing'[l] \in {listing[l], catalog, NoEntries}
             /\ pc'[l] \in Working \cup {"reading", "staging"} => catalog # NoEntries
             /\ pc'[l] \in Working \cup {"staging"} => listing'[l] \in published
  <2> USE DEF TypeOK, Goto
  <2>1. CASE \E r \in Roots : Start(l, r)
    BY <2>1 DEF Start
  <2>2. CASE Inspect(l) \/ DropDrifted(l) \/ CheckPublished(l)
    BY <2>2 DEF Inspect, DropDrifted, CheckPublished
  <2>3. CASE ReadCatalog(l)
    BY <2>3 DEF ReadCatalog
  <2>4. CASE ReadDataset(l)
    BY <2>4 DEF ReadDataset
  <2>5. CASE StartWriting(l) \/ BeginDelete(l) \/ FinishDelete(l) \/ Insert(l)
    BY <2>5 DEF StartWriting, AllRead, BeginDelete, FinishDelete, Insert
  <2>6. CASE Close(l)
    BY <2>6 DEF Close
  <2>7. QED BY <1>2, <2>1, <2>2, <2>3, <2>4, <2>5, <2>6, EndsClose DEF LoadStep
<1>3. ASSUME NEW l \in Loaders PROVE Landed(listing[l])'
  <2>1. listing'[l] \in {listing[l], catalog, NoEntries}
    <3>1. CASE LoadStep(l)
      BY <1>2, <3>1
    <3>2. ASSUME NEW m \in Loaders, m # l, LoadStep(m) PROVE listing'[l] = listing[l]
      BY <3>2, OtherLoaders
    <3>3. QED BY <3>1, <3>2, EnvironmentSteps DEF loadVars
  <2>2. /\ {listing[l], catalog, NoEntries} \subseteq [Datasets -> Entry]
        /\ \A entries \in {listing[l], catalog, NoEntries} : Landed(entries)
    BY DEF TypeOK, NoEntries, Entry, Landed
  <2>3. PICK entries \in [Datasets -> Entry] : listing'[l] = entries /\ Landed(entries)
    BY <2>1, <2>2
  <2>4. \A d \in Datasets : entries[d] # Nothing => dirs'[d][entries[d].at] = entries[d]
    BY <2>3, LandedStays
  <2>5. QED BY <2>3, <2>4 DEF Landed
<1>4. ASSUME NEW l \in Loaders
      PROVE  /\ pc'[l] \in Working \cup {"reading", "staging"} => catalog' # NoEntries
             /\ pc'[l] \in Working \cup {"staging"} => listing'[l] \in published'
  <2>1. CASE LoadStep(l)
    BY <1>1, <1>2, <2>1, TreeOnlyGrows
  <2>2. ASSUME NEW m \in Loaders, m # l, LoadStep(m)
        PROVE  pc'[l] = pc[l] /\ listing'[l] = listing[l]
    BY <2>2, OtherLoaders
  <2>3. CASE pc'[l] = pc[l] /\ listing'[l] = listing[l]
    BY <1>1, <2>3, TreeOnlyGrows
  <2>4. QED BY <2>1, <2>2, <2>3, EnvironmentSteps DEF loadVars
<1>5. QED BY <1>1, <1>3, <1>4

\* What was staged stays faithful to the tree and to the models.
LEMMA FaithfulStays ==
    ASSUME TypeOK, [Next]_vars, NEW l \in Loaders, NEW d \in ServedSet,
           Faithful(l, d), pc[l] # "idle",
           listing'[l] = listing[l], staged'[l][d] = staged[l][d]
    PROVE  Faithful(l, d)'
<1>1. model' = model
  BY EnvironmentSteps, OnlyCommitsWrite DEF deployVars
<1>2. /\ staged[l][d] \in Packages /\ staged[l][d].at \in Stamps /\ d \in Datasets
      /\ staged[l][d] # Nothing
  BY ServedTypes, PackagesAreStamped, NothingIsNew DEF Faithful
<1>3. dirs'[d][staged[l][d].at] = staged[l][d]
  BY <1>2, TreeOnlyGrows DEF Faithful
<1>4. QED BY <1>1, <1>3 DEF Faithful

LEMMA StagedKept == Inv /\ [Next]_vars => StagedOK'
<1> SUFFICES ASSUME Inv, [Next]_vars, NEW l \in Loaders
             PROVE  /\ pc'[l] = "staging" /\ ~refused'[l] =>
                          \A k \in 1..Len(Served) : k < pos'[l] => Faithful(l, Served[k])'
                    /\ pc'[l] \in Working => \A d \in ServedSet : Faithful(l, d)'
  BY DEF StagedOK, Working
<1> USE ServedTypes DEF Inv
<1>1. CASE /\ pc'[l] = pc[l] /\ listing'[l] = listing[l] /\ staged'[l] = staged[l]
           /\ pos'[l] = pos[l] /\ refused'[l] = refused[l]
  BY <1>1, FaithfulStays DEF StagedOK, Working
<1>2. CASE LoadStep(l)
  <2> USE DEF TypeOK, Goto
  <2>1. CASE \E r \in Roots : Start(l, r)
    BY <2>1 DEF Start, Working
  <2>2. CASE Inspect(l) \/ DropDrifted(l) \/ CheckPublished(l)
    BY <2>2 DEF Inspect, DropDrifted, CheckPublished, Working
  <2>3. CASE ReadCatalog(l)
    <3>1. pc'[l] = "staging" /\ pos'[l] = 1
      BY <2>3 DEF ReadCatalog, PlaceOK, Working
    <3>2. QED BY <3>1 DEF Working
  <2>4. CASE ReadDataset(l)
    <3>1. /\ pc[l] = "staging" /\ pc'[l] = "staging"
          /\ pos[l] \in 1..Len(Served) /\ pos'[l] = pos[l] + 1
          /\ listing' = listing
      BY <2>4 DEF ReadDataset
    <3>2. PICK d \in ServedSet : d = Served[pos[l]]
      BY <3>1
    <3>3. /\ staged' = [staged EXCEPT ![l][d] = Chosen(l, d)]
          /\ refused'[l] <=> (refused[l] \/ ~Conforms(d, Chosen(l, d)))
          /\ UNCHANGED <<dirs, model>>
      BY <2>4, <3>2 DEF ReadDataset, treeVars, deployVars
    <3>4. ASSUME NEW k \in 1..Len(Served), k < pos[l], ~refused'[l]
          PROVE  Faithful(l, Served[k])'
      <4>1. Served[k] # d /\ Served[k] \in ServedSet
        BY <3>1, <3>2, <3>4, ServedOnce
      <4>2. staged'[l][Served[k]] = staged[l][Served[k]]
        BY <3>3, <4>1
      <4>3. Faithful(l, Served[k])
        BY <3>1, <3>3, <3>4 DEF StagedOK
      <4>4. QED BY <3>1, <4>1, <4>2, <4>3, FaithfulStays
    <3>5. ASSUME ~refused'[l] PROVE Faithful(l, d)'
      <4>1. /\ Chosen(l, d) # Nothing
            /\ Chosen(l, d).contract = model[d]
        BY <3>3, <3>5 DEF Conforms
      <4>2. listing[l][d] \in Packages
        BY <4>1 DEF Chosen, Entry
      <4>3. Chosen(l, d) = listing[l][d] /\ dirs[d][listing[l][d].at] = listing[l][d]
        BY <4>1, <4>2, NothingIsNew DEF Chosen, ListingOK, Landed
      <4>4. staged'[l][d] = Chosen(l, d)
        BY <3>3
      <4>5. QED BY <3>1, <3>3, <4>1, <4>2, <4>3, <4>4 DEF Faithful
    <3>6. QED BY <3>1, <3>2, <3>4, <3>5 DEF Working
  <2>5. CASE StartWriting(l)
    <3>1. \A d \in ServedSet : Faithful(l, d)
      <4>1. ASSUME NEW k \in 1..Len(Served) PROVE Faithful(l, Served[k])
        BY <2>5 DEF StartWriting, AllRead, StagedOK
      <4>2. QED BY <4>1 DEF ServedSet
    <3>2. /\ listing'[l] = listing[l] /\ staged'[l] = staged[l]
          /\ pc[l] # "idle" /\ pc'[l] = "writing"
      BY <2>5 DEF StartWriting, AllRead
    <3>3. QED BY <3>1, <3>2, FaithfulStays DEF Working
  <2>6. CASE BeginDelete(l) \/ FinishDelete(l) \/ Insert(l)
    <3>1. /\ listing'[l] = listing[l] /\ staged'[l] = staged[l]
          /\ pc[l] \in Working /\ pc'[l] \in Working
      BY <2>6 DEF BeginDelete, FinishDelete, Insert, Working
    <3>2. QED BY <3>1, FaithfulStays DEF StagedOK, Working
  <2>7. CASE Close(l)
    BY <2>7 DEF Close, Working
  <2>8. QED BY <1>2, <2>1, <2>2, <2>3, <2>4, <2>5, <2>6, <2>7, EndsClose DEF LoadStep
<1>3. ASSUME NEW m \in Loaders, m # l, LoadStep(m)
      PROVE  /\ pc'[l] = pc[l] /\ listing'[l] = listing[l] /\ staged'[l] = staged[l]
             /\ pos'[l] = pos[l] /\ refused'[l] = refused[l]
  BY <1>3, OtherLoaders
<1>4. QED BY <1>1, <1>2, <1>3, EnvironmentSteps DEF loadVars

-----------------------------------------------------------------------------
(* The database: what transactions keep each other from.                    *)

LEMMA ShapeKept == Inv /\ [Next]_vars => ShapeOK'
<1> SUFFICES ASSUME Inv, [Next]_vars, NEW l \in Loaders,
                    pc'[l] \notin {"idle", "inspecting"},
                    NEW d \in ServedSet, d \notin drift'[l]
             PROVE  shape'[d] = model'[d]
  BY DEF ShapeOK
<1> USE DEF Inv
<1>1. CASE UNCHANGED dbVars /\ pc'[l] = pc[l] /\ drift'[l] = drift[l]
  <2>1. shape'[d] = model[d]
    BY <1>1 DEF dbVars, ShapeOK
  <2>2. model' = model
    BY <1>1, EnvironmentSteps, OnlyCommitsWrite DEF deployVars
  <2>3. QED BY <2>1, <2>2
<1>2. CASE LoadStep(l)
  <2> USE DEF TypeOK, Goto
  <2>1. ~Close(l)
    BY DEF Close
  <2>2. CASE Inspect(l)
    BY <2>2 DEF Inspect, dbVars, deployVars
  <2>3. CASE /\ pc[l] \notin {"idle", "inspecting"} /\ UNCHANGED dbVars
             /\ model' = model /\ drift'[l] = drift[l]
    BY <2>3 DEF ShapeOK, dbVars
  <2>4. CASE \E r \in Roots : Start(l, r)
    BY <2>4 DEF Start
  <2>5. CASE DropDrifted(l) \/ CheckPublished(l) \/ ReadCatalog(l) \/ ReadDataset(l)
    BY <2>3, <2>5 DEF DropDrifted, CheckPublished, ReadCatalog, ReadDataset, deployVars
  <2>6. CASE StartWriting(l) \/ BeginDelete(l) \/ FinishDelete(l) \/ Insert(l)
    BY <2>3, <2>6 DEF StartWriting, AllRead, BeginDelete, FinishDelete, Insert, deployVars
  <2>7. QED BY <1>2, <2>1, <2>2, <2>4, <2>5, <2>6, EndsClose DEF LoadStep
<1>3. ASSUME NEW m \in Loaders, m # l, LoadStep(m) PROVE shape'[d] = model'[d]
  <2>1. pc'[l] = pc[l] /\ drift'[l] = drift[l]
    BY <1>3, OtherLoaders
  <2>2. UNCHANGED <<model, deploys>>
    BY <1>3, OnlyCommitsWrite DEF deployVars
  <2>3. shape[d] = model[d]
    BY <2>1 DEF ShapeOK
  <2>4. CASE Commit(m)
    BY <1>3, <2>2, <2>4, CommitWritesListing
  <2>5. CASE CommitUnpublished(m)
    BY <1>3, <2>2, <2>3, <2>5, UnpublishedEmpties
  <2>6. QED BY <1>1, <1>3, <2>1, <2>4, <2>5, OnlyCommitsWrite
<1>4. QED BY <1>1, <1>2, <1>3, EnvironmentSteps DEF loadVars

\* What l's own step adds to what its transaction holds: a drop and a statement
\* that waited for the others.
LEMMA LocksTaken ==
    ASSUME Inv, NEW l \in Loaders, LoadStep(l)
    PROVE  /\ \A i \in 1..Last : Inserted(l, i)' =>
                 \/ Inserted(l, i)
                 \/ i = pos[l] /\ \A m \in Others(l) : ~Inserted(m, i)
           /\ \A d : d \in Dropped(l)' =>
                 \/ d \in Dropped(l)
                 \/ \A m \in Others(l) : d \notin Dropped(m) /\ ~Touches(m, d)
           /\ \A d : Touches(l, d)' =>
                 \/ Touches(l, d)
                 \/ \A m \in Others(l) : d \notin Dropped(m)
<1> DEFINE Locks == /\ \A i \in 1..Last : Inserted(l, i)' => Inserted(l, i)
                    /\ Dropped(l)' \subseteq Dropped(l)
                    /\ \A d : Touches(l, d)' => Touches(l, d)
<1> USE DEF Inv, TypeOK, Goto
<1>1. CASE \/ \E r \in Roots : Start(l, r)
           \/ Inspect(l) \/ Close(l)
  <2>1. pc'[l] \in {"idle", "inspecting", "dropping"}
    BY <1>1 DEF Start, Inspect, Close
  <2>2. QED BY <2>1 DEF Inserted, Dropped, Touches
<1>2. CASE DropDrifted(l)
  <2>1. pc'[l] = "checking" /\ drift'[l] = drift[l]
    BY <1>2 DEF DropDrifted
  <2>2. QED BY <1>2, <2>1 DEF DropDrifted, Inserted, Dropped, Touches
<1>3. CASE CheckPublished(l) \/ ReadCatalog(l) \/ ReadDataset(l)
  <2>1. /\ pc[l] \in {"checking", "reading", "staging"}
        /\ pc'[l] \in {"unpublished", "reading", "staging"}
        /\ drift' = drift
    BY <1>3 DEF CheckPublished, ReadCatalog, ReadDataset
  <2>2. QED BY <2>1 DEF Inserted, Dropped, Touches
<1>4. CASE StartWriting(l)
  <2>1. pc[l] = "staging" /\ pc'[l] = "writing" /\ pos'[l] = 1 /\ drift' = drift
    BY <1>4 DEF StartWriting, AllRead
  <2>2. QED BY <2>1, ServedTypes DEF Inserted, Dropped, Touches
<1>5. CASE BeginDelete(l)
  <2>1. /\ pc[l] = "writing" /\ pc'[l] = "deleting" /\ UNCHANGED <<pos, drift>>
        /\ NotDroppedByOther(l, Relation(pos[l]))
    BY <1>5 DEF BeginDelete
  <2>2. ASSUME NEW d, Touches(l, d)'
        PROVE  Touches(l, d) \/ \A m \in Others(l) : d \notin Dropped(m)
    <3>1. PICK i \in 1..Last : /\ Relation(i) = <<d, "rows">>
                               /\ i < pos[l] \/ i = pos[l]
      BY <2>1, <2>2 DEF Touches, Inserted
    <3>2. CASE i < pos[l]
      BY <2>1, <3>1, <3>2 DEF Touches, Inserted
    <3>3. CASE i = pos[l]
      BY <2>1, <3>1, <3>3 DEF NotDroppedByOther
    <3>4. QED BY <3>1, <3>2, <3>3
  <2>3. QED BY <2>1, <2>2 DEF Inserted, Dropped
<1>6. CASE FinishDelete(l)
  <2>1. pc[l] = "deleting" /\ pc'[l] = "inserting" /\ UNCHANGED <<pos, drift>>
    BY <1>6 DEF FinishDelete
  <2>2. QED BY <2>1 DEF Inserted, Dropped, Touches
<1>7. CASE Insert(l)
  <2>1. /\ pc[l] = "inserting" /\ pc'[l] = "writing" /\ UNCHANGED drift
        /\ pos'[l] = pos[l] + 1 /\ pos[l] \in Nat
        /\ \A m \in Others(l) : ~Inserted(m, pos[l])
    BY <1>7, ServedTypes DEF Insert, Keyed
  <2>2. \A i \in 1..Last : i < pos[l] + 1 => i < pos[l] \/ i = pos[l]
    BY <2>1, ServedTypes
  <2>3. QED BY <2>1, <2>2 DEF Inserted, Dropped, Touches
<1>8. QED BY <1>1, <1>2, <1>3, <1>4, <1>5, <1>6, <1>7, EndsClose DEF LoadStep

LEMMA HeldApartKept == Inv /\ [Next]_vars => HeldApart'
<1> SUFFICES ASSUME Inv, [Next]_vars, NEW l \in Loaders, NEW m \in Loaders, l # m
             PROVE  /\ \A i \in 1..Last : ~(Inserted(l, i)' /\ Inserted(m, i)')
                    /\ \A d : d \in Dropped(l)' => d \notin Dropped(m)' /\ ~Touches(m, d)'
  BY DEF HeldApart
<1> DEFINE Same(x) == /\ \A i \in 1..Last : Inserted(x, i)' <=> Inserted(x, i)
                      /\ Dropped(x)' = Dropped(x)
                      /\ \A d : Touches(x, d)' <=> Touches(x, d)
<1>1. ASSUME NEW x \in Loaders, UNCHANGED <<pc[x], pos[x], drift[x]>> PROVE Same(x)
  BY <1>1 DEF Inserted, Dropped, Touches
<1>2. ASSUME NEW x \in Loaders, NEW y \in Loaders, x # y, LoadStep(x) PROVE Same(y)
  BY <1>1, <1>2, OtherLoaders DEF Inv
<1>a. HeldApart
  BY DEF Inv
<1> HIDE DEF Same
<1>3. CASE LoadStep(l)
  <2>1. Same(m)
    BY <1>2, <1>3
  <2>2. QED BY <1>3, <1>a, <2>1, LocksTaken DEF HeldApart, Same, Others
<1>4. CASE LoadStep(m)
  <2>1. Same(l)
    BY <1>2, <1>4
  <2>2. QED BY <1>4, <1>a, <2>1, LocksTaken DEF HeldApart, Same, Others
<1>5. CASE Same(l) /\ Same(m)
  BY <1>5, <1>a DEF HeldApart, Same
<1>6. UNCHANGED loadVars => Same(l) /\ Same(m)
  BY <1>1 DEF loadVars
<1>7. QED BY <1>2, <1>3, <1>4, <1>5, <1>6, EnvironmentSteps

\* A loader that may commit has every relation to itself.
LEMMA CommitterIsAlone ==
    ASSUME Inv, NEW l \in Loaders, Commit(l), NEW m \in Loaders, m # l
    PROVE  \A i \in 1..Last : ~Inserted(m, i)
<1>1. ASSUME NEW i \in 1..Last PROVE Inserted(l, i)
  BY ServedTypes DEF Commit, Inserted
<1>2. QED BY <1>1 DEF Inv, HeldApart

LEMMA ReplacedKept == Inv /\ [Next]_vars => Replaced'
<1> DEFINE Rest(rel, dropped, rows, out) ==
      (IF rel[2] = "rows" /\ rel[1] \in dropped THEN {} ELSE rows) \ out
<1> SUFFICES ASSUME Inv, [Next]_vars, NEW l \in Loaders, NEW i \in 1..Last, Inserted(l, i)',
                    NEW rel \in Relations, rel = Relation(i)
             PROVE  Rest(rel, drift'[l], db'[rel], gone'[l][rel]) = {}
  BY StatementsCover DEF Replaced, Left, Visible, Dropped, Inserted
<1>1. ASSUME Inserted(l, i) PROVE Rest(rel, drift[l], db[rel], gone[l][rel]) = {}
  BY <1>1 DEF Inv, Replaced, Left, Visible, Dropped, Inserted
<1>2. CASE /\ Inserted(l, i) /\ db'[rel] \subseteq db[rel]
           /\ drift'[l] = drift[l] /\ gone'[l][rel] = gone[l][rel]
  BY <1>1, <1>2
<1> HIDE DEF Rest
<1>4. CASE LoadStep(l)
  <2> USE DEF Inv, TypeOK, Goto
  <2>1. /\ pc'[l] \in Working /\ i < pos'[l]
    BY DEF Inserted, Working
  <2>2. CASE \/ \E r \in Roots : Start(l, r)
             \/ Inspect(l) \/ DropDrifted(l) \/ CheckPublished(l) \/ ReadCatalog(l)
             \/ ReadDataset(l) \/ Close(l)
    BY <2>1, <2>2 DEF Start, Inspect, DropDrifted, CheckPublished, ReadCatalog,
       ReadDataset, Close, Working
  <2>3. CASE StartWriting(l)
    BY <2>1, <2>3, ServedTypes DEF StartWriting
  <2>4. CASE BeginDelete(l)
    <3>1. UNCHANGED <<pos, db, drift, gone>> /\ pc[l] = "writing"
      BY <2>4 DEF BeginDelete, dbVars
    <3>2. QED BY <1>2, <2>1, <3>1 DEF Inserted
  <2>5. CASE FinishDelete(l)
    <3>1. UNCHANGED <<pos, db, drift>> /\ pc[l] = "deleting" /\ pos[l] \in 1..Last
      BY <2>5, ServedTypes DEF FinishDelete, dbVars, PlaceOK
    <3>2. rel # Relation(pos[l])
      BY <2>1, <3>1, StatementsCover, ServedTypes
    <3>3. gone'[l][rel] = gone[l][rel]
      BY <2>5, <3>2 DEF FinishDelete
    <3>4. QED BY <1>2, <2>1, <3>1, <3>3 DEF Inserted
  <2>6. CASE Insert(l)
    <3>1. /\ UNCHANGED <<db, drift, gone>> /\ pc[l] = "inserting"
          /\ pos[l] \in Nat /\ pos'[l] = pos[l] + 1
          /\ Left(l, Relation(pos[l])) = {}
      BY <2>6, ServedTypes DEF Insert, dbVars, Keyed
    <3>2. CASE i = pos[l]
      BY <3>1, <3>2 DEF Left, Visible, Dropped, Rest
    <3>3. CASE i < pos[l]
      BY <1>2, <3>1, <3>3 DEF Inserted
    <3>4. i < pos[l] + 1 => i = pos[l] \/ i < pos[l]
      BY <3>1, ServedTypes
    <3>5. QED BY <2>1, <3>1, <3>2, <3>3, <3>4
  <2>7. QED BY <1>4, <2>2, <2>3, <2>4, <2>5, <2>6, EndsClose DEF LoadStep
<1>5. ASSUME NEW m \in Loaders, m # l, LoadStep(m)
      PROVE  Rest(rel, drift'[l], db'[rel], gone'[l][rel]) = {}
  <2>1. /\ Inserted(l, i) /\ drift'[l] = drift[l] /\ gone'[l][rel] = gone[l][rel]
    BY <1>5, OtherLoaders DEF Inserted, Inv
  <2>2. ~Commit(m)
    BY <1>5, <2>1, CommitterIsAlone
  <2>3. CASE CommitUnpublished(m)
    <3>1. db'[rel] \subseteq db[rel]
      BY <1>5, <2>3, UnpublishedEmpties
    <3>2. QED BY <1>2, <2>1, <3>1
  <2>4. CASE UNCHANGED dbVars
    BY <1>2, <2>1, <2>4 DEF dbVars
  <2>5. QED BY <1>5, <2>2, <2>3, <2>4, OnlyCommitsWrite
<1>6. CASE UNCHANGED <<dbVars, loadVars>>
  BY <1>2, <1>6 DEF dbVars, loadVars, Inserted
<1>7. QED BY <1>4, <1>5, <1>6, EnvironmentSteps

-----------------------------------------------------------------------------
(* What the tables hold.                                                    *)

LEMMA EmptyKept == Inv /\ [Next]_vars => EmptyUntilPublished'
<1> SUFFICES ASSUME Inv, [Next]_vars, catalog' = NoEntries, NEW rel \in Relations
             PROVE  db'[rel] = {}
  BY DEF EmptyUntilPublished, NoEntries
<1>1. catalog = NoEntries
  <2>1. ASSUME NEW entries, Publish(entries) PROVE FALSE
    BY <2>1 DEF Publish, FlipTo
  <2>2. QED BY <2>1, OnlyCommitsWrite DEF Next, vars, treeVars, MintVersion, Land, Deploy
<1>2. db[rel] = {}
  BY <1>1 DEF Inv, EmptyUntilPublished
<1>3. ASSUME NEW l \in Loaders, Commit(l) PROVE FALSE
  BY <1>1, <1>3 DEF Commit, Inv, ListingOK, Working
<1>4. ASSUME NEW l \in Loaders, CommitUnpublished(l) PROVE db'[rel] = {}
  BY <1>2, <1>4, UnpublishedEmpties
<1>5. QED BY <1>2, <1>3, <1>4, OnlyCommitsWrite, EnvironmentSteps DEF dbVars

LEMMA OneCatalogKept == Inv /\ [Next]_vars => OneCatalog'
<1> SUFFICES ASSUME Inv, [Next]_vars PROVE OneCatalog'
  OBVIOUS
<1>1. ASSUME NEW l \in Loaders, Commit(l) PROVE OneCatalog'
  <2>1. listing[l] \in published /\ published' = published
    BY <1>1 DEF Commit, CommitTransaction, Inv, ListingOK, Working
  <2>2. ASSUME NEW d \in ServedSet
        PROVE  listing[l][d] # Nothing /\ Loaded(d)' = {listing[l][d].at}
    BY <1>1, CommitWritesListing, NothingIsNew DEF Faithful, Loaded
  <2>3. QED BY <2>1, <2>2 DEF OneCatalog
<1>2. ASSUME \A d \in ServedSet : Loaded(d)' = Loaded(d) PROVE OneCatalog'
  <2>1. CASE \A d \in ServedSet : Loaded(d) = {}
    BY <1>2, <2>1 DEF OneCatalog
  <2>2. CASE \E c \in published : \A d \in ServedSet : c[d] # Nothing /\ Loaded(d) = {c[d].at}
    <3>1. published \subseteq published'
      BY TreeOnlyGrows DEF Inv
    <3>2. QED BY <1>2, <2>2, <3>1 DEF OneCatalog
  <2>3. QED BY <2>1, <2>2 DEF Inv, OneCatalog
<1>3. ASSUME NEW l \in Loaders, CommitUnpublished(l), NEW d \in ServedSet
      PROVE  Loaded(d)' = Loaded(d)
  BY <1>3, UnpublishedEmpties DEF Loaded, Relations
<1>4. UNCHANGED dbVars => \A d \in ServedSet : Loaded(d)' = Loaded(d)
  BY DEF dbVars, Loaded
<1>5. QED BY <1>1, <1>2, <1>3, <1>4, OnlyCommitsWrite, EnvironmentSteps

LEMMA ContractKept == Inv /\ [Next]_vars => ContractHeld'
<1> SUFFICES ASSUME Inv, [Next]_vars, NEW d \in ServedSet, NEW v \in db'[<<d, "rows">>]
             PROVE  dirs'[d][v] # Nothing /\ dirs'[d][v].contract = shape'[d]
  BY DEF ContractHeld
<1>a. d \in Datasets /\ <<d, "rows">> \in Relations
  BY ServedTypes DEF Relations
<1>1. ASSUME NEW l \in Loaders, Commit(l)
      PROVE  dirs'[d][v] # Nothing /\ dirs'[d][v].contract = shape'[d]
  <2>1. /\ v = listing[l][d].at /\ shape'[d] = model[d] /\ Faithful(l, d)
    BY <1>1, CommitWritesListing
  <2>2. UNCHANGED dirs
    BY <1>1 DEF Commit, CommitTransaction, treeVars
  <2>3. QED BY <2>1, <2>2, NothingIsNew DEF Faithful
<1>2. CASE v \in db[<<d, "rows">>] /\ shape'[d] = shape[d]
  <2>1. dirs[d][v] # Nothing /\ dirs[d][v].contract = shape[d] /\ v \in Stamps
    BY <1>a, <1>2 DEF Inv, ContractHeld, TypeOK
  <2>2. QED BY <1>a, <1>2, <2>1, TreeOnlyGrows DEF Inv
<1>3. ASSUME NEW l \in Loaders, CommitUnpublished(l)
      PROVE  v \in db[<<d, "rows">>] /\ shape'[d] = shape[d]
  BY <1>a, <1>3, UnpublishedEmpties
<1>4. QED BY <1>1, <1>2, <1>3, OnlyCommitsWrite, EnvironmentSteps DEF dbVars

-----------------------------------------------------------------------------
(* The theorems.                                                            *)

LEMMA InvHolds == Spec => []Inv
<1>1. Inv /\ [Next]_vars => Inv'
  BY TypesKept, PlaceKept, ListingKept, StagedKept, ShapeKept, HeldApartKept,
     ReplacedKept, EmptyKept, OneCatalogKept, ContractKept DEF Inv
<1>2. QED BY InitInv, <1>1, PTL DEF Spec

\* However many loaders, publishers and deploys interleave, every variable of
\* the loader keeps its type.
THEOREM TypeCorrect == Spec => []TypeOK
<1>1. Inv => TypeOK
  BY DEF Inv
<1>2. QED BY InvHolds, <1>1, PTL

\* load_state never mixes two catalogs, and never names a version no catalog
\* listed: overlapping loaders cannot each win half of the tables.
THEOREM LoadsOneCatalog == Spec => []OneCatalog
<1>1. Inv => OneCatalog
  BY DEF Inv
<1>2. QED BY InvHolds, <1>1, PTL

\* A table only ever holds a version with the table's own columns, through any
\* sequence of deploys, drops and loads.
THEOREM TablesHoldTheirContract == Spec => []ContractHeld
<1>1. Inv => ContractHeld
  BY DEF Inv
<1>2. QED BY InvHolds, <1>1, PTL

\* A degraded run that was pointed at the published tree empties no table with
\* rows: before the first catalog there are none, and later runs that load have
\* to wait for the tables it dropped.
LEMMA DroppedEmptyKept ==
    ASSUME Inv, DroppedEmpty, [Next]_vars, Roots = {"published"}
    PROVE  DroppedEmpty'
<1> SUFFICES ASSUME NEW l \in Loaders
             PROVE  /\ root'[l] = "published"
                    /\ pc'[l] = "unpublished" => \A d \in drift'[l] : db'[<<d, "rows">>] = {}
  BY DEF DroppedEmpty
<1> USE DEF Inv, TypeOK, Goto
<1>a. \A d \in ServedSet : <<d, "rows">> \in Relations
  BY DEF Relations
<1>1. CASE LoadStep(l)
  <2>1. CASE \/ \E r \in Roots : Start(l, r)
             \/ Inspect(l) \/ DropDrifted(l) \/ ReadCatalog(l) \/ Close(l)
    BY <2>1 DEF Start, Inspect, DropDrifted, ReadCatalog, Close, DroppedEmpty
  <2>2. CASE CheckPublished(l)
    <3>1. /\ root'[l] = "published" /\ drift'[l] = drift[l] /\ UNCHANGED db
          /\ pc'[l] = "unpublished" => catalog = NoEntries
      BY <2>2 DEF CheckPublished, dbVars, DroppedEmpty
    <3>2. QED BY <3>1, <1>a DEF EmptyUntilPublished
  <2>3. CASE ReadDataset(l)
    BY <2>3 DEF ReadDataset, DroppedEmpty
  <2>4. CASE StartWriting(l) \/ BeginDelete(l) \/ FinishDelete(l) \/ Insert(l)
    BY <2>4 DEF StartWriting, BeginDelete, FinishDelete, Insert, DroppedEmpty
  <2>5. QED BY <1>1, <2>1, <2>2, <2>3, <2>4, EndsClose DEF LoadStep
<1>2. ASSUME NEW m \in Loaders, m # l, LoadStep(m)
      PROVE  /\ root'[l] = "published"
             /\ pc'[l] = "unpublished" => \A d \in drift'[l] : db'[<<d, "rows">>] = {}
  <2>1. /\ root'[l] = root[l] /\ pc'[l] = pc[l] /\ drift'[l] = drift[l]
        /\ drift[l] \subseteq ServedSet
    BY <1>2, OtherLoaders
  <2>2. ASSUME Commit(m), pc[l] = "unpublished", NEW d \in drift[l] PROVE FALSE
    <3>1. d \in ServedSet /\ d \in Dropped(l)
      BY <2>1, <2>2 DEF Dropped
    <3>2. PICK i \in 1..Last : Relation(i) = <<d, "rows">>
      BY <1>a, <3>1, StatementsCover
    <3>3. Touches(m, d)
      BY <2>2, <3>2, ServedTypes DEF Commit, Inserted, Touches
    <3>4. QED BY <1>2, <3>1, <3>3 DEF HeldApart
  <2>3. CASE CommitUnpublished(m)
    <3>1. \A d \in drift[l] : db'[<<d, "rows">>] = {} \/ db'[<<d, "rows">>] = db[<<d, "rows">>]
      BY <1>2, <2>1, <2>3, UnpublishedEmpties
    <3>2. QED BY <2>1, <3>1 DEF DroppedEmpty
  <2>4. CASE UNCHANGED dbVars
    BY <2>1, <2>4 DEF DroppedEmpty, dbVars
  <2>5. CASE Commit(m)
    BY <2>1, <2>2, <2>5 DEF DroppedEmpty
  <2>6. QED BY <1>2, <2>3, <2>4, <2>5, OnlyCommitsWrite
<1>3. CASE UNCHANGED <<dbVars, loadVars>>
  BY <1>3 DEF DroppedEmpty, dbVars, loadVars
<1>4. QED BY <1>1, <1>2, <1>3, EnvironmentSteps

LEMMA StateKept ==
    ASSUME Inv, DroppedEmpty, StateDescribesRows, [Next]_vars
    PROVE  StateDescribesRows'
<1> SUFFICES ASSUME NEW d \in ServedSet
             PROVE  db'[<<d, "rows">>] = db'[<<d, "state">>]
  BY DEF StateDescribesRows, Loaded
<1>1. ASSUME NEW l \in Loaders, Commit(l)
      PROVE  db'[<<d, "rows">>] = db'[<<d, "state">>]
  BY <1>1, CommitWritesListing
<1>2. ASSUME NEW l \in Loaders, CommitUnpublished(l)
      PROVE  db'[<<d, "rows">>] = db'[<<d, "state">>]
  <2>1. d \in drift[l] => db[<<d, "rows">>] = {}
    BY <1>2 DEF CommitUnpublished, DroppedEmpty
  <2>2. QED BY <1>2, <2>1, UnpublishedEmpties DEF StateDescribesRows, Loaded
<1>3. CASE UNCHANGED dbVars
  BY <1>3 DEF dbVars, StateDescribesRows, Loaded
<1>4. QED BY <1>1, <1>2, <1>3, OnlyCommitsWrite, EnvironmentSteps

\* As long as every loader reads the published tree, load_state never outlives
\* the rows it describes. A loader pointed at a tree without a catalog breaks
\* this: it commits the drop of a drifted table.
THEOREM StateNeverOutlivesRows ==
    ASSUME Roots = {"published"} PROVE Spec => []StateDescribesRows
<1>1. Init => DroppedEmpty /\ StateDescribesRows
  BY DEF Init, DroppedEmpty, StateDescribesRows, Loaded, Relations
<1>2. /\ Inv /\ DroppedEmpty /\ StateDescribesRows /\ [Next]_vars
      => DroppedEmpty' /\ StateDescribesRows'
  BY DroppedEmptyKept, StateKept
<1>3. QED BY InvHolds, <1>1, <1>2, PTL DEF Spec

-----------------------------------------------------------------------------
(* The tree the loaders read.                                               *)

\* The loaders are checked against every step the published tree may take, so
\* against everything a publisher does that keeps its promise: the two models
\* meet at PublishedTree.
THEOREM LoadersMeetEveryTreeStep ==
    ASSUME TypeOK, TreeNext, UNCHANGED <<deployVars, dbVars, loadVars>>,
           published' = (IF dirs' = dirs THEN published \cup {catalog'} ELSE published),
           Cardinality(published') <= MaxCatalogs
    PROVE  Next
<1>1. CASE FlipTo(catalog')
  <2>1. catalog' \in [Datasets -> Entry] /\ dirs' = dirs
    BY <1>1 DEF FlipTo, Entry
  <2>2. Publish(catalog')
    BY <1>1, <2>1 DEF Publish
  <2>3. QED BY <2>1, <2>2 DEF Next
<1>2. ASSUME NEW d \in Datasets, NEW p \in Packages, Land(d, p) PROVE Next
  <2>1. p.at \in Stamps /\ dirs[d][p.at] = Nothing /\ dirs' = [dirs EXCEPT ![d][p.at] = p]
    BY <1>2, PackagesAreStamped DEF Land
  <2>2. dirs'[d][p.at] = p /\ p # Nothing
    BY <2>1, NothingIsNew DEF TypeOK
  <2>3. dirs' # dirs
    BY <2>1, <2>2
  <2>4. MintVersion(d, p)
    BY <1>2, <2>3 DEF MintVersion
  <2>5. QED BY <2>4 DEF Next
<1>3. QED BY <1>1, <1>2 DEF TreeNext
=============================================================================
