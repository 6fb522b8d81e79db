-------------------------- MODULE Publisher_proofs --------------------------
(***************************************************************************)
(* Proofs about Publisher, for any datasets, builds, releases and number   *)
(* of crashes.                                                             *)
(***************************************************************************)
EXTENDS Publisher, FiniteSetTheorems, WellFoundedInduction, TLAPS

USE RowsAreNat, VersionsAreNat, GateIsPercent, BoundsAreNat, SentinelsAreNew

\* What the version gates leave of a dataset that passed.
Gated(d) == build[d] # Missing /\ ~Unbumped(d, build[d]) /\ ~Downgraded(d)

\* The type invariant, with what minting needs: a run that mints has a stamp,
\* and every dataset it still has to reach has a table.
RunShape ==
    /\ pc = "idle" => todo = {}
    /\ pc = "gating" => stamp < MaxStamp
    /\ pc = "minting" => stamp \in Stamps
    /\ todo \subseteq listed
    /\ pc = "gating" => \A d \in listed \ todo : Gated(d)
    /\ pc = "minting" => \A d \in listed : Gated(d)

LEMMA PackageType ==
    ASSUME TypeOK, stamp \in Stamps, NEW d \in Datasets, build[d] # Missing
    PROVE  Package(d) \in Packages
BY DEF TypeOK, Package, Packages, Tables

\* Every state keeps the types, and a minting run has gated all it lists.
THEOREM TypeCorrect == Spec => [](TypeOK /\ RunShape)
<1>1. Init => TypeOK /\ RunShape
  <2> SUFFICES ASSUME Init PROVE TypeOK /\ RunShape
    OBVIOUS
  <2>1. log \in [Datasets -> Seq([entry : Packages \cup {Nothing}, lifted : BOOLEAN])]
    BY DEF Init
  <2>2. 0 \in 0..MaxStamp /\ 0 \in 0..MaxCrashes
    OBVIOUS
  <2>2a. TypeOK
    BY <2>1, <2>2 DEF Init, TypeOK, NoEntries
  <2>3. RunShape
    BY DEF Init, RunShape
  <2>4. QED BY <2>2a, <2>3
<1>2. TypeOK /\ RunShape /\ [Next]_vars => TypeOK' /\ RunShape'
  <2> SUFFICES ASSUME TypeOK, RunShape, [Next]_vars
               PROVE  TypeOK' /\ RunShape'
    OBVIOUS
  <2>a. ASSUME UNCHANGED <<build, declared, catalog>>, NEW d
        PROVE  Gated(d)' = Gated(d)
    BY <2>a DEF Gated, Unbumped, Downgraded
  <2>b. \A d : Passes(d) => Gated(d)
    BY DEF Passes, Gated
  <2>1. ASSUME NEW lifted \in BOOLEAN, Begin(lifted) PROVE TypeOK' /\ RunShape'
    BY <2>1 DEF Begin, envVars, TypeOK, RunShape, NoEntries
  <2>2. ASSUME NEW d \in Datasets, Stage(d) PROVE TypeOK' /\ RunShape'
    <3>1. TypeOK'
      BY <2>2 DEF Stage, envVars, TypeOK
    <3>2. RunShape'
      BY <2>2, <2>a, <2>b DEF Stage, envVars, RunShape
    <3>3. QED BY <3>1, <3>2
  <2>3. ASSUME NEW d \in Datasets, Refuse(d) PROVE TypeOK' /\ RunShape'
    BY <2>3 DEF Refuse, Exit, envVars, TypeOK, RunShape, NoEntries
  <2>4. CASE StartMinting
    <3>1. stamp' \in Stamps /\ stamp' \in 0..MaxStamp
      BY <2>4 DEF StartMinting, NextStamp, RunShape, TypeOK, Stamps
    <3>2. TypeOK'
      BY <2>4, <3>1 DEF StartMinting, envVars, TypeOK
    <3>3. RunShape'
      BY <2>4, <2>a, <3>1 DEF StartMinting, envVars, RunShape
    <3>4. QED BY <3>2, <3>3
  <2>5. ASSUME NEW d \in Datasets, CarryForward(d) PROVE TypeOK' /\ RunShape'
    <3>1. TypeOK'
      BY <2>5 DEF CarryForward, envVars, TypeOK
    <3>2. RunShape'
      BY <2>5, <2>a DEF CarryForward, envVars, RunShape
    <3>3. QED BY <3>1, <3>2
  <2>6. ASSUME NEW d \in Datasets, Mint(d) PROVE TypeOK' /\ RunShape'
    <3>1. Package(d) \in Packages /\ stamp \in Stamps
      BY <2>6, PackageType DEF Mint, RunShape, Gated
    <3>2. TypeOK'
      <4>1. dirs' \in [Datasets -> [Stamps -> Packages \cup {Nothing}]]
        BY <2>6, <3>1 DEF Mint, TypeOK
      <4>2. entries' \in [Datasets -> Packages \cup {Nothing}]
        BY <2>6, <3>1 DEF Mint, TypeOK
      <4>3. tmp' \in SUBSET Datasets /\ todo' \in SUBSET Datasets
        BY <2>6 DEF Mint, TypeOK
      <4>4. UNCHANGED <<build, declared, listed, catalog, pc, override, stamp,
                        crashes, log>>
        BY <2>6 DEF Mint, envVars
      <4>5. QED BY <4>1, <4>2, <4>3, <4>4 DEF TypeOK
    <3>3. RunShape'
      BY <2>6, <2>a DEF Mint, envVars, RunShape
    <3>4. QED BY <3>2, <3>3
  <2>7. CASE Flip
    <3>1. ASSUME NEW d \in Datasets
          PROVE  Logged(d) \in Seq([entry : Packages \cup {Nothing},
                                    lifted : BOOLEAN])
      <4> DEFINE Row == [entry : Packages \cup {Nothing}, lifted : BOOLEAN]
                 new == [entry |-> entries[d],
                         lifted |-> override \/ entries[d] = Nothing]
      <4>1. new \in Row
        BY DEF TypeOK
      <4>2. log[d] \in Seq(Row)
        BY DEF TypeOK
      <4> HIDE DEF Row, new
      <4>3. Append(log[d], new) \in Seq(Row)
        BY <4>1, <4>2
      <4>4. Logged(d) = log[d] \/ Logged(d) = Append(log[d], new)
        BY DEF Logged, new
      <4>5. QED BY <4>2, <4>3, <4>4 DEF Row
    <3>2. TypeOK'
      BY <2>7, <3>1 DEF Flip, Exit, envVars, TypeOK, NoEntries
    <3>3. RunShape'
      BY <2>7 DEF Flip, Exit, envVars, RunShape
    <3>4. QED BY <3>2, <3>3
  <2>8. CASE Crash
    <3>1. crashes' \in 0..MaxCrashes
      BY <2>8 DEF Crash, TypeOK
    <3>2. TypeOK' /\ RunShape'
      BY <2>8, <3>1 DEF Crash, Exit, envVars, TypeOK, RunShape, NoEntries
    <3>3. QED BY <3>2
  <2>9. ASSUME NEW d \in Datasets, Rebuild(d) \/ Declare(d) \/ ListOrDelist(d)
        PROVE  TypeOK' /\ RunShape'
    <3>1. CASE Rebuild(d)
      BY <3>1 DEF Rebuild, runVars, TypeOK, RunShape
    <3>2. CASE Declare(d)
      BY <3>2 DEF Declare, runVars, TypeOK, RunShape
    <3>3. CASE ListOrDelist(d)
      BY <3>3 DEF ListOrDelist, runVars, TypeOK, RunShape
    <3>4. QED BY <2>9, <3>1, <3>2, <3>3
  <2>10. CASE UNCHANGED vars
    <3>1. UNCHANGED <<envVars, dirs, catalog, runVars, stamp, crashes, log>>
      BY <2>10 DEF vars
    <3>2. QED BY <3>1, <2>a DEF envVars, runVars, TypeOK, RunShape
  <2>11. QED BY <2>1, <2>2, <2>3, <2>4, <2>5, <2>6, <2>7, <2>8, <2>9, <2>10
             DEF Next
<1>3. QED BY <1>1, <1>2, PTL DEF Spec

-----------------------------------------------------------------------------
(* The catalog never lists a partial.                                       *)

\* Version directories are written once: a run mints under a stamp no
\* directory has yet, and what it is about to list is on disk.
DirsWrittenOnce ==
    /\ \A d \in Datasets : \A s \in Stamps :
          dirs[d][s] # Nothing => s <= stamp
    /\ pc = "minting" => \A d \in todo : dirs[d][stamp] = Nothing
    /\ \A d \in Datasets : entries[d] # Nothing =>
          dirs[d][entries[d].at] = entries[d]

LEMMA CompleteHolds == Spec => [](CatalogComplete /\ DirsWrittenOnce)
<1>1. Init => CatalogComplete /\ DirsWrittenOnce
  BY DEF Init, CatalogComplete, DirsWrittenOnce, NoEntries
<1>2. TypeOK /\ RunShape /\ CatalogComplete /\ DirsWrittenOnce /\ [Next]_vars
      => CatalogComplete' /\ DirsWrittenOnce'
  <2> SUFFICES ASSUME TypeOK, RunShape, CatalogComplete, DirsWrittenOnce,
                      [Next]_vars
               PROVE  CatalogComplete' /\ DirsWrittenOnce'
    OBVIOUS
  <2>1. CASE StartMinting
    <3>1. stamp \in Nat /\ stamp' = stamp + 1
      BY <2>1 DEF StartMinting, NextStamp, TypeOK
    <3>2. \A d \in Datasets : dirs[d][stamp + 1] = Nothing
      BY <2>1, <3>1 DEF StartMinting, NextStamp, RunShape, DirsWrittenOnce, TypeOK, Stamps
    <3>3. UNCHANGED <<dirs, catalog, entries>> /\ todo' \subseteq Datasets
      BY <2>1 DEF StartMinting, NextStamp, TypeOK
    <3>4. \A s \in Stamps : s <= stamp => s <= stamp + 1
      BY <3>1 DEF Stamps
    <3>5. QED BY <3>1, <3>2, <3>3, <3>4 DEF CatalogComplete, DirsWrittenOnce
  <2>2. ASSUME NEW d \in Datasets, Mint(d)
        PROVE  CatalogComplete' /\ DirsWrittenOnce'
    <3>1. /\ dirs[d][stamp] = Nothing /\ stamp \in Stamps
          /\ Package(d) \in Packages /\ Package(d).at = stamp
          /\ Package(d) # Nothing
      BY <2>2, PackageType DEF Mint, DirsWrittenOnce, RunShape, Gated, Package
    <3>2. /\ dirs' = [dirs EXCEPT ![d][stamp] = Package(d)]
          /\ entries' = [entries EXCEPT ![d] = Package(d)]
          /\ catalog' = catalog /\ pc' = pc /\ stamp' = stamp
          /\ todo' = todo \ {d}
      BY <2>2 DEF Mint
    <3>3. \A c \in Datasets : \A s \in Stamps :
             dirs[c][s] # Nothing => dirs'[c][s] = dirs[c][s]
      BY <3>1, <3>2 DEF TypeOK
    <3>4. \A c \in Datasets : catalog[c] # Nothing => catalog[c].at \in Stamps
      BY DEF TypeOK, Packages
    <3>5. CatalogComplete'
      BY <3>2, <3>3, <3>4 DEF CatalogComplete
    <3>6. \A c \in Datasets : entries[c] # Nothing => entries[c].at \in Stamps
      BY DEF TypeOK, Packages
    <3>7. \A c \in Datasets : entries'[c] # Nothing =>
             dirs'[c][entries'[c].at] = entries'[c]
      <4>1. dirs'[d][stamp] = Package(d) /\ entries'[d] = Package(d)
        BY <3>1, <3>2 DEF TypeOK
      <4>2. ASSUME NEW c \in Datasets, c # d, entries'[c] # Nothing
            PROVE  dirs'[c][entries'[c].at] = entries'[c]
        BY <4>2, <3>2, <3>3, <3>6 DEF DirsWrittenOnce, TypeOK
      <4>3. QED BY <4>1, <4>2, <3>1
    <3>8. \A c \in Datasets : \A s \in Stamps : dirs'[c][s] # Nothing => s <= stamp
      <4>1. stamp <= stamp
        BY <3>1 DEF Stamps
      <4>2. QED BY <3>2, <4>1 DEF DirsWrittenOnce, TypeOK
    <3>9. \A c \in todo' : dirs'[c][stamp] = Nothing
      BY <2>2, <3>2 DEF Mint, DirsWrittenOnce, TypeOK
    <3>10. QED BY <3>2, <3>5, <3>7, <3>8, <3>9 DEF DirsWrittenOnce
  <2>3. ASSUME NEW d \in Datasets, CarryForward(d)
        PROVE  CatalogComplete' /\ DirsWrittenOnce'
    BY <2>3 DEF CarryForward, Unchanged, CatalogComplete, DirsWrittenOnce, TypeOK
  <2>4. CASE Flip
    BY <2>4 DEF Flip, Exit, NoEntries, CatalogComplete, DirsWrittenOnce
  <2>5. ASSUME UNCHANGED <<dirs, catalog, stamp>>,
               entries' = entries \/ entries' = NoEntries,
               pc' = "minting" => pc = "minting" /\ todo' = todo
        PROVE  CatalogComplete' /\ DirsWrittenOnce'
    BY <2>5 DEF CatalogComplete, DirsWrittenOnce, NoEntries
  <2>6. QED
    BY <2>1, <2>2, <2>3, <2>4, <2>5 DEF Next, Begin, Stage, Refuse, Crash, Exit,
       Rebuild, Declare, ListOrDelist, runVars, vars
<1>3. QED BY <1>1, <1>2, TypeCorrect, PTL DEF Spec

\* Whatever crashed, every catalog entry has its version directory, holding
\* exactly what the entry says.
THEOREM CatalogNeverPartial == Spec => []CatalogComplete
BY CompleteHolds, PTL

-----------------------------------------------------------------------------
(* One schema_version, one contract.                                        *)

\* What the version gates allow between a listed entry and the next one.
Succeeds(old, new) ==
    /\ old.schema <= new.schema
    /\ old.schema = new.schema => old.contract = new.contract

\* The log ends with the catalog's entry, and what a run is about to list
\* succeeds it.
LogEndsWithCatalog ==
    \A d \in Datasets :
        /\ catalog[d] # Nothing =>
             Len(log[d]) > 0 /\ log[d][Len(log[d])].entry = catalog[d]
        /\ catalog[d] = Nothing =>
             Len(log[d]) = 0 \/ log[d][Len(log[d])].entry = Nothing
        /\ entries[d] # Nothing /\ entries[d] # catalog[d] =>
             catalog[d] = Nothing \/ Succeeds(catalog[d], entries[d])

PinsInv == VersionPinsContract /\ LogEndsWithCatalog

LEMMA MintSucceeds ==
    ASSUME TypeOK, RunShape, NEW d \in Datasets, Mint(d), catalog[d] # Nothing
    PROVE  Succeeds(catalog[d], Package(d))
<1>1. Gated(d)
  BY DEF Mint, RunShape
<1>2. catalog[d].schema \in Nat /\ declared[d] \in Nat
  BY DEF TypeOK, Packages
<1>3. Package(d).schema = declared[d] /\ Package(d).contract = build[d].contract
  BY DEF Package
<1>4. QED BY <1>1, <1>2, <1>3 DEF Gated, Unbumped, Downgraded, Succeeds

\* Appending an entry that succeeds the last one keeps every pair in order.
LEMMA AppendPins ==
    ASSUME TypeOK, PinsInv, NEW d \in Datasets,
           entries[d] # catalog[d],
           NEW row, row.entry = entries[d],
           NEW new, new = Append(log[d], row),
           NEW i \in 1..Len(new), NEW j \in 1..Len(new), i < j,
           \A k \in i..j : new[k].entry # Nothing
    PROVE  Succeeds(new[i].entry, new[j].entry)
<1> DEFINE n == Len(log[d])
<1>1. log[d] \in Seq([entry : Packages \cup {Nothing}, lifted : BOOLEAN])
  BY DEF TypeOK
<1>2. /\ n \in Nat /\ Len(new) = n + 1
      /\ \A k \in 1..n : new[k] = log[d][k]
      /\ new[n + 1] = row
  BY <1>1
<1>3. \A k \in 1..n : log[d][k].entry \in Packages \cup {Nothing}
  <2> DEFINE Row == [entry : Packages \cup {Nothing}, lifted : BOOLEAN]
  <2>1. log[d] \in Seq(Row)
    BY <1>1
  <2>2. \A x \in Row : x.entry \in Packages \cup {Nothing}
    OBVIOUS
  <2> HIDE DEF Row
  <2>3. \A k \in 1..n : log[d][k] \in Row
    BY <2>1
  <2>4. QED BY <2>2, <2>3
<1>4. i \in 1..n
  <2>1. i \in 1..(n + 1) /\ j \in 1..(n + 1)
    BY <1>2
  <2>2. n \in Nat /\ i < j
    BY <1>2
  <2> HIDE DEF n
  <2>3. QED BY ONLY <2>1, <2>2
<1>5. CASE j \in 1..n
  <2>1. \A k \in i..j : log[d][k].entry # Nothing
    BY <1>2, <1>4, <1>5
  <2>2. <<i, j>> \in Listings(d)
    BY <1>4, <1>5, <2>1 DEF Listings
  <2>3. QED BY <1>2, <1>4, <1>5, <2>2 DEF PinsInv, VersionPinsContract, Succeeds
<1>6. CASE j = n + 1
  <2>1. n \in i..j /\ j \in i..j /\ n \in 1..n
    BY <1>2, <1>4, <1>6
  <2>2. new[n].entry # Nothing /\ entries[d] # Nothing
    BY <1>2, <1>6, <2>1
  <2>3. log[d][n].entry # Nothing
    BY <1>2, <2>1, <2>2
  <2>4. catalog[d] # Nothing /\ log[d][n].entry = catalog[d]
    BY <2>1, <2>3 DEF PinsInv, LogEndsWithCatalog
  <2>5. Succeeds(catalog[d], entries[d])
    BY <2>2, <2>4 DEF PinsInv, LogEndsWithCatalog
  <2>6. CASE i = n
    BY <1>2, <1>6, <2>1, <2>4, <2>5, <2>6
  <2>7. CASE i < n
    <3>1. \A k \in i..n : log[d][k].entry # Nothing
      BY <1>2, <1>4, <1>6
    <3>2. <<i, n>> \in Listings(d)
      BY <1>4, <2>1, <2>7, <3>1 DEF Listings
    <3>3. Succeeds(log[d][i].entry, catalog[d])
      BY <2>4, <3>2 DEF PinsInv, VersionPinsContract, Succeeds
    <3>4. /\ log[d][i].entry \in Packages /\ catalog[d] \in Packages
          /\ entries[d] \in Packages
      BY <1>3, <1>4, <2>2, <2>4, <3>1, <2>7 DEF TypeOK
    <3>5. /\ log[d][i].entry.schema \in Nat /\ catalog[d].schema \in Nat
          /\ entries[d].schema \in Nat
      BY <3>4 DEF Packages
    <3>6. Succeeds(log[d][i].entry, entries[d])
      BY <2>5, <3>3, <3>5 DEF Succeeds
    <3>7. new[i] = log[d][i] /\ new[j] = row
      BY <1>2, <1>4, <1>6
    <3>8. QED BY <3>6, <3>7
  <2>8. QED BY <1>2, <1>4, <2>6, <2>7
<1>7. QED BY <1>2, <1>5, <1>6

LEMMA PinsHold == Spec => []PinsInv
<1>1. Init => PinsInv
  <2> SUFFICES ASSUME Init PROVE PinsInv
    OBVIOUS
  <2>1. \A d \in Datasets : /\ log[d] = <<>> /\ Len(log[d]) = 0
                            /\ catalog[d] = Nothing /\ entries[d] = Nothing
    BY DEF Init, NoEntries
  <2>2. LogEndsWithCatalog
    BY <2>1 DEF LogEndsWithCatalog
  <2>3. \A d \in Datasets : Listings(d) = {}
    BY <2>1 DEF Listings
  <2>4. QED BY <2>2, <2>3 DEF PinsInv, VersionPinsContract
<1>2. TypeOK /\ RunShape /\ PinsInv /\ [Next]_vars => PinsInv'
  <2> SUFFICES ASSUME TypeOK, RunShape, PinsInv, [Next]_vars PROVE PinsInv'
    OBVIOUS
  <2>1. ASSUME NEW d \in Datasets, Mint(d) PROVE PinsInv'
    <3>1. /\ UNCHANGED <<catalog, log>>
          /\ entries' = [entries EXCEPT ![d] = Package(d)]
      BY <2>1 DEF Mint
    <3>2. catalog[d] # Nothing => Succeeds(catalog[d], Package(d))
      BY <2>1, MintSucceeds
    <3>3. LogEndsWithCatalog'
      BY <3>1, <3>2 DEF PinsInv, LogEndsWithCatalog, TypeOK, Succeeds
    <3>4. QED BY <3>1, <3>3 DEF PinsInv, VersionPinsContract, Listings
  <2>2. ASSUME NEW d \in Datasets, CarryForward(d) PROVE PinsInv'
    BY <2>2 DEF CarryForward, PinsInv, VersionPinsContract, Listings,
       LogEndsWithCatalog, Succeeds, TypeOK
  <2>3. CASE Flip
    <3>1. /\ catalog' = entries /\ entries' = NoEntries
          /\ log' = [d \in Datasets |-> Logged(d)]
      BY <2>3 DEF Flip, Exit
    <3>2. ASSUME NEW d \in Datasets, entries[d] = catalog[d]
          PROVE  log'[d] = log[d] /\ catalog'[d] = catalog[d]
      BY <3>1, <3>2 DEF Logged
    <3>3. ASSUME NEW d \in Datasets, entries[d] # catalog[d]
          PROVE  \E row : row.entry = entries[d] /\ log'[d] = Append(log[d], row)
      <4> DEFINE new == [entry |-> entries[d],
                         lifted |-> override \/ entries[d] = Nothing]
      <4>1. new.entry = entries[d]
        OBVIOUS
      <4>2. log'[d] = Append(log[d], new)
        BY <3>1, <3>3 DEF Logged
      <4> HIDE DEF new
      <4>3. QED BY <4>1, <4>2
    <3>4. \A d \in Datasets : log[d] \in Seq([entry : Packages \cup {Nothing},
                                               lifted : BOOLEAN])
      BY DEF TypeOK
    <3>5. LogEndsWithCatalog'
      <4> SUFFICES ASSUME NEW d \in Datasets
                   PROVE  /\ catalog'[d] # Nothing =>
                              /\ Len(log'[d]) > 0
                              /\ log'[d][Len(log'[d])].entry = catalog'[d]
                          /\ catalog'[d] = Nothing =>
                              \/ Len(log'[d]) = 0
                              \/ log'[d][Len(log'[d])].entry = Nothing
                          /\ entries'[d] = Nothing
        BY DEF LogEndsWithCatalog
      <4>1. entries'[d] = Nothing
        BY <3>1 DEF NoEntries
      <4>2. CASE entries[d] = catalog[d]
        BY <4>1, <4>2, <3>2 DEF PinsInv, LogEndsWithCatalog
      <4>3. CASE entries[d] # catalog[d]
        <5>1. PICK row : row.entry = entries[d] /\ log'[d] = Append(log[d], row)
          BY <4>3, <3>3
        <5>2. Len(log'[d]) = Len(log[d]) + 1 /\ log'[d][Len(log[d]) + 1] = row
              /\ Len(log[d]) \in Nat
          BY <5>1, <3>4
        <5>3. QED BY <5>1, <5>2, <4>1, <3>1
      <4>4. QED BY <4>2, <4>3
    <3>6. ASSUME NEW d \in Datasets, NEW ij \in Listings(d)'
          PROVE  Succeeds(log'[d][ij[1]].entry, log'[d][ij[2]].entry)
      <4>1. CASE entries[d] = catalog[d]
        <5>1. ij \in Listings(d) /\ log'[d] = log[d]
          BY <4>1, <3>2, <3>6 DEF Listings
        <5>2. QED BY <5>1 DEF PinsInv, VersionPinsContract, Succeeds
      <4>2. CASE entries[d] # catalog[d]
        <5>1. PICK row : row.entry = entries[d] /\ log'[d] = Append(log[d], row)
          BY <4>2, <3>3
        <5>2. /\ ij[1] \in 1..Len(log'[d]) /\ ij[2] \in 1..Len(log'[d])
              /\ ij[1] < ij[2]
              /\ \A k \in ij[1]..ij[2] : log'[d][k].entry # Nothing
          BY <3>6 DEF Listings
        <5>3. QED BY <4>2, <5>1, <5>2, AppendPins
      <4>3. QED BY <4>1, <4>2
    <3>7. QED BY <3>5, <3>6 DEF PinsInv, VersionPinsContract, Succeeds
  <2>4. ASSUME UNCHANGED <<catalog, log>>,
               entries' = entries \/ entries' = NoEntries
        PROVE  PinsInv'
    BY <2>4 DEF PinsInv, VersionPinsContract, Listings, LogEndsWithCatalog,
       Succeeds, NoEntries
  <2>5. QED
    BY <2>1, <2>2, <2>3, <2>4 DEF Next, Begin, Stage, Refuse, StartMinting, Crash,
       Exit, Rebuild, Declare, ListOrDelist, runVars, vars
<1>3. QED BY <1>1, <1>2, TypeCorrect, PTL DEF Spec

\* A consumer that pins a schema_version pins a contract, and never sees the
\* number go back while the dataset stays listed.
THEOREM VersionsPinContracts == Spec => []VersionPinsContract
<1>1. PinsInv => VersionPinsContract
  BY DEF PinsInv
<1>2. QED BY <1>1, PinsHold, PTL

-----------------------------------------------------------------------------
(* What a minting run is about to list, and the readers' tree.              *)

\* The entry a run has accumulated for a dataset it has reached: the package
\* of this build, either the listed version carried forward or a new one that
\* differs from it.
Reached(d) ==
    /\ entries[d] # Nothing
    /\ entries[d] = [Package(d) EXCEPT !.at = entries[d].at]
    /\ entries[d] = catalog[d] \/ (entries[d].at = stamp /\ ~Unchanged(d))

\* A minting run has an entry for every listed dataset it has reached and for
\* no other; the catalog lists no version newer than the last run.
EntriesDescribeBuild ==
    /\ Datasets # {} => listed # {}
    /\ \A d \in Datasets : catalog[d] # Nothing => catalog[d].at <= stamp
    /\ pc # "minting" => entries = NoEntries
    /\ pc = "minting" =>
          /\ \A d \in listed \ todo : Reached(d)
          /\ \A d \in Datasets : d \notin listed \/ d \in todo => entries[d] = Nothing

\* Neither the package of a build nor its comparison with the catalog changes
\* while the run lasts.
LEMMA ReachedStable ==
    ASSUME UNCHANGED <<build, declared, catalog, stamp>>,
           NEW d, entries'[d] = entries[d], Reached(d)
    PROVE  Reached(d)'
BY DEF Reached, Package, Unchanged

LEMMA CarriedIsReached ==
    ASSUME TypeOK, RunShape, NEW d \in Datasets, CarryForward(d)
    PROVE  Reached(d)'
<1>1. /\ catalog[d] \in Packages /\ catalog[d] # Nothing
      /\ entries'[d] = catalog[d]
      /\ UNCHANGED <<build, declared, catalog, stamp>>
  BY DEF CarryForward, Unchanged, TypeOK, envVars
<1>2. catalog[d] = [Package(d) EXCEPT !.at = catalog[d].at]
  <2>1. /\ catalog[d].rows = build[d].rows /\ catalog[d].body = build[d].body
        /\ catalog[d].contract = build[d].contract
        /\ catalog[d].schema = declared[d]
    BY DEF CarryForward, Unchanged
  <2>2. catalog[d] = [rows |-> catalog[d].rows, body |-> catalog[d].body,
                      contract |-> catalog[d].contract,
                      schema |-> catalog[d].schema, at |-> catalog[d].at]
    BY <1>1 DEF Packages
  <2>3. QED BY <2>1, <2>2 DEF Package
<1>3. Package(d)' = Package(d)
  BY <1>1 DEF Package
<1>4. QED BY <1>1, <1>2, <1>3 DEF Reached

LEMMA MintedIsReached ==
    ASSUME TypeOK, RunShape, NEW d \in Datasets, Mint(d)
    PROVE  Reached(d)' /\ entries'[d] = Package(d)
<1>1. Package(d) \in Packages /\ Package(d) # Nothing /\ Package(d).at = stamp
  BY PackageType DEF Mint, RunShape, Gated, Package
<1>2. /\ entries'[d] = Package(d) /\ ~Unchanged(d)
      /\ UNCHANGED <<build, declared, catalog, stamp>>
  BY DEF Mint, TypeOK, envVars
<1>3. Package(d)' = Package(d) /\ Unchanged(d)' = Unchanged(d)
  BY <1>2 DEF Package, Unchanged
<1>4. Package(d) = [Package(d) EXCEPT !.at = stamp]
  BY DEF Package
<1>5. QED BY <1>1, <1>2, <1>3, <1>4 DEF Reached

LEMMA EntriesHold == Spec => []EntriesDescribeBuild
<1>1. Init => EntriesDescribeBuild
  BY DEF Init, EntriesDescribeBuild, NoEntries
<1>2. TypeOK /\ RunShape /\ EntriesDescribeBuild /\ [Next]_vars
      => EntriesDescribeBuild'
  <2> SUFFICES ASSUME TypeOK, RunShape, EntriesDescribeBuild, [Next]_vars
               PROVE  EntriesDescribeBuild'
    OBVIOUS
  <2>1. CASE StartMinting
    <3>1. stamp \in Nat /\ stamp' = stamp + 1
      BY <2>1 DEF StartMinting, NextStamp, TypeOK
    <3>2. /\ UNCHANGED <<listed, catalog, entries>> /\ entries = NoEntries
          /\ pc' = "minting" /\ todo' = listed
      BY <2>1 DEF StartMinting, EntriesDescribeBuild, envVars
    <3>3. \A d \in Datasets : catalog[d] # Nothing => catalog[d].at \in Nat
      BY DEF TypeOK, Packages, Stamps
    <3>4. \A d \in Datasets : catalog'[d] # Nothing => catalog'[d].at <= stamp'
      BY <3>1, <3>2, <3>3 DEF EntriesDescribeBuild
    <3>5. QED BY <3>2, <3>4 DEF EntriesDescribeBuild, NoEntries
  <2>2. ASSUME NEW d \in Datasets, CarryForward(d) \/ Mint(d)
        PROVE  EntriesDescribeBuild'
    <3>1. /\ UNCHANGED <<build, declared, listed, catalog, pc, stamp>>
          /\ pc = "minting" /\ d \in todo /\ todo' = todo \ {d}
          /\ \A c \in Datasets \ {d} : entries'[c] = entries[c]
      BY <2>2 DEF CarryForward, Mint, envVars, TypeOK
    <3>2. Reached(d)'
      BY <2>2, CarriedIsReached, MintedIsReached
    <3>3. \A c \in listed \ todo : Reached(c)'
      <4> SUFFICES ASSUME NEW c \in listed \ todo PROVE Reached(c)'
        OBVIOUS
      <4>1. c \in Datasets /\ c # d /\ Reached(c)
        BY <3>1 DEF EntriesDescribeBuild, TypeOK
      <4>2. QED BY <3>1, <4>1, ReachedStable
    <3>4. \A c \in listed' \ todo' : Reached(c)'
      BY <3>1, <3>2, <3>3
    <3>5. \A c \in Datasets : c \notin listed' \/ c \in todo' => entries'[c] = Nothing
      BY <3>1 DEF EntriesDescribeBuild, RunShape
    <3>6. QED BY <3>1, <3>4, <3>5 DEF EntriesDescribeBuild
  <2>3. CASE Flip
    <3>1. /\ catalog' = entries /\ entries' = NoEntries /\ pc' = "idle"
          /\ UNCHANGED <<listed, stamp>> /\ pc = "minting"
      BY <2>3 DEF Flip, Exit, envVars
    <3>2. \A d \in Datasets : entries[d] # Nothing => entries[d].at <= stamp
      <4> SUFFICES ASSUME NEW d \in Datasets, entries[d] # Nothing
                   PROVE  entries[d].at <= stamp
        OBVIOUS
      <4>1. Reached(d)
        BY <3>1 DEF EntriesDescribeBuild
      <4>2. stamp <= stamp
        BY DEF TypeOK
      <4>3. QED BY <4>1, <4>2 DEF Reached, EntriesDescribeBuild
    <3>3. QED BY <3>1, <3>2 DEF EntriesDescribeBuild
  <2>4. ASSUME UNCHANGED <<catalog, stamp>>, pc' # "minting",
               entries' = NoEntries, Datasets # {} => listed' # {}
        PROVE  EntriesDescribeBuild'
    BY <2>4 DEF EntriesDescribeBuild, NoEntries
  <2>5. CASE UNCHANGED vars
    BY <2>5 DEF vars, envVars, runVars, EntriesDescribeBuild, Reached, Package,
       Unchanged, NoEntries
  <2>6. ASSUME NEW lifted \in BOOLEAN, Begin(lifted) PROVE EntriesDescribeBuild'
    BY <2>4, <2>6 DEF Begin, envVars, EntriesDescribeBuild
  <2>7. ASSUME NEW d \in Datasets, Stage(d) \/ Refuse(d)
        PROVE  EntriesDescribeBuild'
    BY <2>4, <2>7 DEF Stage, Refuse, Exit, envVars, EntriesDescribeBuild
  <2>8. CASE Crash
    BY <2>4, <2>8 DEF Crash, Exit, envVars, EntriesDescribeBuild
  <2>9. ASSUME NEW d \in Datasets, Rebuild(d) \/ Declare(d) \/ ListOrDelist(d)
        PROVE  EntriesDescribeBuild'
    BY <2>4, <2>9 DEF Rebuild, Declare, ListOrDelist, runVars, EntriesDescribeBuild
  <2>10. QED BY <2>1, <2>2, <2>3, <2>5, <2>6, <2>7, <2>8, <2>9 DEF Next
<1>3. QED BY <1>1, <1>2, TypeCorrect, PTL DEF Spec

\* A completed run leaves the catalog describing the build it ran on, for
\* exactly the listed datasets.
THEOREM RunsDescribeTheirBuild == Spec => CatalogFollowsBuild
<1>1. TypeOK /\ EntriesDescribeBuild /\ [Next]_vars
      => [pc = "minting" /\ pc' = "idle" /\ crashes' = crashes
          => \A d \in Datasets : DescribesBuild(d)]_vars
  <2> SUFFICES ASSUME TypeOK, EntriesDescribeBuild, Next,
                      pc = "minting", pc' = "idle", crashes' = crashes,
                      NEW d \in Datasets
               PROVE  DescribesBuild(d)
    BY DEF vars
  <2>1. ~Crash
    BY DEF Crash, TypeOK
  <2>2. Flip
    BY <2>1 DEF Next, Begin, Stage, Refuse, StartMinting, CarryForward, Mint,
       Rebuild, Declare, ListOrDelist, runVars
  <2>3. catalog' = entries /\ todo = {}
    BY <2>2 DEF Flip, AllLanded
  <2>4. CASE d \in listed
    BY <2>3, <2>4 DEF EntriesDescribeBuild, Reached, DescribesBuild
  <2>5. CASE d \notin listed
    BY <2>3, <2>5 DEF EntriesDescribeBuild, DescribesBuild
  <2>6. QED BY <2>4, <2>5
<1>2. QED BY <1>1, TypeCorrect, EntriesHold, PTL DEF Spec, CatalogFollowsBuild

-----------------------------------------------------------------------------
(* The publisher implements the tree.                                       *)

\* A mint lands a directory under a name no directory of the dataset has.
LEMMA MintLands ==
    ASSUME TypeOK, RunShape, DirsWrittenOnce, NEW d \in Datasets, Mint(d)
    PROVE  Tree!TreeNext
<1>1. /\ stamp \in Stamps /\ Package(d) \in Packages /\ Package(d).at = stamp
      /\ dirs[d][stamp] = Nothing
  BY PackageType DEF Mint, RunShape, Gated, Package, DirsWrittenOnce
<1>2. dirs' = [dirs EXCEPT ![d][stamp] = Package(d)] /\ catalog' = catalog
  BY DEF Mint
<1>3. dirs'[d][stamp] = Package(d)
  BY <1>1, <1>2 DEF TypeOK
<1>4. Tree!Land(d, Package(d))
  BY <1>1, <1>2 DEF Tree!Land
<1>5. QED BY <1>1, <1>3, <1>4 DEF Tree!TreeNext

\* A flip lists landed versions, none older than the one it replaces.
LEMMA FlipIsFlipTo ==
    ASSUME TypeOK, DirsWrittenOnce, EntriesDescribeBuild, Flip
    PROVE  Tree!TreeNext \/ UNCHANGED <<dirs, catalog>>
<1>1. /\ catalog' = entries /\ dirs' = dirs /\ todo = {} /\ pc = "minting"
      /\ entries \in [Datasets -> Packages \cup {Nothing}]
  BY DEF Flip, AllLanded, TypeOK
<1>2. ASSUME NEW d \in Datasets
      PROVE  entries[d] \in Tree!Listable(d) \cup {Nothing}
  <2> SUFFICES ASSUME entries[d] # Nothing PROVE entries[d] \in Tree!Listable(d)
    OBVIOUS
  <2>1. entries[d] \in Packages /\ dirs[d][entries[d].at] = entries[d]
    BY <1>1 DEF DirsWrittenOnce
  <2>2. Reached(d)
    BY <1>1 DEF EntriesDescribeBuild
  <2>3. catalog[d] # Nothing => catalog[d].at <= entries[d].at
    <3>1. entries[d].at \in Nat
      BY <2>1 DEF Packages, Stamps
    <3>2. entries[d].at <= entries[d].at
      BY <3>1
    <3>3. QED BY <2>2, <3>2 DEF Reached, EntriesDescribeBuild
  <2>4. QED BY <2>1, <2>3 DEF Tree!Listable
<1>3. CASE Datasets = {}
  BY <1>1, <1>3 DEF TypeOK
<1>4. CASE Datasets # {}
  <2>1. PICK d \in Datasets : entries[d] # Nothing
    BY <1>1, <1>4 DEF EntriesDescribeBuild, Reached, TypeOK
  <2>2. entries # NoEntries
    BY <2>1 DEF NoEntries
  <2>3. Tree!NoEntries = NoEntries
    BY DEF Tree!NoEntries, NoEntries
  <2>4. Tree!FlipTo(catalog')
    BY <1>1, <1>2, <2>2, <2>3 DEF Tree!FlipTo
  <2>5. QED BY <2>4 DEF Tree!TreeNext
<1>5. QED BY <1>3, <1>4

\* Whatever is killed, rebuilt, redeclared or delisted, what readers see is the
\* published tree: directories appear whole and stay, and the catalog moves in
\* one step from landed versions to landed versions no older.
THEOREM PublisherImplementsTree == Spec => ImplementsTree
<1>1. Init => Tree!TreeInit
  BY DEF Init, NoEntries, Tree!TreeInit, Tree!NoEntries
<1>2. TypeOK /\ RunShape /\ DirsWrittenOnce /\ EntriesDescribeBuild
      /\ [Next]_vars => [Tree!TreeNext]_(Tree!treeVars)
  <2> SUFFICES ASSUME TypeOK, RunShape, DirsWrittenOnce, EntriesDescribeBuild,
                      [Next]_vars
               PROVE  Tree!TreeNext \/ UNCHANGED <<dirs, catalog>>
    BY DEF Tree!treeVars
  <2>1. ASSUME NEW d \in Datasets, Mint(d) PROVE Tree!TreeNext
    BY <2>1, MintLands
  <2>2. CASE Flip
    BY <2>2, FlipIsFlipTo
  <2>3. QED BY <2>1, <2>2 DEF Next, Begin, Stage, Refuse, StartMinting,
            CarryForward, Crash, Rebuild, Declare, ListOrDelist, vars
<1>3. QED BY <1>1, <1>2, TypeCorrect, CompleteHolds, EntriesHold, PTL
          DEF Spec, ImplementsTree, Tree!TreeSpec

-----------------------------------------------------------------------------
(* No version churn.                                                        *)

Content(p) == [p EXCEPT !.at = 0]

\* A new entry differs from the listed one in more than its stamp.
LEMMA NewDiffers ==
    ASSUME TypeOK, NEW d \in Datasets, Reached(d),
           catalog[d] # Nothing, entries[d] # catalog[d]
    PROVE  Content(catalog[d]) # Content(entries[d])
<1>1. entries[d] \in Packages /\ catalog[d] \in Packages /\ ~Unchanged(d)
  BY DEF Reached, TypeOK
<1>2. /\ entries[d].rows = build[d].rows /\ entries[d].body = build[d].body
      /\ entries[d].contract = build[d].contract
      /\ entries[d].schema = declared[d]
  BY DEF Reached, Package
<1>3. /\ Content(entries[d]).rows = entries[d].rows
      /\ Content(entries[d]).body = entries[d].body
      /\ Content(entries[d]).contract = entries[d].contract
      /\ Content(entries[d]).schema = entries[d].schema
      /\ Content(catalog[d]).rows = catalog[d].rows
      /\ Content(catalog[d]).body = catalog[d].body
      /\ Content(catalog[d]).contract = catalog[d].contract
      /\ Content(catalog[d]).schema = catalog[d].schema
  BY <1>1 DEF Content, Packages
<1>4. QED BY <1>1, <1>2, <1>3 DEF Unchanged

\* NoChurn with the content named.
LEMMA ChurnByContent ==
    NoChurn <=> \A d \in Datasets : \A ij \in Listings(d) :
        ij[2] = ij[1] + 1 =>
            Content(log[d][ij[1]].entry) # Content(log[d][ij[2]].entry)
BY DEF NoChurn, Content

LEMMA FlipKeepsNoChurn ==
    ASSUME TypeOK, LogEndsWithCatalog, EntriesDescribeBuild, NoChurn, Flip
    PROVE  NoChurn'
<1>1. /\ log' = [d \in Datasets |-> Logged(d)]
      /\ pc = "minting" /\ todo = {}
  BY DEF Flip, AllLanded
<1>2. ASSUME NEW d \in Datasets, NEW i \in 1..Len(log'[d]), i + 1 \in 1..Len(log'[d]),
             log'[d][i].entry # Nothing, log'[d][i + 1].entry # Nothing
      PROVE  Content(log'[d][i].entry) # Content(log'[d][i + 1].entry)
  <2> DEFINE n == Len(log[d])
             row == [entry |-> entries[d], lifted |-> override \/ entries[d] = Nothing]
  <2>1. log[d] \in Seq([entry : Packages \cup {Nothing}, lifted : BOOLEAN])
    BY DEF TypeOK
  <2>2. row.entry = entries[d]
    OBVIOUS
  <2>3. log'[d] = IF entries[d] = catalog[d] THEN log[d] ELSE Append(log[d], row)
    BY <1>1 DEF Logged
  <2> HIDE DEF row
  <2>4. n \in Nat
    BY <2>1
  <2>5. ASSUME i \in 1..n, i + 1 \in 1..n,
               log'[d][i] = log[d][i], log'[d][i + 1] = log[d][i + 1]
        PROVE  Content(log'[d][i].entry) # Content(log'[d][i + 1].entry)
    <3>1. \A k \in i..(i + 1) : k = i \/ k = i + 1
      BY <2>5
    <3>2. <<i, i + 1>> \in Listings(d)
      BY <1>2, <2>5, <3>1 DEF Listings
    <3>3. QED BY <2>5, <3>2, ChurnByContent
  <2>6. CASE entries[d] = catalog[d]
    BY <1>2, <2>3, <2>5, <2>6
  <2>7. CASE entries[d] # catalog[d]
    <3>1. log'[d] = Append(log[d], row)
      BY <2>3, <2>7
    <3>2. /\ Len(log'[d]) = n + 1 /\ log'[d][n + 1] = row
          /\ \A k \in 1..n : log'[d][k] = log[d][k]
      BY <2>1, <3>1
    <3>3. CASE i + 1 \in 1..n
      BY <2>4, <2>5, <3>2, <3>3
    <3>4. CASE i = n
      <4>1. log[d][n].entry # Nothing /\ entries[d] # Nothing /\ n \in 1..n
        BY <1>2, <2>2, <3>2, <3>4
      <4>2. catalog[d] # Nothing /\ log[d][n].entry = catalog[d]
        BY <4>1 DEF LogEndsWithCatalog
      <4>3. Reached(d)
        BY <1>1, <4>1 DEF EntriesDescribeBuild
      <4>4. Content(catalog[d]) # Content(entries[d])
        BY <2>7, <4>2, <4>3, NewDiffers
      <4>5. log'[d][i].entry = catalog[d] /\ log'[d][i + 1].entry = entries[d]
        BY <2>2, <3>2, <3>4, <4>1, <4>2
      <4>6. QED BY <4>4, <4>5
    <3>5. QED BY <1>2, <2>4, <3>2, <3>3, <3>4
  <2>8. QED BY <2>6, <2>7
<1>3. \A d \in Datasets : \A ij \in Listings(d)' : ij[2] = ij[1] + 1 =>
         Content(log'[d][ij[1]].entry) # Content(log'[d][ij[2]].entry)
  <2> SUFFICES ASSUME NEW d \in Datasets, NEW ij \in Listings(d)',
                      ij[2] = ij[1] + 1
               PROVE  Content(log'[d][ij[1]].entry) # Content(log'[d][ij[2]].entry)
    OBVIOUS
  <2>1. /\ ij[1] \in 1..Len(log'[d]) /\ ij[2] \in 1..Len(log'[d])
        /\ \A k \in ij[1]..ij[2] : log'[d][k].entry # Nothing
    BY DEF Listings
  <2>2. ij[1] \in Nat /\ ij[1] \in ij[1]..ij[2] /\ ij[2] \in ij[1]..ij[2]
    BY <2>1
  <2>3. QED BY <1>2, <2>1, <2>2
<1>4. QED BY <1>3, ChurnByContent DEF NoChurn, Content

\* Two versions of a dataset that follow one another in the catalog differ in
\* bytes, contract or schema_version: skip-if-unchanged never fails to skip.
THEOREM VersionsNeverChurn == Spec => []NoChurn
<1>1. Init => NoChurn
  BY DEF Init, NoChurn, Listings
<1>2. TypeOK /\ LogEndsWithCatalog /\ EntriesDescribeBuild /\ NoChurn /\ [Next]_vars
      => NoChurn'
  <2> SUFFICES ASSUME TypeOK, LogEndsWithCatalog, EntriesDescribeBuild, NoChurn,
                      [Next]_vars
               PROVE  NoChurn'
    OBVIOUS
  <2>1. CASE Flip
    BY <2>1, FlipKeepsNoChurn
  <2>2. CASE UNCHANGED log
    BY <2>2 DEF NoChurn, Listings
  <2>3. QED BY <2>1, <2>2 DEF Next, Begin, Stage, Refuse, StartMinting,
            CarryForward, Mint, Crash, Rebuild, Declare, ListOrDelist, vars
<1>3. PinsInv => LogEndsWithCatalog
  BY DEF PinsInv
<1>4. QED BY <1>1, <1>2, <1>3, TypeCorrect, PinsHold, EntriesHold, PTL DEF Spec

-----------------------------------------------------------------------------
(* Recursive functions over histories.                                      *)

\* Induction on a set of numbers, by the least number it lacks.
LEMMA SetInduction ==
    ASSUME NEW S, 0 \in S, \A n \in Nat : n \in S => n + 1 \in S
    PROVE  Nat \subseteq S
<1> DEFINE Smaller == OpToRel(<, Nat)
<1>1. IsWellFoundedOn(Smaller, Nat)
  BY NatLessThanWellFounded
<1>2. \A m, n \in Nat : <<n, m>> \in Smaller <=> n < m
  BY DEF OpToRel
<1> HIDE DEF Smaller
<1>3. SUFFICES ASSUME NEW Rest \in SUBSET Nat, Rest = Nat \ S, Rest # {} PROVE FALSE
  OBVIOUS
<1>4. PICK m \in Rest : \A n \in Rest : ~(<<n, m>> \in Smaller)
  BY <1>1, <1>3, WFMin
<1>5. m \in Nat /\ m \notin S /\ m # 0
  BY <1>3
<1>6. m - 1 \in Nat /\ m - 1 < m /\ (m - 1) + 1 = m
  BY <1>5
<1>7. m - 1 \in S
  BY <1>2, <1>3, <1>4, <1>5, <1>6
<1>8. QED BY <1>5, <1>6, <1>7

-----------------------------------------------------------------------------
(* The replay of the volume gate over a history.                            *)

\* Where counting starts after version i, if it started at `start` before it.
Restart(h, start, i, percent) ==
    LET window == Slice(h, Larger(start, i - Window), i - 1)
    IN IF window # {} /\ Shrinks(Max(window), h[i], percent) THEN i ELSE start
Replays(f, h, n, percent) ==
    f = [i \in 0..n |-> IF i = 0 THEN 1 ELSE Restart(h, f[i-1], i, percent)]

\* The recursion has a solution over a history of any length.
LEMMA ReplayExists ==
    ASSUME NEW h, NEW percent, NEW N \in Nat
    PROVE  \E f : Replays(f, h, N, percent)
<1> DEFINE Solved == {n \in Nat : \E f : Replays(f, h, n, percent)}
<1>1. 0 \in Solved
  <2> DEFINE f == [i \in 0..0 |-> 1]
  <2>1. Replays(f, h, 0, percent)
    BY DEF Replays
  <2>2. QED BY <2>1
<1>2. ASSUME NEW n \in Nat, n \in Solved PROVE n + 1 \in Solved
  <2>1. PICK f : Replays(f, h, n, percent)
    BY <1>2
  <2> DEFINE longer == [i \in 0..(n + 1) |-> IF i = n + 1
                          THEN Restart(h, f[n], n + 1, percent) ELSE f[i]]
  <2>2. ASSUME NEW i \in 0..(n + 1)
        PROVE  longer[i] = IF i = 0 THEN 1 ELSE Restart(h, longer[i - 1], i, percent)
    <3>1. CASE i = n + 1
      BY <3>1
    <3>2. CASE i # n + 1
      <4>1. i \in 0..n /\ (i # 0 => i - 1 \in 0..(n + 1) /\ i - 1 # n + 1)
        BY <3>2
      <4>2. f[i] = IF i = 0 THEN 1 ELSE Restart(h, f[i - 1], i, percent)
        BY <2>1, <4>1 DEF Replays
      <4>3. QED BY <3>2, <4>1, <4>2
    <3>3. QED BY <3>1, <3>2
  <2>3. Replays(longer, h, n + 1, percent)
    BY <2>2 DEF Replays
  <2>4. QED BY <2>3
<1> HIDE DEF Solved
<1>3. Nat \subseteq Solved
  BY <1>1, <1>2, SetInduction
<1>4. QED BY <1>3 DEF Solved

LEMMA StartReplays ==
    ASSUME NEW h, NEW percent, Len(h) \in Nat
    PROVE  Replays(Start(h, percent), h, Len(h), percent)
<1> DEFINE f == CHOOSE f : Replays(f, h, Len(h), percent)
<1>1. Replays(f, h, Len(h), percent)
  BY ReplayExists
<1>2. Start(h, percent) = f
  BY Zenon DEF Start, Replays, Restart
<1>3. QED BY <1>1, <1>2

LEMMA ReplayStep ==
    ASSUME NEW h, NEW percent, NEW n \in Nat, NEW f, Replays(f, h, n, percent)
    PROVE  /\ f[0] = 1
           /\ \A i \in 1..n : f[i] = Restart(h, f[i-1], i, percent)
<1>1. \A i \in 0..n : f[i] = IF i = 0 THEN 1 ELSE Restart(h, f[i-1], i, percent)
  BY Zenon DEF Replays
<1>2. 0 \in 0..n /\ \A i \in 1..n : i \in 0..n /\ i # 0
  OBVIOUS
<1>3. QED BY <1>1, <1>2, Zenon

\* Counting starts at a version of the history.
LEMMA ReplayBounds ==
    ASSUME NEW h, NEW percent, NEW n \in Nat, NEW f, Replays(f, h, n, percent)
    PROVE  \A i \in 0..n : f[i] \in Nat /\ 1 <= f[i] /\ f[i] <= Larger(i, 1)
<1>0. f[0] = 1 /\ \A i \in 1..n : f[i] = Restart(h, f[i-1], i, percent)
  BY ReplayStep
<1> DEFINE Fits == {i \in Nat : i <= n => f[i] \in Nat /\ 1 <= f[i] /\ f[i] <= Larger(i, 1)}
<1>1. 0 \in Fits
  BY <1>0 DEF Larger
<1>2. ASSUME NEW i \in Nat, i \in Fits PROVE i + 1 \in Fits
  <2>1. CASE i + 1 <= n
    <3>1. f[i + 1] = i + 1 \/ f[i + 1] = f[i]
      <4>1. i + 1 \in 1..n /\ (i + 1) - 1 = i
        BY <2>1
      <4>2. f[i + 1] = Restart(h, f[i], i + 1, percent)
        BY <1>0, <4>1
      <4>3. QED BY <4>2 DEF Restart
    <3>2. f[i] \in Nat /\ 1 <= f[i] /\ f[i] <= Larger(i, 1)
      BY <1>2, <2>1
    <3>3. QED BY <3>1, <3>2 DEF Larger
  <2>2. QED BY <2>1
<1> HIDE DEF Fits
<1>3. Nat \subseteq Fits
  BY <1>1, <1>2, SetInduction
<1>4. QED BY <1>3 DEF Fits

SameUpTo(g, h, m) == \A i \in 1..m : g[i] = h[i]

\* The replay of a longer history goes on from that of its prefix.
LEMMA ReplaysAgree ==
    ASSUME NEW h, NEW g, NEW percent, NEW n \in Nat, NEW m \in 0..n,
           NEW f, Replays(f, h, n, percent), NEW e, Replays(e, g, m, percent),
           SameUpTo(g, h, m)
    PROVE  \A i \in 0..m : e[i] = f[i]
<1>0. m \in Nat /\ m <= n
  OBVIOUS
<1>a. e[0] = 1 /\ \A i \in 1..m : e[i] = Restart(g, e[i-1], i, percent)
  BY <1>0, ReplayStep
<1>b. f[0] = 1 /\ \A i \in 1..n : f[i] = Restart(h, f[i-1], i, percent)
  <2>1. f[0] = 1
    BY ReplayStep
  <2>2. \A i \in 1..n : f[i] = Restart(h, f[i-1], i, percent)
    BY ReplayStep
  <2>3. QED BY <2>1, <2>2
<1>c. \A i \in 0..n : f[i] \in Nat /\ 1 <= f[i] /\ f[i] <= Larger(i, 1)
  BY ReplayBounds DEF Larger
<1> DEFINE Same == {i \in Nat : i <= m => e[i] = f[i]}
<1>1. 0 \in Same
  BY <1>a, <1>b
<1>2. ASSUME NEW i \in Nat, i \in Same PROVE i + 1 \in Same
  <2>1. CASE i + 1 <= m
    <3>1. i + 1 \in 1..m /\ i + 1 \in 1..n /\ (i + 1) - 1 = i /\ i \in 0..n
      BY <2>1
    <3>2. e[i] = f[i] /\ f[i] \in Nat /\ 1 <= f[i]
      BY <1>2, <1>c, <2>1, <3>1
    <3>3. /\ e[i + 1] = Restart(g, f[i], i + 1, percent)
          /\ f[i + 1] = Restart(h, f[i], i + 1, percent)
      BY <1>a, <1>b, <3>1, <3>2
    <3>4. \A k \in Larger(f[i], (i + 1) - Window)..((i + 1) - 1) : g[k] = h[k]
      BY <3>1, <3>2 DEF Larger, SameUpTo
    <3>5. Slice(g, Larger(f[i], (i + 1) - Window), (i + 1) - 1)
            = Slice(h, Larger(f[i], (i + 1) - Window), (i + 1) - 1)
      BY <3>4, Zenon DEF Slice
    <3>6. g[i + 1] = h[i + 1]
      BY <3>1 DEF SameUpTo
    <3>7. Restart(g, f[i], i + 1, percent) = Restart(h, f[i], i + 1, percent)
      BY <3>5, <3>6, Zenon DEF Restart
    <3>8. e[i + 1] = f[i + 1]
      BY <3>3, <3>7
    <3>9. QED BY <3>8
  <2>2. QED BY <2>1
<1> HIDE DEF Same
<1>3. Nat \subseteq Same
  BY <1>1, <1>2, SetInduction
<1>4. QED BY <1>0, <1>3 DEF Same

\* The largest of some counts is one of them.
LEMMA SliceHasMax ==
    ASSUME NEW h, NEW n \in Nat, \A i \in 1..n : h[i] \in Nat,
           NEW first \in 1..n, NEW last \in first..n
    PROVE  /\ Max(Slice(h, first, last)) \in Nat
           /\ \A i \in first..last : h[i] <= Max(Slice(h, first, last))
<1> DEFINE Top(l) == \E k \in first..l : \A i \in first..l : h[i] <= h[k]
           Topped == {j \in Nat : first + j <= n => Top(first + j)}
<1>1. 0 \in Topped
  <2>1. first..(first + 0) = {first} /\ h[first] \in Nat
    OBVIOUS
  <2>2. Top(first + 0)
    BY <2>1
  <2>3. QED BY <2>2
<1>2. ASSUME NEW j \in Nat, j \in Topped PROVE j + 1 \in Topped
  <2>1. CASE first + (j + 1) <= n
    <3> DEFINE l == first + j
    <3>1. PICK k \in first..l : \A i \in first..l : h[i] <= h[k]
      BY <1>2, <2>1
    <3>2. /\ first + (j + 1) = l + 1 /\ l + 1 \in 1..n /\ l \in Nat
          /\ \A i \in first..(l + 1) : i = l + 1 \/ i \in first..l
          /\ \A i \in first..(l + 1) : i \in 1..n
          /\ k \in first..(l + 1) /\ l + 1 \in first..(l + 1)
      BY <2>1
    <3> HIDE DEF l
    <3>3. h[k] \in Nat /\ h[l + 1] \in Nat /\ \A i \in first..(l + 1) : h[i] \in Nat
      BY <3>2
    <3>4. CASE h[k] <= h[l + 1]
      <4>1. \A i \in first..(l + 1) : h[i] <= h[l + 1]
        BY <3>1, <3>2, <3>3, <3>4
      <4>2. QED BY <3>2, <4>1
    <3>5. CASE ~(h[k] <= h[l + 1])
      <4>1. \A i \in first..(l + 1) : h[i] <= h[k]
        BY <3>1, <3>2, <3>3, <3>5
      <4>2. QED BY <3>2, <4>1
    <3>6. QED BY <3>4, <3>5
  <2>2. QED BY <2>1
<1> HIDE DEF Topped
<1>3. Nat \subseteq Topped
  BY <1>1, <1>2, SetInduction
<1>4. Top(last)
  <2>1. last - first \in Nat /\ first + (last - first) = last
    OBVIOUS
  <2>2. last - first \in Topped
    BY <1>3, <2>1
  <2>3. QED BY <2>1, <2>2 DEF Topped
<1>5. PICK k \in first..last : \A i \in first..last : h[i] <= h[k]
  BY <1>4
<1> HIDE DEF Top
<1> DEFINE S == Slice(h, first, last)
<1>6. h[k] \in S /\ \A x \in S : x \in Nat /\ h[k] >= x
  BY <1>5 DEF Slice
<1>7. Max(S) \in S /\ \A x \in S : Max(S) >= x
  BY <1>6 DEF Max
<1>8. \A i \in first..last : h[i] \in S
  BY DEF Slice
<1>9. QED BY <1>6, <1>7, <1>8

\* The counts a gate after n versions looks at.
Recent(h, start, n) == Slice(h, Larger(start, n - Window + 1), n)

LEMMA BaselineIsRecent ==
    ASSUME NEW h, NEW percent, NEW n \in Nat \ {0}, Len(h) = n,
           \A i \in 1..n : h[i] \in Nat,
           NEW f, Replays(f, h, n, percent)
    PROVE  /\ Baseline(h, percent) = Max(Recent(h, f[n], n))
           /\ Baseline(h, percent) \in Nat
           /\ \A i \in 1..n : i >= f[n] /\ i >= n - Window + 1 => h[i] <= Baseline(h, percent)
<1> DEFINE e == Start(h, percent)
           first == Larger(f[n], n - Window + 1)
<1>1. Replays(e, h, n, percent)
  BY StartReplays
<1> HIDE DEF e
<1>2. n \in 0..n /\ n \in Nat
  OBVIOUS
<1>3. \A i \in 0..n : e[i] = f[i]
  <2>1. SameUpTo(h, h, n)
    BY DEF SameUpTo
  <2>2. QED BY <1>1, <1>2, <2>1, ReplaysAgree
<1>4. e[n] = f[n]
  BY <1>2, <1>3
<1>5. f[n] \in Nat /\ 1 <= f[n] /\ f[n] <= Larger(n, 1)
  BY <1>2, ReplayBounds
<1>6. first \in 1..n /\ n \in first..n
  BY <1>2, <1>5 DEF Larger
<1> HIDE DEF first
<1>7. /\ Max(Slice(h, first, n)) \in Nat
      /\ \A i \in first..n : h[i] <= Max(Slice(h, first, n))
  BY <1>2, <1>6, SliceHasMax
<1>8. Slice(h, first, n) # {}
  BY <1>6 DEF Slice
<1>9. Baseline(h, percent) = Max(Slice(h, first, n))
  <2>1. Baseline(h, percent) = IF Slice(h, Larger(e[n], n - Window + 1), n) = {} THEN 0
                               ELSE Max(Slice(h, Larger(e[n], n - Window + 1), n))
    BY Zenon DEF Baseline, e
  <2>2. QED BY <1>4, <1>8, <2>1 DEF first
<1>10. \A i \in 1..n : i >= f[n] /\ i >= n - Window + 1 => i \in first..n
  BY <1>5, <1>6 DEF Larger, first
<1>11. QED BY <1>7, <1>9, <1>10 DEF Recent, first

Prefix(h, m) == [i \in 1..m |-> h[i]]

LEMMA PrefixIsHistory ==
    ASSUME NEW h, NEW m \in Nat, \A i \in 1..m : h[i] \in Nat
    PROVE  /\ Len(Prefix(h, m)) = m
           /\ SameUpTo(Prefix(h, m), h, m)
<1>1. Prefix(h, m) \in Seq(Nat)
  BY DEF Prefix
<1>2. QED BY <1>1 DEF Prefix, SameUpTo

LEMMA StartsAgree ==
    ASSUME NEW h, NEW percent, NEW n \in Nat, NEW f, Replays(f, h, n, percent),
           NEW m \in 0..n, NEW g, Len(g) = m, SameUpTo(g, h, m)
    PROVE  Start(g, percent)[m] = f[m]
<1>1. m \in 0..m /\ m \in Nat
  OBVIOUS
<1>2. PICK e : e = Start(g, percent)
  OBVIOUS
<1>3. Replays(e, g, m, percent)
  BY <1>1, <1>2, StartReplays
<1>4. \A k \in 0..m : e[k] = f[k]
  BY <1>3, ReplaysAgree
<1>5. QED BY <1>1, <1>2, <1>4

\* So a replay knows what each earlier gate counted.
LEMMA EarlierBaseline ==
    ASSUME NEW h, NEW percent, NEW n \in Nat, \A i \in 1..n : h[i] \in Nat,
           NEW f, Replays(f, h, n, percent), NEW m \in 1..n
    PROVE  Baseline(Prefix(h, m), percent) = Max(Recent(h, f[m], m))
<1>a. PICK g : g = Prefix(h, m)
  OBVIOUS
<1>1. m \in Nat \ {0} /\ m \in Nat /\ m \in 0..n /\ m \in 0..m
      /\ \A k \in 1..m : h[k] \in Nat
  OBVIOUS
<1>2. Len(g) = m
  BY <1>1, <1>a, PrefixIsHistory
<1>3. SameUpTo(g, h, m)
  BY <1>1, <1>a, PrefixIsHistory
<1>4. Start(g, percent)[m] = f[m]
  BY <1>1, <1>2, <1>3, StartsAgree
<1>5. \A k \in 1..m : g[k] \in Nat
  BY <1>1, <1>3 DEF SameUpTo
<1>6. Baseline(g, percent) = Max(Recent(g, Start(g, percent)[m], m))
  <2>1. Replays(Start(g, percent), g, m, percent)
    BY <1>1, <1>2, StartReplays
  <2>2. QED BY <1>1, <1>2, <1>5, <2>1, BaselineIsRecent
<1>7. f[m] \in Nat /\ 1 <= f[m]
  <2>1. f[m] \in Nat /\ 1 <= f[m] /\ f[m] <= Larger(m, 1)
    BY <1>1, ReplayBounds
  <2>2. QED BY <2>1
<1>8. Recent(g, f[m], m) = Recent(h, f[m], m)
  <2>1. \A k \in Larger(f[m], m - Window + 1)..m : g[k] = h[k]
    BY <1>1, <1>3, <1>7 DEF Larger, SameUpTo
  <2>2. QED BY <2>1, Zenon DEF Slice, Recent
<1>9. QED BY <1>4, <1>6, <1>8, <1>a

\* A version the gate let through does not restart the count.
LEMMA PassedStays ==
    ASSUME NEW h, NEW percent, NEW n \in Nat, \A i \in 1..n : h[i] \in Nat,
           NEW f, Replays(f, h, n, percent),
           NEW i \in 2..n, ~Shrinks(Baseline(Prefix(h, i - 1), percent), h[i], percent)
    PROVE  f[i] = f[i - 1]
<1>1. i - 1 \in 1..n /\ i \in 1..n /\ (i - 1) - Window + 1 = i - Window
  OBVIOUS
<1>2. \A m \in 1..n : Baseline(Prefix(h, m), percent) = Max(Recent(h, f[m], m))
  BY EarlierBaseline
<1>3. ~Shrinks(Max(Slice(h, Larger(f[i - 1], i - Window), i - 1)), h[i], percent)
  BY <1>1, <1>2 DEF Recent
<1>4. f[i] = Restart(h, f[i - 1], i, percent)
  <2>1. \A k \in 1..n : f[k] = Restart(h, f[k-1], k, percent)
    BY ReplayStep
  <2>2. QED BY <1>1, <2>1
<1>5. QED BY <1>3, <1>4, Zenon DEF Restart

\* What the gate counts: if every version after a passed it, the baseline is at
\* least the count of a, as long as the window reaches back to a.
LEMMA WindowReachesBack ==
    ASSUME NEW h, NEW percent, NEW n \in Nat \ {0}, Len(h) = n,
           \A i \in 1..n : h[i] \in Nat,
           NEW a \in 1..n, a >= n - Window + 1,
           \A i \in (a + 1)..n :
              ~Shrinks(Baseline(Prefix(h, i - 1), percent), h[i], percent)
    PROVE  Baseline(h, percent) \in Nat /\ h[a] <= Baseline(h, percent)
<1> DEFINE f == Start(h, percent)
<1>0. n \in Nat /\ n \in 0..n
  OBVIOUS
<1>1. Replays(f, h, n, percent)
  BY StartReplays
<1> HIDE DEF f
<1>a. \A i \in 2..n : ~Shrinks(Baseline(Prefix(h, i - 1), percent), h[i], percent)
                     => f[i] = f[i - 1]
  BY <1>0, <1>1, PassedStays
<1>2. f[n] = f[a]
  <2> DEFINE Steady == {j \in Nat : a + j <= n => f[a + j] = f[a]}
  <2>1. 0 \in Steady
    OBVIOUS
  <2>2. ASSUME NEW j \in Nat, j \in Steady PROVE j + 1 \in Steady
    <3>1. CASE a + (j + 1) <= n
      <4>1. /\ a + (j + 1) \in 2..n /\ a + (j + 1) \in (a + 1)..n
            /\ (a + (j + 1)) - 1 = a + j
        BY <3>1
      <4>2. f[a + (j + 1)] = f[(a + (j + 1)) - 1]
        BY <1>a, <4>1
      <4>3. QED BY <2>2, <3>1, <4>1, <4>2
    <3>2. QED BY <3>1
  <2> HIDE DEF Steady
  <2>3. Nat \subseteq Steady
    BY <2>1, <2>2, SetInduction
  <2>4. n - a \in Nat /\ a + (n - a) = n
    OBVIOUS
  <2>5. n - a \in Steady
    BY <2>3, <2>4
  <2>6. QED BY <2>4, <2>5 DEF Steady
<1>3. f[a] \in Nat /\ f[a] <= a
  <2>1. a \in 0..n
    OBVIOUS
  <2>2. f[a] \in Nat /\ 1 <= f[a] /\ f[a] <= Larger(a, 1)
    BY <1>0, <1>1, <2>1, ReplayBounds
  <2>3. QED BY <2>2 DEF Larger
<1>4. /\ Baseline(h, percent) \in Nat
      /\ \A i \in 1..n : i >= f[n] /\ i >= n - Window + 1 => h[i] <= Baseline(h, percent)
  BY <1>1, BaselineIsRecent
<1>5. QED BY <1>2, <1>3, <1>4

\* A build that does not shrink against a count does not against a smaller one.
LEMMA ShrinksLess ==
    ASSUME NEW a \in Nat, NEW b \in Nat, a <= b, NEW rows \in Nat,
           NEW percent \in 0..100, ~Shrinks(b, rows, percent)
    PROVE  ~Shrinks(a, rows, percent)
<1>1. (100 - percent) * (b - a) >= 0
  <2>1. 100 - percent \in Nat /\ b - a \in Nat
    OBVIOUS
  <2>2. \A x, y \in Nat : x * y >= 0
    OBVIOUS
  <2>3. QED BY <2>1, <2>2
<1>2. (100 - percent) * (b - a) = 100 * b - 100 * a - percent * b + percent * a
  OBVIOUS
<1>3. percent * a \in Int /\ percent * b \in Int /\ percent * 0 = 0
  OBVIOUS
<1>4. CASE a = 0
  BY <1>4 DEF Shrinks
<1>5. CASE a > 0
  <2>1. ~((b - rows) * 100 > percent * b)
    BY <1>5 DEF Shrinks
  <2>2. b * 100 - rows * 100 <= percent * b
    BY <1>3, <2>1
  <2>3. a * 100 - rows * 100 <= percent * a
    BY <1>1, <1>2, <1>3, <2>2
  <2>4. QED BY <1>3, <2>3 DEF Shrinks
<1>6. QED BY <1>4, <1>5

-----------------------------------------------------------------------------
(* The history that a gate reads.                                           *)

\* The place of a version among the known ones.
Rank(S, s) == Cardinality({t \in S : t <= s})

LEMMA StampSets ==
    ASSUME NEW S \in SUBSET Stamps
    PROVE  /\ IsFiniteSet(S) /\ Cardinality(S) \in Nat
           /\ \A s : Rank(S, s) \in Nat /\ Rank(S, s) <= Cardinality(S)
<1>1. ASSUME NEW T \in SUBSET Stamps PROVE IsFiniteSet(T) /\ Cardinality(T) \in Nat
  <2>1. IsFiniteSet(Stamps)
    BY FS_Interval DEF Stamps
  <2>2. IsFiniteSet(T)
    BY <2>1, FS_Subset
  <2>3. QED BY <2>2, FS_CardinalityType
<1>2. ASSUME NEW s PROVE Rank(S, s) \in Nat /\ Rank(S, s) <= Cardinality(S)
  <2> DEFINE T == {t \in S : t <= s}
  <2>1. T \in SUBSET S /\ T \in SUBSET Stamps
    OBVIOUS
  <2> HIDE DEF T
  <2>2. Cardinality(T) \in Nat /\ Cardinality(T) <= Cardinality(S)
    BY <1>1, <2>1, FS_Subset
  <2>3. QED BY <2>2 DEF Rank, T
<1>3. QED BY <1>1, <1>2

\* The next known version has the next place.
LEMMA RankNext ==
    ASSUME NEW S \in SUBSET Stamps, NEW s \in S, NEW t \in S, s < t,
           \A u \in S : ~(s < u /\ u < t)
    PROVE  Rank(S, t) = Rank(S, s) + 1
<1> DEFINE Low == {u \in S : u <= s}
<1>0. \A u \in S : u \in Int
  BY DEF Stamps
<1>1. Low \in SUBSET Stamps /\ t \notin Low
  BY <1>0
<1>2. {u \in S : u <= t} = Low \cup {t}
  <2>1. \A u \in S : u <= t <=> (u <= s \/ u = t)
    BY <1>0
  <2>2. QED BY <2>1
<1> HIDE DEF Low
<1>3. IsFiniteSet(Low)
  BY <1>1, StampSets
<1>4. Cardinality(Low \cup {t}) = Cardinality(Low) + 1
  BY <1>1, <1>3, FS_AddElement
<1>5. QED BY <1>2, <1>4 DEF Rank, Low

LEMMA RankGrows ==
    ASSUME NEW S \in SUBSET Stamps, NEW s \in S, NEW t \in S, s < t
    PROVE  Rank(S, s) < Rank(S, t)
<1> DEFINE Low == {u \in S : u <= s}
           High == {u \in S : u <= t}
<1>1. /\ Low \in SUBSET Stamps /\ High \in SUBSET Stamps
      /\ t \notin Low /\ (Low \cup {t}) \in SUBSET High
  <2>1. \A u \in S : u \in Int
    BY DEF Stamps
  <2>2. t \notin Low /\ \A u \in S : u <= s => u <= t
    BY <2>1
  <2>3. t \in High
    BY <2>1
  <2>4. QED BY <2>2, <2>3
<1> HIDE DEF Low, High
<1>2. IsFiniteSet(Low) /\ IsFiniteSet(High) /\ Cardinality(Low) \in Nat
      /\ Cardinality(High) \in Nat
  BY <1>1, StampSets
<1>3. Cardinality(Low \cup {t}) = Cardinality(Low) + 1
  BY <1>1, <1>2, FS_AddElement
<1>4. Cardinality(Low \cup {t}) <= Cardinality(High)
  BY <1>1, <1>2, FS_Subset
<1>5. Cardinality(Low) < Cardinality(High)
  BY <1>2, <1>3, <1>4
<1>6. QED BY <1>5 DEF Rank, Low, High

LEMMA RankTells ==
    ASSUME NEW S \in SUBSET Stamps, NEW s \in S, NEW t \in S, Rank(S, s) = Rank(S, t)
    PROVE  s = t
<1>1. s < t => Rank(S, s) < Rank(S, t)
  BY RankGrows
<1>2. t < s => Rank(S, t) < Rank(S, s)
  BY RankGrows
<1>3. Rank(S, s) \in Nat /\ Rank(S, t) \in Nat /\ s \in Nat /\ t \in Nat
  BY StampSets DEF Stamps
<1>4. QED BY <1>1, <1>2, <1>3

\* Every known version has a place, and every place a version.
LEMMA RankCovers ==
    ASSUME NEW S \in SUBSET Stamps
    PROVE  /\ \A s \in S : Rank(S, s) \in 1..Cardinality(S)
           /\ \A i \in 1..Cardinality(S) : \E s \in S : Rank(S, s) = i
<1> DEFINE n == Cardinality(S)
           place == [s \in S |-> Rank(S, s)]
<1>1. n \in Nat /\ IsFiniteSet(S)
  BY StampSets
<1>2. ASSUME NEW s \in S PROVE Rank(S, s) \in 1..n
  <2>1. Rank(S, s) \in Nat /\ Rank(S, s) <= n
    BY StampSets
  <2>2. Rank(S, s) # 0
    <3> DEFINE T == {t \in S : t <= s}
    <3>1. T \in SUBSET Stamps /\ s \in T
      <4>1. s \in Int
        BY DEF Stamps
      <4>2. s <= s
        BY <4>1
      <4>3. T \in SUBSET Stamps
        OBVIOUS
      <4>4. QED BY <4>2, <4>3
    <3> HIDE DEF T
    <3>2. IsFiniteSet(T)
      BY <3>1, StampSets
    <3>3. Cardinality(T) # 0
      BY <3>1, <3>2, FS_EmptySet
    <3>4. QED BY <3>3 DEF Rank, T
  <2>3. QED BY <1>1, <2>1, <2>2
<1>3. place \in Injection(S, 1..n)
  <2>1. place \in [S -> 1..n]
    BY <1>2
  <2>2. \A s, t \in S : place[s] = place[t] => s = t
    BY RankTells
  <2> HIDE DEF place, n
  <2>3. QED BY <2>1, <2>2 DEF Injection, IsInjective
<1>4. IsFiniteSet(1..n) /\ Cardinality(1..n) = n
  BY <1>1, FS_Interval
<1>5. place \in Surjection(S, 1..n)
  <2> HIDE DEF place
  <2>1. QED BY <1>3, <1>4, FS_Injection
<1>6. \A i \in 1..n : \E s \in S : place[s] = i
  BY <1>5 DEF Surjection
<1>7. QED BY <1>2, <1>6

\* At its place the history has the row count of the version.
LEMMA CountAt ==
    ASSUME NEW d, NEW S \in SUBSET Stamps, NEW s \in S
    PROVE  RowCountsOf(d, S)[Rank(S, s)] = dirs[d][s].rows
<1>1. Rank(S, s) \in 1..Cardinality(S)
  BY RankCovers
<1>2. RowCountsOf(d, S)[Rank(S, s)]
        = dirs[d][CHOOSE t \in S : Rank(S, t) = Rank(S, s)].rows
  BY <1>1, Zenon DEF RowCountsOf, Rank
<1>3. (CHOOSE t \in S : Rank(S, t) = Rank(S, s)) = s
  BY RankTells
<1>4. QED BY <1>2, <1>3

LEMMA HistoryCounts ==
    ASSUME TypeOK, NEW d \in Datasets, NEW S \in SUBSET Stamps,
           \A s \in S : dirs[d][s] # Nothing
    PROVE  /\ Len(RowCountsOf(d, S)) = Cardinality(S)
           /\ \A i \in 1..Cardinality(S) : RowCountsOf(d, S)[i] \in Nat
<1> DEFINE h == RowCountsOf(d, S)
           n == Cardinality(S)
<1>1. \A i \in 1..n : h[i] \in Nat
  <2> SUFFICES ASSUME NEW i \in 1..n PROVE h[i] \in Nat
    OBVIOUS
  <2>1. PICK s \in S : Rank(S, s) = i
    BY RankCovers
  <2>2. h[i] = dirs[d][s].rows
    BY <2>1, CountAt
  <2>3. dirs[d][s] \in Packages
    BY DEF TypeOK
  <2>4. QED BY <2>2, <2>3 DEF Packages
<1>2. n \in Nat
  BY StampSets
<1>3. h = [i \in 1..n |-> h[i]]
  BY DEF RowCountsOf
<1> HIDE DEF h, n
<1>4. [i \in 1..n |-> h[i]] \in Seq(Nat) /\ Len([i \in 1..n |-> h[i]]) = n
  BY <1>1, <1>2
<1>5. Len(h) = n
  BY <1>3, <1>4
<1>6. QED BY <1>1, <1>5 DEF h, n

\* The history as it was when an earlier version was listed is a prefix.
LEMMA HistoryPrefix ==
    ASSUME NEW d, NEW S \in SUBSET Stamps, NEW s \in S
    PROVE  RowCountsOf(d, {t \in S : t <= s}) = Prefix(RowCountsOf(d, S), Rank(S, s))
<1> DEFINE T == {t \in S : t <= s}
           m == Rank(S, s)
<1>1. T \in SUBSET Stamps /\ Cardinality(T) = m /\ m \in 1..Cardinality(S)
      /\ Cardinality(S) \in Nat
  BY RankCovers, StampSets DEF Rank
<1>2. \A t \in T : Rank(T, t) = Rank(S, t)
  <2> SUFFICES ASSUME NEW t \in T PROVE Rank(T, t) = Rank(S, t)
    OBVIOUS
  <2>1. s \in Int /\ \A u \in S : u \in Int
    BY DEF Stamps
  <2>2. t \in S /\ t <= s
    OBVIOUS
  <2>3. \A u \in S : u <= t => u <= s
    BY <2>1, <2>2
  <2>4. {u \in T : u <= t} = {u \in S : u <= t}
    BY <2>3
  <2>5. QED BY <2>4 DEF Rank
<1>3. T \subseteq S
  OBVIOUS
<1> HIDE DEF T, m
<1>4. ASSUME NEW i \in 1..m
      PROVE  RowCountsOf(d, T)[i] = RowCountsOf(d, S)[i]
  <2>1. PICK t \in T : Rank(T, t) = i
    BY <1>1, RankCovers
  <2>2. RowCountsOf(d, T)[i] = dirs[d][t].rows
    BY <1>1, <2>1, CountAt
  <2>3. RowCountsOf(d, S)[i] = dirs[d][t].rows
    BY <1>2, <1>3, <2>1, CountAt
  <2>4. QED BY <2>2, <2>3
<1>5. RowCountsOf(d, T) = [i \in 1..m |-> RowCountsOf(d, T)[i]]
  BY <1>1 DEF RowCountsOf
<1>6. RowCountsOf(d, T) = Prefix(RowCountsOf(d, S), m)
  BY <1>4, <1>5, Zenon DEF Prefix
<1>7. QED BY <1>6 DEF T, m
-----------------------------------------------------------------------------
(* A shrunken dataset never ships silently.                                 *)

\* What the log lists of d is on disk and was listed in the order of its stamps;
\* a minting run has a later one.
ListedStand(d) ==
    /\ \A k \in 1..Len(log[d]) : log[d][k].entry # Nothing =>
          /\ dirs[d][log[d][k].entry.at] = log[d][k].entry
          /\ log[d][k].entry.at <= stamp
          /\ pc = "minting" => log[d][k].entry.at < stamp
    /\ \A k, l \in 1..Len(log[d]) :
          k < l /\ log[d][k].entry # Nothing /\ log[d][l].entry # Nothing
          => log[d][k].entry.at < log[d][l].entry.at

\* What the run has gated so far passed the volume gate.
VolumeGated ==
    /\ pc = "gating" => \A d \in listed \ todo : ~TooSmall(d, build[d])
    /\ pc = "minting" => \A d \in listed : ~TooSmall(d, build[d])

\* The k-th listing of d passed it, over the versions known then.
PassedThen(d, k) ==
    ~Shrinks(Baseline(RowCountsOf(d, VersionsTo(d, log[d][k-1].entry.at)), MaxShrink),
             log[d][k].entry.rows, MaxShrink)
GatedThen(d) ==
    \A k \in 2..Len(log[d]) :
        /\ log[d][k-1].entry # Nothing
        /\ log[d][k].entry # Nothing
        /\ ~log[d][k].lifted
        => PassedThen(d, k)

GateInv == /\ \A d \in Datasets : ListedStand(d) /\ GatedThen(d)
           /\ VolumeGated

LEMMA PackageFields ==
    ASSUME NEW x \in Packages
    PROVE  x.at \in Stamps /\ x.at \in Nat /\ x.rows \in Nat
<1>1. x.at \in Stamps /\ x.rows \in RowCounts
  BY DEF Packages
<1>2. Stamps \subseteq Nat
  BY DEF Stamps
<1>3. QED BY <1>1, <1>2

LEMMA CountingBack ==
    ASSUME NEW i \in Nat, NEW j \in Nat, NEW n \in Nat, NEW q \in Nat,
           q >= n - (j - 1 - i) + 1, q <= n
    PROVE  \E k \in (i + 1)..(j - 1) :
              n - (j - 1 - k) = q /\ n - (j - 1 - (k - 1)) = q - 1
<1> DEFINE k == q - n + (j - 1)
<1>1. k \in (i + 1)..(j - 1)
  OBVIOUS
<1>2. n - (j - 1 - k) = q /\ n - (j - 1 - (k - 1)) = q - 1
  OBVIOUS
<1>3. QED BY <1>1, <1>2

\* Two listings with no delisting between them, at most Window apart.
LEMMA PairGated ==
    ASSUME TypeOK, NEW d \in Datasets, ListedStand(d), GatedThen(d),
           NEW i \in 1..Len(log[d]), NEW j \in 1..Len(log[d]), i < j,
           \A k \in i..j : log[d][k].entry # Nothing,
           i >= j - Window,
           \A k \in (i + 1)..j : ~log[d][k].lifted,
           \A s \in VersionsTo(d, log[d][j-1].entry.at) : WasListed(d, s)
    PROVE  ~Shrinks(log[d][i].entry.rows, log[d][j].entry.rows, MaxShrink)
<1> DEFINE N == Len(log[d])
           at(k) == log[d][k].entry.at
           rows(k) == log[d][k].entry.rows
           S == VersionsTo(d, at(j - 1))
           h == RowCountsOf(d, S)
           n == Cardinality(S)
           p(k) == n - (j - 1 - k)
<1>1. N \in Nat /\ \A k \in 1..N : log[d][k].entry \in Packages \cup {Nothing}
  <2> DEFINE Row == [entry : Packages \cup {Nothing}, lifted : BOOLEAN]
  <2>1. log[d] \in Seq(Row)
    BY DEF TypeOK
  <2>2. \A row \in Row : row.entry \in Packages \cup {Nothing}
    OBVIOUS
  <2> HIDE DEF Row
  <2>3. \A k \in 1..N : log[d][k] \in Row
    BY <2>1
  <2>4. QED BY <2>1, <2>2, <2>3
<1>2. \A k \in i..j : k \in 1..N /\ k \in Nat
  BY <1>1
<1>3. \A k \in 1..N : log[d][k].entry # Nothing =>
         at(k) \in Stamps /\ at(k) \in Nat /\ rows(k) \in Nat
  <2>1. \A x \in Packages : x.at \in Stamps /\ x.at \in Nat /\ x.rows \in Nat
    BY PackageFields
  <2>2. ASSUME NEW k \in 1..N, log[d][k].entry # Nothing
        PROVE  at(k) \in Stamps /\ at(k) \in Nat /\ rows(k) \in Nat
    <3>1. log[d][k].entry \in Packages
      BY <1>1, <2>2
    <3>2. QED BY <2>1, <3>1
  <2>3. QED BY <2>2
<1>4. \A k \in i..j : at(k) \in Stamps /\ at(k) \in Nat /\ rows(k) \in Nat
  BY <1>2, <1>3
<1>5. S \in SUBSET Stamps /\ \A s \in S : dirs[d][s] # Nothing
  BY DEF VersionsTo
<1>6. \A k, l \in 1..N : k <= l /\ log[d][k].entry # Nothing /\ log[d][l].entry # Nothing
         => at(k) <= at(l)
  <2> SUFFICES ASSUME NEW k \in 1..N, NEW l \in 1..N, k <= l,
                      log[d][k].entry # Nothing, log[d][l].entry # Nothing
               PROVE  at(k) <= at(l)
    OBVIOUS
  <2>1. at(k) \in Nat /\ at(l) \in Nat
    BY <1>3
  <2>2. CASE k = l
    BY <2>1, <2>2
  <2>3. CASE k < l
    BY <2>1, <2>3 DEF ListedStand
  <2>4. QED BY <1>1, <2>2, <2>3
<1>7. j - 1 \in i..j /\ j - 1 \in i..(j - 1) /\ \A k \in i..(j - 1) : k \in i..j /\ k <= j - 1
  BY <1>1
<1>8. \A k \in i..(j - 1) : at(k) \in S /\ dirs[d][at(k)] = log[d][k].entry
  <2> SUFFICES ASSUME NEW k \in i..(j - 1)
               PROVE  at(k) \in S /\ dirs[d][at(k)] = log[d][k].entry
    OBVIOUS
  <2>1. /\ k \in 1..N /\ j - 1 \in 1..N /\ k <= j - 1
        /\ log[d][k].entry # Nothing /\ log[d][j - 1].entry # Nothing
    BY <1>2, <1>7
  <2>2. at(k) <= at(j - 1) /\ at(k) \in Stamps
    BY <1>3, <1>6, <2>1
  <2>3. dirs[d][at(k)] = log[d][k].entry
    BY <2>1 DEF ListedStand
  <2>4. QED BY <2>1, <2>2, <2>3 DEF VersionsTo
<1> HIDE DEF h
<1>9. \A k \in i..(j - 1) : h[Rank(S, at(k))] = rows(k)
  BY <1>5, <1>8, CountAt DEF h
<1>10. Rank(S, at(j - 1)) = n
  <2>1. {t \in S : t <= at(j - 1)} = S
    BY DEF VersionsTo
  <2>2. QED BY <2>1 DEF Rank
<1>11. \A k \in i..(j - 2) : Rank(S, at(k + 1)) = Rank(S, at(k)) + 1
  <2> SUFFICES ASSUME NEW k \in i..(j - 2)
               PROVE  Rank(S, at(k + 1)) = Rank(S, at(k)) + 1
    OBVIOUS
  <2>1. k \in i..(j - 1) /\ k + 1 \in i..(j - 1) /\ k < k + 1
    BY <1>1
  <2>2. /\ k \in 1..N /\ k + 1 \in 1..N
        /\ log[d][k].entry # Nothing /\ log[d][k + 1].entry # Nothing
    BY <1>2, <1>7, <2>1
  <2>3. at(k) \in S /\ at(k + 1) \in S /\ at(k) < at(k + 1)
    BY <1>8, <2>1, <2>2 DEF ListedStand
  <2>4. ASSUME NEW u \in S, at(k) < u, u < at(k + 1) PROVE FALSE
    <3>1. PICK l \in 1..N : log[d][l].entry # Nothing /\ at(l) = u
      BY DEF WasListed
    <3>2. at(l) \in Nat /\ at(k) \in Nat /\ at(k + 1) \in Nat
      BY <1>3, <2>2, <3>1
    <3>3. CASE l <= k
      <4>1. at(l) <= at(k)
        BY <1>6, <2>2, <3>1, <3>3
      <4>2. QED BY <2>4, <3>1, <3>2, <4>1
    <3>4. CASE k + 1 <= l
      <4>1. at(k + 1) <= at(l)
        BY <1>6, <2>2, <3>1, <3>4
      <4>2. QED BY <2>4, <3>1, <3>2, <4>1
    <3>5. l \in Nat /\ k \in Nat
      BY <1>1, <2>2
    <3>6. QED BY <3>3, <3>4, <3>5
  <2>5. QED BY <1>5, <2>3, <2>4, RankNext
<1>12. n \in Nat
  BY <1>5, StampSets
<1>13. \A k \in i..(j - 1) : Rank(S, at(k)) = p(k)
  <2> DEFINE Placed == {q \in Nat : i <= j - 1 - q => Rank(S, at(j - 1 - q)) = n - q}
  <2>1. 0 \in Placed
    <3>1. j - 1 - 0 = j - 1 /\ n - 0 = n
      BY <1>12
    <3>2. QED BY <1>10, <3>1
  <2>2. ASSUME NEW q \in Nat, q \in Placed PROVE q + 1 \in Placed
    <3>1. CASE i <= j - 1 - (q + 1)
      <4> DEFINE k == j - 1 - (q + 1)
      <4>1. k \in i..(j - 2) /\ k + 1 = j - 1 - q /\ i <= j - 1 - q
        BY <3>1
      <4> HIDE DEF k
      <4>2. Rank(S, at(k + 1)) = n - q
        BY <2>2, <4>1
      <4>3. Rank(S, at(k)) \in Nat /\ Rank(S, at(k + 1)) = Rank(S, at(k)) + 1
        BY <1>5, <1>11, <4>1, StampSets
      <4>4. PICK r \in Nat : r = Rank(S, at(k)) /\ Rank(S, at(k + 1)) = r + 1
        BY <4>3, Zenon
      <4>5. r + 1 = n - q
        BY <4>2, <4>4, Zenon
      <4>6. r = n - (q + 1)
        BY <1>12, <4>5
      <4>7. Rank(S, at(j - 1 - (q + 1))) = n - (q + 1)
        BY <4>4, <4>6 DEF k
      <4>8. QED BY <4>7
    <3>2. QED BY <3>1
  <2> HIDE DEF Placed
  <2>3. Nat \subseteq Placed
    BY <2>1, <2>2, SetInduction
  <2>4. ASSUME NEW k \in i..(j - 1) PROVE Rank(S, at(k)) = p(k)
    <3>1. j - 1 - k \in Nat /\ j - 1 - (j - 1 - k) = k
      OBVIOUS
    <3>2. j - 1 - k \in Placed
      BY <2>3, <3>1
    <3>3. i <= j - 1 - (j - 1 - k) => Rank(S, at(j - 1 - (j - 1 - k))) = n - (j - 1 - k)
      BY <3>2 DEF Placed
    <3>4. QED BY <3>1, <3>3
  <2>5. QED BY <2>4
<1>14. \A k \in i..(j - 1) : p(k) \in 1..n
  BY <1>5, <1>8, <1>13, RankCovers
<1>15. \A k \in i..(j - 1) : RowCountsOf(d, VersionsTo(d, at(k))) = Prefix(h, p(k))
  <2> SUFFICES ASSUME NEW k \in i..(j - 1)
               PROVE  RowCountsOf(d, VersionsTo(d, at(k))) = Prefix(h, p(k))
    OBVIOUS
  <2>1. at(k) \in S /\ at(k) \in Nat /\ at(j - 1) \in Nat /\ at(k) <= at(j - 1)
    <3>1. at(k) \in S
      BY <1>8
    <3>2. QED BY <1>4, <1>7, <3>1 DEF VersionsTo
  <2>2. \A s \in Stamps : s <= at(k) => s <= at(j - 1)
    BY <2>1 DEF Stamps
  <2>3. VersionsTo(d, at(k)) = {t \in S : t <= at(k)}
    BY <2>2 DEF VersionsTo
  <2>4. RowCountsOf(d, {t \in S : t <= at(k)}) = Prefix(RowCountsOf(d, S), Rank(S, at(k)))
    BY <1>5, <2>1, HistoryPrefix
  <2>5. QED BY <1>13, <2>3, <2>4 DEF h
<1>16. \A k \in (i + 1)..j :
          /\ k - 1 \in i..(j - 1)
          /\ ~Shrinks(Baseline(RowCountsOf(d, VersionsTo(d, at(k - 1))), MaxShrink),
                      rows(k), MaxShrink)
  <2> SUFFICES ASSUME NEW k \in (i + 1)..j
               PROVE  /\ k - 1 \in i..(j - 1)
                      /\ PassedThen(d, k)
    BY DEF PassedThen
  <2>1. k - 1 \in i..(j - 1) /\ k - 1 \in i..j /\ k \in i..j /\ k \in 2..N
    BY <1>1
  <2>2. log[d][k - 1].entry # Nothing /\ log[d][k].entry # Nothing /\ ~log[d][k].lifted
    BY <2>1
  <2>3. QED BY <2>1, <2>2 DEF GatedThen
<1>17. Len(h) = n /\ \A q \in 1..n : h[q] \in Nat
  BY <1>5, HistoryCounts DEF h
<1>18. /\ i \in i..(j - 1) /\ p(i) \in 1..n /\ n \in Nat \ {0}
       /\ p(i) >= n - Window + 1
  <2>1. i \in i..(j - 1)
    BY <1>1
  <2>2. p(i) \in 1..n
    BY <1>14, <2>1
  <2>3. QED BY <1>12, <2>1, <2>2
<1>19. ASSUME NEW q \in (p(i) + 1)..n
       PROVE  ~Shrinks(Baseline(Prefix(h, q - 1), MaxShrink), h[q], MaxShrink)
  <2>1. PICK k \in (i + 1)..(j - 1) : p(k) = q /\ p(k - 1) = q - 1
    <3>1. i \in Nat /\ j \in Nat /\ n \in Nat /\ p(i) \in Nat
      BY <1>1, <1>12, <1>18
    <3>2. q \in Nat /\ q >= n - (j - 1 - i) + 1 /\ q <= n
      BY <3>1
    <3> HIDE DEF n, S
    <3>3. \E k \in (i + 1)..(j - 1) :
             n - (j - 1 - k) = q /\ n - (j - 1 - (k - 1)) = q - 1
      BY <3>1, <3>2, CountingBack
    <3>4. QED BY <3>3
  <2>2. k \in i..(j - 1) /\ k \in (i + 1)..j /\ k - 1 \in i..(j - 1)
    OBVIOUS
  <2>3. h[q] = rows(k)
    BY <1>9, <1>13, <2>1, <2>2
  <2>4. RowCountsOf(d, VersionsTo(d, at(k - 1))) = Prefix(h, q - 1)
    BY <1>15, <2>1, <2>2
  <2>5. QED BY <1>16, <2>2, <2>3, <2>4
<1> HIDE DEF S, n, p
<1>20. Baseline(h, MaxShrink) \in Nat /\ h[p(i)] <= Baseline(h, MaxShrink)
  BY <1>17, <1>18, <1>19, WindowReachesBack
<1>21. h[p(i)] = rows(i)
  BY <1>9, <1>13, <1>18
<1>22. ~Shrinks(Baseline(h, MaxShrink), rows(j), MaxShrink)
  <2>1. j \in (i + 1)..j
    BY <1>1
  <2>2. QED BY <1>16, <2>1 DEF h, S
<1>23. rows(i) \in Nat /\ rows(j) \in Nat
  <2>1. i \in i..j /\ j \in i..j
    BY <1>1
  <2>2. QED BY <1>4, <2>1
<1>24. QED BY <1>20, <1>21, <1>22, <1>23, ShrinksLess

\* What is known of d up to a version does not change while no directory up to
\* there does.
LEMMA HistoryStable ==
    ASSUME NEW d, NEW at, \A s \in Stamps : s <= at => dirs'[d][s] = dirs[d][s]
    PROVE  /\ VersionsTo(d, at)' = VersionsTo(d, at)
           /\ RowCountsOf(d, VersionsTo(d, at))' = RowCountsOf(d, VersionsTo(d, at))
<1> DEFINE S == VersionsTo(d, at)
           Pick(i) == CHOOSE s \in S : Cardinality({t \in S : t <= s}) = i
<1>1. S' = S
  BY DEF VersionsTo
<1>2. S \in SUBSET Stamps /\ \A s \in S : dirs'[d][s] = dirs[d][s]
  BY DEF VersionsTo
<1> HIDE DEF S
<1>3. \A i \in 1..Cardinality(S) : Pick(i) \in S
  BY <1>2, RankCovers DEF Rank
<1>4. \A i \in 1..Cardinality(S) : dirs'[d][Pick(i)].rows = dirs[d][Pick(i)].rows
  BY <1>2, <1>3
<1>5. RowCountsOf(d, S)' = [i \in 1..Cardinality(S) |-> dirs'[d][Pick(i)].rows]
  BY <1>1 DEF RowCountsOf
<1>6. RowCountsOf(d, S) = [i \in 1..Cardinality(S) |-> dirs[d][Pick(i)].rows]
  BY DEF RowCountsOf
<1> HIDE DEF Pick
<1>7. RowCountsOf(d, S)' = RowCountsOf(d, S)
  BY <1>4, <1>5, <1>6
<1>8. QED BY <1>1, <1>7 DEF S

LEMMA PassedStable ==
    ASSUME NEW d, NEW k, log'[d][k] = log[d][k], log'[d][k-1] = log[d][k-1],
           \A s \in Stamps : s <= log[d][k-1].entry.at => dirs'[d][s] = dirs[d][s],
           PassedThen(d, k)
    PROVE  PassedThen(d, k)'
<1>1. PICK at : at = log[d][k-1].entry.at
  OBVIOUS
<1>2. RowCountsOf(d, VersionsTo(d, at))' = RowCountsOf(d, VersionsTo(d, at))
  BY <1>1, HistoryStable
<1>3. ~Shrinks(Baseline(RowCountsOf(d, VersionsTo(d, at)), MaxShrink),
               log[d][k].entry.rows, MaxShrink)
  BY <1>1 DEF PassedThen
<1>4. QED BY <1>1, <1>2, <1>3 DEF PassedThen

\* Nor does what the gate says of a build, while the run lasts.
LEMMA TooSmallStable ==
    ASSUME NEW d, UNCHANGED <<build, catalog, override>>,
           catalog[d] # Nothing =>
              \A s \in Stamps : s <= catalog[d].at => dirs'[d][s] = dirs[d][s],
           ~TooSmall(d, build[d])
    PROVE  ~TooSmall(d, build[d])'
<1>1. RowHistory(d)' = RowHistory(d)
  <2>1. CASE catalog[d] = Nothing
    <3>1. Cardinality({}) = 0 /\ 1..0 = {}
      BY FS_EmptySet
    <3>2. RowHistory(d) = RowCountsOf(d, {}) /\ RowHistory(d)' = RowCountsOf(d, {})'
      BY <2>1 DEF RowHistory, HistoryStamps
    <3>3. QED BY <3>1, <3>2 DEF RowCountsOf
  <2>2. CASE catalog[d] # Nothing
    <3>1. PICK at : at = catalog[d].at
      OBVIOUS
    <3>2. RowCountsOf(d, VersionsTo(d, at))' = RowCountsOf(d, VersionsTo(d, at))
      BY <2>2, <3>1, HistoryStable
    <3>3. QED BY <2>2, <3>1, <3>2 DEF RowHistory, HistoryStamps
  <2>3. QED BY <2>1, <2>2
<1>2. QED BY <1>1 DEF TooSmall, Percent

\* The listed version is older than the stamp of a run that mints.
LEMMA ListedIsOlder ==
    ASSUME TypeOK, LogEndsWithCatalog, pc = "minting",
           NEW d \in Datasets, ListedStand(d), catalog[d] # Nothing
    PROVE  catalog[d].at < stamp
<1>1. Len(log[d]) > 0 /\ log[d][Len(log[d])].entry = catalog[d]
  BY DEF LogEndsWithCatalog
<1>2. Len(log[d]) \in Nat
  <2>1. log[d] \in Seq([entry : Packages \cup {Nothing}, lifted : BOOLEAN])
    BY DEF TypeOK
  <2>2. QED BY <2>1
<1>3. Len(log[d]) \in 1..Len(log[d])
  BY <1>1, <1>2
<1>4. QED BY <1>1, <1>3 DEF ListedStand

LEMMA LogFields ==
    ASSUME TypeOK, NEW d \in Datasets
    PROVE  /\ Len(log[d]) \in Nat
           /\ \A k \in 1..Len(log[d]) : log[d][k].entry # Nothing =>
                 /\ log[d][k].entry \in Packages
                 /\ log[d][k].entry.at \in Stamps /\ log[d][k].entry.at \in Nat
<1> DEFINE Row == [entry : Packages \cup {Nothing}, lifted : BOOLEAN]
<1>1. log[d] \in Seq(Row)
  BY DEF TypeOK
<1>2. \A row \in Row : row.entry \in Packages \cup {Nothing}
  OBVIOUS
<1> HIDE DEF Row
<1>3. \A k \in 1..Len(log[d]) : log[d][k] \in Row
  BY <1>1
<1>4. \A k \in 1..Len(log[d]) : log[d][k].entry # Nothing => log[d][k].entry \in Packages
  BY <1>2, <1>3
<1>5. QED BY <1>1, <1>4, PackageFields

\* A step that mints nothing and lists nothing.
LEMMA KeepsListed ==
    ASSUME TypeOK, NEW d \in Datasets, ListedStand(d), GatedThen(d),
           UNCHANGED <<dirs, log>>,
           \/ stamp' = stamp /\ (pc' = "minting" => pc = "minting")
           \/ stamp' = stamp + 1
    PROVE  ListedStand(d)' /\ GatedThen(d)'
<1>1. stamp \in Nat
  BY DEF TypeOK
<1>2. ListedStand(d)'
  <2>1. \A k \in 1..Len(log[d]) : log[d][k].entry # Nothing =>
           /\ log[d][k].entry.at <= stamp'
           /\ pc' = "minting" => log[d][k].entry.at < stamp'
    BY <1>1, LogFields DEF ListedStand
  <2>2. QED BY <2>1 DEF ListedStand
<1>3. GatedThen(d)'
  BY PassedStable DEF GatedThen
<1>4. QED BY <1>2, <1>3

LEMMA MintKeepsListed ==
    ASSUME TypeOK, RunShape, NEW c \in Datasets, Mint(c),
           NEW d \in Datasets, ListedStand(d), GatedThen(d)
    PROVE  ListedStand(d)' /\ GatedThen(d)'
<1>1. /\ pc = "minting" /\ pc' = pc /\ stamp' = stamp /\ log' = log /\ stamp \in Stamps
      /\ dirs' = [dirs EXCEPT ![c][stamp] = Package(c)]
  BY DEF Mint, RunShape
<1>2. \A s \in Stamps : s < stamp => dirs'[d][s] = dirs[d][s]
  BY <1>1 DEF TypeOK, Stamps
<1>3. \A k \in 1..Len(log[d]) : log[d][k].entry # Nothing =>
         /\ log[d][k].entry.at \in Stamps /\ log[d][k].entry.at < stamp
         /\ \A s \in Stamps : s <= log[d][k].entry.at => dirs'[d][s] = dirs[d][s]
  <2> SUFFICES ASSUME NEW k \in 1..Len(log[d]), log[d][k].entry # Nothing
               PROVE  /\ log[d][k].entry.at \in Stamps /\ log[d][k].entry.at < stamp
                      /\ \A s \in Stamps : s <= log[d][k].entry.at => dirs'[d][s] = dirs[d][s]
    OBVIOUS
  <2>1. log[d][k].entry.at \in Stamps /\ log[d][k].entry.at \in Nat
    BY LogFields
  <2>2. log[d][k].entry.at < stamp
    BY <1>1 DEF ListedStand
  <2>3. \A s \in Stamps : s <= log[d][k].entry.at => s < stamp
    BY <1>1, <2>1, <2>2 DEF Stamps
  <2>4. QED BY <1>2, <2>1, <2>2, <2>3
<1>4. ListedStand(d)'
  <2>1. \A k \in 1..Len(log[d]) : log[d][k].entry # Nothing =>
           dirs'[d][log[d][k].entry.at] = dirs[d][log[d][k].entry.at]
    BY <1>1, <1>2, <1>3
  <2>2. QED BY <1>1, <2>1 DEF ListedStand
<1>5. GatedThen(d)'
  <2> SUFFICES ASSUME NEW k \in 2..Len(log[d]), log[d][k-1].entry # Nothing,
                      log[d][k].entry # Nothing, ~log[d][k].lifted
               PROVE  PassedThen(d, k)'
    BY <1>1 DEF GatedThen
  <2>1. k - 1 \in 1..Len(log[d])
    BY LogFields
  <2>2. PassedThen(d, k)
    BY DEF GatedThen
  <2>3. \A s \in Stamps : s <= log[d][k-1].entry.at => dirs'[d][s] = dirs[d][s]
    BY <1>3, <2>1
  <2>4. QED BY <1>1, <2>2, <2>3, PassedStable
<1>6. QED BY <1>4, <1>5

\* What the catalog lists next has passed the gate that ran before minting.
LEMMA FlipKeepsListed ==
    ASSUME TypeOK, DirsWrittenOnce, EntriesDescribeBuild, LogEndsWithCatalog,
           VolumeGated, Flip, NEW d \in Datasets, ListedStand(d), GatedThen(d)
    PROVE  ListedStand(d)' /\ GatedThen(d)'
<1>1. /\ pc = "minting" /\ todo = {} /\ pc' = "idle"
      /\ UNCHANGED <<dirs, stamp>>
      /\ log' = [x \in Datasets |-> Logged(x)]
  BY DEF Flip, AllLanded, Exit
<1>2. stamp \in Nat
  BY DEF TypeOK
<1>3. CASE entries[d] = catalog[d]
  <2>1. log'[d] = log[d]
    BY <1>1, <1>3 DEF Logged
  <2>2. ListedStand(d)'
    BY <1>1, <2>1 DEF ListedStand
  <2>3. GatedThen(d)'
    BY <1>1, <2>1, PassedStable DEF GatedThen
  <2>4. QED BY <2>2, <2>3
<1>4. CASE entries[d] # catalog[d]
  <2>1. PICK row : row = [entry |-> entries[d], lifted |-> override \/ entries[d] = Nothing]
    OBVIOUS
  <2>2. row.entry = entries[d] /\ (~row.lifted => ~override)
    BY <2>1
  <2>3. PICK n : n = Len(log[d])
    OBVIOUS
  <2>4. n \in Nat
    BY <2>3, LogFields
  <2>5. /\ Len(log'[d]) = n + 1 /\ log'[d][n + 1] = row
        /\ \A k \in 1..n : log'[d][k] = log[d][k]
    <3>1. log'[d] = Append(log[d], row)
      BY <1>1, <1>4, <2>1 DEF Logged
    <3>2. log[d] \in Seq([entry : Packages \cup {Nothing}, lifted : BOOLEAN])
      BY DEF TypeOK
    <3>3. QED BY <2>3, <3>1, <3>2
  <2>6. entries[d] # Nothing => Reached(d) /\ d \in listed
    BY <1>1 DEF EntriesDescribeBuild
  <2>7. entries[d] # Nothing => entries[d].at = stamp /\ entries[d].rows = build[d].rows
    BY <1>4, <2>6 DEF Reached, Package
  <2>8. \A k \in 1..n : log[d][k].entry # Nothing =>
           log[d][k].entry.at \in Nat /\ log[d][k].entry.at < stamp
    BY <1>1, <2>3, LogFields DEF ListedStand
  <2>9. ListedStand(d)'
    <3>1. ASSUME NEW k \in 1..(n + 1), log'[d][k].entry # Nothing
          PROVE  /\ dirs'[d][log'[d][k].entry.at] = log'[d][k].entry
                 /\ log'[d][k].entry.at <= stamp'
      <4>1. CASE k = n + 1
        BY <1>1, <1>2, <2>2, <2>5, <2>7, <3>1, <4>1 DEF DirsWrittenOnce
      <4>2. CASE k \in 1..n
        BY <1>1, <2>3, <2>5, <3>1, <4>2 DEF ListedStand
      <4>3. QED BY <2>4, <4>1, <4>2
    <3>2. ASSUME NEW k \in 1..(n + 1), NEW l \in 1..(n + 1), k < l,
                 log'[d][k].entry # Nothing, log'[d][l].entry # Nothing
          PROVE  log'[d][k].entry.at < log'[d][l].entry.at
      <4>1. k \in 1..n
        BY <2>4, <3>2
      <4>2. CASE l = n + 1
        BY <2>2, <2>5, <2>7, <2>8, <3>2, <4>1, <4>2
      <4>3. CASE l \in 1..n
        BY <2>3, <2>5, <3>2, <4>1, <4>3 DEF ListedStand
      <4>4. QED BY <2>4, <4>2, <4>3
    <3>3. QED BY <1>1, <2>5, <3>1, <3>2 DEF ListedStand
  <2>10. GatedThen(d)'
    <3> SUFFICES ASSUME NEW k \in 2..(n + 1), log'[d][k-1].entry # Nothing,
                        log'[d][k].entry # Nothing, ~log'[d][k].lifted
                 PROVE  PassedThen(d, k)'
      BY <2>5 DEF GatedThen
    <3>1. CASE k \in 2..n
      <4>1. k \in 1..n /\ k - 1 \in 1..n
        BY <2>4, <3>1
      <4>2. PassedThen(d, k)
        BY <2>3, <2>5, <3>1, <4>1 DEF GatedThen
      <4>3. QED BY <1>1, <2>5, <4>1, <4>2, PassedStable
    <3>2. CASE k = n + 1
      <4>1. n \in 1..n /\ k - 1 = n
        BY <2>4, <3>2
      <4>2. catalog[d] # Nothing /\ log[d][n].entry = catalog[d]
        BY <2>3, <2>5, <4>1 DEF LogEndsWithCatalog
      <4>3. entries[d] # Nothing /\ ~override
        BY <2>2, <2>5, <3>2
      <4>4. ~TooSmall(d, build[d])
        BY <1>1, <2>6, <4>3 DEF VolumeGated
      <4>5. ~Shrinks(Baseline(RowCountsOf(d, VersionsTo(d, catalog[d].at)), MaxShrink),
                     entries[d].rows, MaxShrink)
        BY <2>7, <4>2, <4>3, <4>4 DEF TooSmall, Percent, RowHistory, HistoryStamps
      <4>6. PICK at : at = catalog[d].at
        OBVIOUS
      <4>7. RowCountsOf(d, VersionsTo(d, at))' = RowCountsOf(d, VersionsTo(d, at))
        BY <1>1, HistoryStable
      <4>8. log'[d][k - 1].entry.at = at /\ log'[d][k].entry.rows = entries[d].rows
        BY <2>2, <2>5, <3>2, <4>1, <4>2, <4>6
      <4>9. QED BY <4>5, <4>6, <4>7, <4>8 DEF PassedThen
    <3>3. QED BY <2>4, <3>1, <3>2
  <2>11. QED BY <2>9, <2>10
<1>5. QED BY <1>3, <1>4

LEMMA VolumeStaysGated ==
    ASSUME TypeOK, RunShape, LogEndsWithCatalog, VolumeGated, Next,
           \A d \in Datasets : ListedStand(d)
    PROVE  VolumeGated'
<1>1. ASSUME UNCHANGED <<build, catalog, override, dirs, listed>>,
             pc' \in {"gating", "minting"},
             NEW d \in listed, ~TooSmall(d, build[d])
      PROVE  ~TooSmall(d, build[d])'
  BY <1>1, TooSmallStable
<1>2. ASSUME NEW lifted \in BOOLEAN, Begin(lifted) PROVE VolumeGated'
  BY <1>2 DEF Begin, envVars, VolumeGated
<1>3. ASSUME NEW d \in Datasets, Stage(d) PROVE VolumeGated'
  <2>1. /\ UNCHANGED <<build, catalog, override, dirs, listed, pc>> /\ pc = "gating"
        /\ todo' = todo \ {d} /\ ~TooSmall(d, build[d]) /\ d \in listed
    BY <1>3 DEF Stage, Passes, envVars, RunShape
  <2>2. \A c \in listed \ todo' : ~TooSmall(c, build[c])
    BY <2>1 DEF VolumeGated
  <2>3. \A c \in listed \ todo' : ~TooSmall(c, build[c])'
    BY <1>1, <2>1, <2>2
  <2>4. QED BY <2>1, <2>3 DEF VolumeGated
<1>4. CASE StartMinting
  <2>1. /\ UNCHANGED <<build, catalog, override, dirs, listed>> /\ pc = "gating"
        /\ pc' = "minting" /\ todo = {}
    BY <1>4 DEF StartMinting, envVars
  <2>2. \A c \in listed : ~TooSmall(c, build[c])
    BY <2>1 DEF VolumeGated
  <2>3. \A c \in listed : ~TooSmall(c, build[c])'
    BY <1>1, <2>1, <2>2
  <2>4. QED BY <2>1, <2>3 DEF VolumeGated
<1>5. ASSUME NEW d \in Datasets, CarryForward(d) PROVE VolumeGated'
  <2>1. /\ UNCHANGED <<build, catalog, override, dirs, listed, pc>> /\ pc = "minting"
    BY <1>5 DEF CarryForward, envVars
  <2>2. \A c \in listed : ~TooSmall(c, build[c])'
    BY <1>1, <2>1 DEF VolumeGated
  <2>3. QED BY <2>1, <2>2 DEF VolumeGated
<1>6. ASSUME NEW d \in Datasets, Mint(d) PROVE VolumeGated'
  <2>1. /\ UNCHANGED <<build, catalog, override, listed, pc>> /\ pc = "minting"
        /\ dirs' = [dirs EXCEPT ![d][stamp] = Package(d)]
        /\ stamp \in Stamps
    BY <1>6 DEF Mint, envVars, RunShape
  <2>2. ASSUME NEW c \in listed PROVE ~TooSmall(c, build[c])'
    <3>1. c \in Datasets
      BY DEF TypeOK
    <3>2. catalog[c] # Nothing => catalog[c].at < stamp /\ catalog[c].at \in Nat
      <4>1. catalog[c] # Nothing => catalog[c] \in Packages
        BY <3>1 DEF TypeOK
      <4>2. QED BY <2>1, <3>1, <4>1, ListedIsOlder, PackageFields
    <3>3. catalog[c] # Nothing =>
             \A s \in Stamps : s <= catalog[c].at => dirs'[c][s] = dirs[c][s]
      <4>1. \A s \in Stamps : s \in Nat
        BY DEF Stamps
      <4>2. catalog[c] # Nothing => \A s \in Stamps : s <= catalog[c].at => s # stamp
        BY <2>1, <3>2, <4>1
      <4>3. \A s \in Stamps : s # stamp => dirs'[c][s] = dirs[c][s]
        BY <2>1, <3>1 DEF TypeOK
      <4>4. QED BY <4>2, <4>3
    <3>4. ~TooSmall(c, build[c])
      BY <2>1 DEF VolumeGated
    <3>5. QED BY <2>1, <3>3, <3>4, TooSmallStable
  <2>3. QED BY <2>1, <2>2 DEF VolumeGated
<1>7. CASE pc' = "idle"
  BY <1>7 DEF VolumeGated
<1>8. QED BY <1>2, <1>3, <1>4, <1>5, <1>6, <1>7
     DEF Next, Refuse, Flip, Crash, Exit, Rebuild, Declare, ListOrDelist, runVars

LEMMA GateHolds == Spec => []GateInv
<1>1. Init => GateInv
  BY DEF Init, GateInv, ListedStand, GatedThen, VolumeGated
<1>2. TypeOK /\ RunShape /\ DirsWrittenOnce /\ EntriesDescribeBuild
      /\ LogEndsWithCatalog /\ GateInv /\ [Next]_vars => GateInv'
  <2> SUFFICES ASSUME TypeOK, RunShape, DirsWrittenOnce, EntriesDescribeBuild,
                      LogEndsWithCatalog, GateInv, [Next]_vars
               PROVE  GateInv'
    OBVIOUS
  <2>1. VolumeGated /\ \A d \in Datasets : ListedStand(d) /\ GatedThen(d)
    BY DEF GateInv
  <2>2. CASE UNCHANGED vars
    <3>1. VolumeGated'
      BY <2>1, <2>2, TooSmallStable DEF VolumeGated, vars, envVars, runVars
    <3>2. \A d \in Datasets : ListedStand(d)' /\ GatedThen(d)'
      BY <2>1, <2>2, KeepsListed DEF vars, runVars
    <3>3. QED BY <3>1, <3>2 DEF GateInv
  <2>3. CASE Next
    <3>1. VolumeGated'
      BY <2>1, <2>3, VolumeStaysGated
    <3>2. ASSUME NEW d \in Datasets PROVE ListedStand(d)' /\ GatedThen(d)'
      <4>1. CASE \E c \in Datasets : Mint(c)
        BY <2>1, <4>1, MintKeepsListed
      <4>2. CASE Flip
        BY <2>1, <4>2, FlipKeepsListed
      <4>3. CASE /\ UNCHANGED <<dirs, log>>
                 /\ \/ stamp' = stamp /\ (pc' = "minting" => pc = "minting")
                    \/ stamp' = stamp + 1
        BY <2>1, <4>3, KeepsListed
      <4>4. QED BY <2>3, <4>1, <4>2, <4>3
           DEF Next, Begin, Stage, Refuse, StartMinting, NextStamp, CarryForward,
               Crash, Exit, Rebuild, Declare, ListOrDelist, runVars
    <3>3. QED BY <3>1, <3>2 DEF GateInv
  <2>4. QED BY <2>2, <2>3
<1>3. PinsInv => LogEndsWithCatalog
  BY DEF PinsInv
<1>4. QED BY <1>1, <1>2, <1>3, TypeCorrect, CompleteHolds, EntriesHold, PinsHold, PTL
         DEF Spec

\* Without an override, a version has at least (100 - MaxShrink)% of the rows of
\* each of the Window versions listed before it, whatever was delisted, killed or
\* overridden before - unless the gate had counted a version never listed.
THEOREM ShrinksNeverSilent == Spec => []ShrinkGated
<1>1. TypeOK /\ GateInv => ShrinkGated
  <2> SUFFICES ASSUME TypeOK, GateInv, NEW d \in Datasets, NEW ij \in Listings(d),
                      ij[1] >= ij[2] - Window,
                      \A k \in (ij[1] + 1)..ij[2] : ~log[d][k].lifted,
                      \A s \in VersionsTo(d, log[d][ij[2] - 1].entry.at) : WasListed(d, s)
               PROVE  ~Shrinks(log[d][ij[1]].entry.rows, log[d][ij[2]].entry.rows, MaxShrink)
    BY DEF ShrinkGated
  <2>1. /\ ij[1] \in 1..Len(log[d]) /\ ij[2] \in 1..Len(log[d]) /\ ij[1] < ij[2]
        /\ \A k \in ij[1]..ij[2] : log[d][k].entry # Nothing
    BY DEF Listings
  <2>2. ListedStand(d) /\ GatedThen(d)
    BY DEF GateInv
  <2>3. QED BY <2>1, <2>2, PairGated
<1>2. QED BY <1>1, TypeCorrect, GateHolds, PTL
=============================================================================
