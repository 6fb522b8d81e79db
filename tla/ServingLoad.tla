---------------------------- MODULE ServingLoad ----------------------------
(***************************************************************************)
(* The serving loader: it reads the version of every served dataset that   *)
(* catalog.json lists and replaces the tables of the `serving` schema, and *)
(* the load_state rows that describe them, in one transaction.             *)
(*                                                                         *)
(* Nothing keeps two loaders apart (the nightly's and one run by hand) or  *)
(* a loader from a publisher, so they interleave statement by statement    *)
(* under READ COMMITTED: a DELETE removes the rows committed when it began *)
(* and waits for the transactions that hold them, an INSERT fails on the   *)
(* primary key of a row it did not delete.  A relation is the table of a   *)
(* dataset or its load_state row, and its content the set of versions      *)
(* whose rows it holds.                                                    *)
(***************************************************************************)
EXTENDS PublishedTree, Sequences, FiniteSets

CONSTANTS
    Served,       \* SERVED_DATASETS, in its order
    Contracts,    \* field sets: of a package, a table or a serving model
    Loaders,      \* loader processes
    Roots,        \* trees a loader may read: "published", or one "bare" of
                  \* a catalog (another working directory, a fresh box)
    MaxDeploys,   \* bound: deploys that change a serving model
    MaxCatalogs   \* bound: different catalogs ever published

ASSUME ServedArePublished == Served \in Seq(Datasets)
ASSUME ServedOnce == \A i, j \in 1..Len(Served) : Served[i] = Served[j] => i = j
ASSUME RootsAreTrees == Roots \subseteq {"published", "bare"}
ASSUME BoundsAreNat == MaxDeploys \in Nat /\ MaxCatalogs \in Nat

VARIABLES
    model,        \* dataset -> the columns of its model in the deployed code
    deploys,
    shape,        \* dataset -> the columns of its table
    db,           \* relation -> the versions whose rows are committed
    pc,           \* loader -> where it stands
    root,         \* loader -> the tree it was pointed at
    listing,      \* loader -> the catalog as it read it
    staged,       \* loader -> dataset -> the version it staged, or Nothing
    refused,      \* loader -> it found a problem
    pos,          \* loader -> the relation or dataset it is at
    seen,         \* loader -> versions its DELETE in progress saw
    gone,         \* loader -> relation -> versions its transaction deleted
    drift,        \* loader -> the tables it found drifted
    published     \* every catalog there was (history variable)

deployVars == <<model, deploys>>
dbVars == <<shape, db>>
loadVars == <<pc, root, listing, staged, refused, pos, seen, gone, drift>>
vars == <<treeVars, deployVars, dbVars, loadVars, published>>

ServedSet == {Served[i] : i \in 1..Len(Served)}
Relations == ServedSet \X {"rows", "state"}

\* The statements go dataset by dataset, the table before its load_state row.
Relation(i) == <<Served[(i + 1) \div 2], IF i % 2 = 1 THEN "rows" ELSE "state">>
Last == 2 * Len(Served)

Entry == Packages \cup {Nothing}
NothingGone == [rel \in Relations |-> {}]

TypeOK ==
    /\ dirs \in [Datasets -> [Stamps -> Entry]]
    /\ catalog \in [Datasets -> Entry]
    /\ model \in [ServedSet -> Contracts]
    /\ deploys \in 0..MaxDeploys
    /\ shape \in [ServedSet -> Contracts]
    /\ db \in [Relations -> SUBSET Stamps]
    /\ pc \in [Loaders -> {"idle", "inspecting", "dropping", "checking",
                           "reading", "staging", "writing", "deleting",
                           "inserting", "unpublished"}]
    /\ root \in [Loaders -> {"published", "bare"}]
    /\ listing \in [Loaders -> [Datasets -> Entry]]
    /\ staged \in [Loaders -> [ServedSet -> Entry]]
    /\ \A l \in Loaders : pc[l] = "writing" => staged[l] \in [ServedSet -> Packages]
    /\ refused \in [Loaders -> BOOLEAN]
    /\ pos \in [Loaders -> 1..(Last + 1)]
    /\ seen \in [Loaders -> SUBSET Stamps]
    /\ gone \in [Loaders -> [Relations -> SUBSET Stamps]]
    /\ drift \in [Loaders -> SUBSET ServedSet]
    /\ published \subseteq [Datasets -> Entry]

Init ==
    /\ TreeInit
    /\ model \in [ServedSet -> Contracts]
    /\ shape = model
    /\ deploys = 0
    /\ db = [rel \in Relations |-> {}]
    /\ pc = [l \in Loaders |-> "idle"]
    /\ root = [l \in Loaders |-> "published"]
    /\ listing = [l \in Loaders |-> NoEntries]
    /\ staged = [l \in Loaders |-> [d \in ServedSet |-> Nothing]]
    /\ refused = [l \in Loaders |-> FALSE]
    /\ pos = [l \in Loaders |-> 1]
    /\ seen = [l \in Loaders |-> {}]
    /\ gone = [l \in Loaders |-> NothingGone]
    /\ drift = [l \in Loaders |-> {}]
    /\ published = {}

-----------------------------------------------------------------------------
(* What the other transactions hold.                                        *)

Goto(l, where) == pc' = [pc EXCEPT ![l] = where]

\* The tables l's transaction has dropped and built anew.
Dropped(l) == IF pc[l] \in {"idle", "inspecting", "dropping"} THEN {} ELSE drift[l]

\* l's transaction inserted into relation i.
Inserted(l, i) == pc[l] \in {"writing", "deleting", "inserting"} /\ i < pos[l]

\* l's transaction has locked the table of d with a statement on it.
Touches(l, d) ==
    \E i \in 1..Last :
        /\ Relation(i) = <<d, "rows">>
        /\ Inserted(l, i) \/ (i = pos[l] /\ pc[l] \in {"deleting", "inserting"})

Others(l) == Loaders \ {l}

\* No other transaction holds a drop lock on the table of the relation.
NotDroppedByOther(l, rel) ==
    rel[2] = "rows" => \A m \in Others(l) : rel[1] \notin Dropped(m)

\* What is committed in the relation and visible to l.
Visible(l, rel) ==
    IF rel[2] = "rows" /\ rel[1] \in Dropped(l) THEN {} ELSE db[rel]

-----------------------------------------------------------------------------
(* A run of the loader.                                                     *)

Start(l, r) ==
    /\ pc[l] = "idle"
    /\ Goto(l, "inspecting")
    /\ root' = [root EXCEPT ![l] = r]
    /\ UNCHANGED <<treeVars, deployVars, dbVars, listing, staged, refused, pos,
                   seen, gone, drift, published>>

\* _drop_drifted_tables compares every table with its model...
Inspect(l) ==
    /\ pc[l] = "inspecting"
    /\ drift' = [drift EXCEPT ![l] = {d \in ServedSet : shape[d] # model[d]}]
    /\ Goto(l, "dropping")
    /\ UNCHANGED <<treeVars, deployVars, dbVars, root, listing, staged, refused,
                   pos, seen, gone, published>>

\* ...and drops those that drifted, once no other transaction uses them.
\* create_all builds them anew, empty.
DropDrifted(l) ==
    /\ pc[l] = "dropping"
    /\ \A d \in drift[l], m \in Others(l) : d \notin Dropped(m) /\ ~Touches(m, d)
    /\ Goto(l, "checking")
    /\ UNCHANGED <<treeVars, deployVars, dbVars, root, listing, staged, refused,
                   pos, seen, gone, drift, published>>

\* Whether there is a catalog at all: without one the run ends degraded.
CheckPublished(l) ==
    /\ pc[l] = "checking"
    /\ Goto(l, IF root[l] = "bare" \/ catalog = NoEntries THEN "unpublished"
               ELSE "reading")
    /\ UNCHANGED <<treeVars, deployVars, dbVars, root, listing, staged, refused,
                   pos, seen, gone, drift, published>>

\* load_serving reads the catalog again, once for all datasets.
ReadCatalog(l) ==
    /\ pc[l] = "reading"
    /\ listing' = [listing EXCEPT ![l] = catalog]
    /\ Goto(l, "staging")
    /\ UNCHANGED <<treeVars, deployVars, dbVars, root, staged, refused, pos, seen,
                   gone, drift, published>>

\* Mutants: the newest directory on disk; the catalog of the moment.
NewestOnDisk(l, d) ==
    LET on == {s \in Stamps : dirs[d][s] # Nothing}
    IN IF on = {} THEN Nothing
       ELSE dirs[d][CHOOSE s \in on : \A t \in on : t <= s]
CatalogOfTheMoment(l, d) == catalog[d]

\* The version the listing names, read from its directory.
Chosen(l, d) ==
    IF listing[l][d] = Nothing THEN Nothing ELSE dirs[d][listing[l][d].at]

\* Mutants: the contract is not compared with the table; an unlisted dataset is
\* no problem.
AnyContract(d, p) == p # Nothing
UnlistedPasses(d, p) == p = Nothing \/ p.contract = model[d]

\* verify_payload, verify_header and verify_contract.
Conforms(d, p) == p # Nothing /\ p.contract = model[d]

\* A dataset that is unlisted or does not conform is a problem; the others are
\* read all the same.
ReadDataset(l) ==
    LET d == Served[pos[l]]
    IN /\ pc[l] = "staging"
       /\ pos[l] <= Len(Served)
       /\ staged' = [staged EXCEPT ![l][d] = Chosen(l, d)]
       /\ refused' = [refused EXCEPT ![l] = @ \/ ~Conforms(d, Chosen(l, d))]
       /\ pos' = [pos EXCEPT ![l] = @ + 1]
       /\ UNCHANGED <<treeVars, deployVars, dbVars, pc, root, listing, seen, gone,
                      drift, published>>

AllRead(l) == pc[l] = "staging" /\ pos[l] = Len(Served) + 1

\* No problem: on to the first write.
StartWriting(l) ==
    /\ AllRead(l)
    /\ ~refused[l]
    /\ Goto(l, "writing")
    /\ pos' = [pos EXCEPT ![l] = 1]
    /\ UNCHANGED <<treeVars, deployVars, dbVars, root, listing, staged, refused,
                   seen, gone, drift, published>>

\* DELETE takes its snapshot; it waits for a table another transaction dropped.
BeginDelete(l) ==
    LET rel == Relation(pos[l])
    IN /\ pc[l] = "writing"
       /\ pos[l] <= Last
       /\ NotDroppedByOther(l, rel)
       /\ seen' = [seen EXCEPT ![l] = Visible(l, rel)]
       /\ Goto(l, "deleting")
       /\ UNCHANGED <<treeVars, deployVars, dbVars, root, listing, staged, refused,
                      pos, gone, drift, published>>

\* It removes the rows of its snapshot that are still there, once no other
\* transaction holds one of them.
FinishDelete(l) ==
    LET rel == Relation(pos[l])
    IN /\ pc[l] = "deleting"
       /\ \A m \in Others(l) : gone[m][rel] \cap seen[l] = {}
       /\ gone' = [gone EXCEPT ![l][rel] = seen[l] \cap Visible(l, rel)]
       /\ seen' = [seen EXCEPT ![l] = {}]
       /\ Goto(l, "inserting")
       /\ UNCHANGED <<treeVars, deployVars, dbVars, root, listing, staged, refused,
                      pos, drift, published>>

\* Mutant: tables without a primary key; only load_state has one.
OnlyStateKeyed(rel) == rel[2] = "state"

\* Two versions of a relation share a primary key: load_state's is the dataset,
\* and entity ids and natural keys last from version to version (min_rows lets
\* no empty version through).
Keyed(rel) == TRUE

\* Versions in the relation that l's transaction did not delete.
Left(l, rel) == Visible(l, rel) \ gone[l][rel]

\* INSERT waits for the transactions that inserted or deleted its keys, and
\* succeeds if none of them is left.
Insert(l) ==
    LET rel == Relation(pos[l])
    IN /\ pc[l] = "inserting"
       /\ Keyed(rel) => /\ \A m \in Others(l) : gone[m][rel] = {} /\ ~Inserted(m, pos[l])
                        /\ Left(l, rel) = {}
       /\ pos' = [pos EXCEPT ![l] = @ + 1]
       /\ Goto(l, "writing")
       /\ UNCHANGED <<treeVars, deployVars, dbVars, root, listing, staged, refused,
                      seen, gone, drift, published>>

-----------------------------------------------------------------------------
(* The end of the transaction.                                              *)

\* The process exits and its connection is closed.
Close(l) ==
    /\ Goto(l, "idle")
    /\ listing' = [listing EXCEPT ![l] = NoEntries]
    /\ staged' = [staged EXCEPT ![l] = [d \in ServedSet |-> Nothing]]
    /\ refused' = [refused EXCEPT ![l] = FALSE]
    /\ pos' = [pos EXCEPT ![l] = 1]
    /\ seen' = [seen EXCEPT ![l] = {}]
    /\ gone' = [gone EXCEPT ![l] = NothingGone]
    /\ drift' = [drift EXCEPT ![l] = {}]
    /\ root' = [root EXCEPT ![l] = "published"]

Written(l, rel) ==
    IF pos[l] = Last + 1 /\ pc[l] = "writing" THEN {staged[l][rel[1]].at} ELSE {}

CommitTransaction(l) ==
    /\ db' = [rel \in Relations |-> Left(l, rel) \cup Written(l, rel)]
    /\ shape' = [d \in ServedSet |-> IF d \in Dropped(l) THEN model[d] ELSE shape[d]]
    /\ Close(l)
    /\ UNCHANGED <<treeVars, deployVars, published>>

\* Every relation is replaced: the run is ok.
Commit(l) ==
    /\ pc[l] = "writing"
    /\ pos[l] = Last + 1
    /\ CommitTransaction(l)

\* Nothing published: the run is degraded, and the harness commits it too.
CommitUnpublished(l) == pc[l] = "unpublished" /\ CommitTransaction(l)

RollBack(l) == Close(l) /\ UNCHANGED <<treeVars, deployVars, dbVars, published>>

\* ContractMismatch, before the first write.
Refuse(l) == AllRead(l) /\ refused[l] /\ RollBack(l)

\* A statement fails (a key that is taken, a deadlock, a lost connection), or
\* the process is killed.
Abort(l) == pc[l] # "idle" /\ RollBack(l)

-----------------------------------------------------------------------------
(* The environment.                                                         *)

Publish(entries) ==
    /\ FlipTo(entries)
    /\ published' = published \cup {entries}
    /\ Cardinality(published') <= MaxCatalogs
    /\ UNCHANGED <<deployVars, dbVars, loadVars>>

MintVersion(d, p) ==
    /\ Land(d, p)
    /\ UNCHANGED <<deployVars, dbVars, loadVars, published>>

\* A deploy changes the model of a table, between loads.
Deploy(d) ==
    /\ deploys < MaxDeploys
    /\ \A l \in Loaders : pc[l] = "idle"
    /\ \E c \in Contracts : model' = [model EXCEPT ![d] = c]
    /\ deploys' = deploys + 1
    /\ UNCHANGED <<treeVars, dbVars, loadVars, published>>

LoadStep(l) ==
    \/ \E r \in Roots : Start(l, r)
    \/ Inspect(l) \/ DropDrifted(l) \/ CheckPublished(l)
    \/ ReadCatalog(l) \/ ReadDataset(l) \/ StartWriting(l)
    \/ BeginDelete(l) \/ FinishDelete(l) \/ Insert(l)
    \/ Commit(l) \/ CommitUnpublished(l) \/ Refuse(l) \/ Abort(l)

Next ==
    \/ \E l \in Loaders : LoadStep(l)
    \/ \E entries \in [Datasets -> Entry] : Publish(entries)
    \/ \E d \in Datasets, p \in Packages : MintVersion(d, p)
    \/ \E d \in ServedSet : Deploy(d)

Spec == Init /\ [][Next]_vars

-----------------------------------------------------------------------------
(* Properties.                                                              *)

Loaded(d) == db[<<d, "state">>]

\* load_state never outlives the rows it describes: a table holds exactly the
\* version its load_state row names, and nothing if it has none.
StateDescribesRows ==
    \A d \in ServedSet : db[<<d, "rows">>] = Loaded(d)

\* One transaction, one decision: what is loaded, if anything is, is one
\* catalog that was published, for every served dataset at once. Never a mix of
\* two catalogs, a superseded directory or an orphan no catalog listed.
OneCatalog ==
    \/ \A d \in ServedSet : Loaded(d) = {}
    \/ \E c \in published : \A d \in ServedSet :
          c[d] # Nothing /\ Loaded(d) = {c[d].at}

\* A version is only ever in a table whose columns are its declared fields:
\* nothing is dropped, nothing is answered null.
ContractHeld ==
    \A d \in ServedSet : \A v \in db[<<d, "rows">>] :
        dirs[d][v] # Nothing /\ dirs[d][v].contract = shape[d]
=============================================================================
