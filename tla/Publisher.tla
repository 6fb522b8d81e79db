----------------------------- MODULE Publisher -----------------------------
(***************************************************************************)
(* The dataset publisher: it gates the tables of the built duckdb, stages  *)
(* each under a tmp directory, mints a version directory for each one that *)
(* changed, and flips catalog.json last.                                   *)
(*                                                                         *)
(* One publisher runs at a time (the nightly oneshot).  It may be killed   *)
(* between any two steps.  Between runs the build, the declared releases   *)
(* and the list of published datasets change.  A table is its row count,   *)
(* its body and the contract (fields) it ships under; the sha256 of its    *)
(* CSV stands for rows and body.  A version directory is named by the      *)
(* stamp of its run, so sorting by generated_at is sorting by stamp.       *)
(***************************************************************************)
EXTENDS Integers, Sequences, FiniteSetsExt

CONSTANTS
    Datasets,      \* names that PUBLISHED_DATASETS may list
    RowCounts,     \* row counts a build may have
    Bodies,        \* contents a table of a given row count may have
    Contracts,     \* contract fingerprints
    Versions,      \* schema_version numbers, in semver order
    Floor,         \* min_rows
    MaxShrink,     \* --max-shrink, in percent, when it is not overridden
    Window,        \* SHRINK_WINDOW
    Missing,       \* a table absent from the build
    Nothing,       \* no version directory; no catalog entry
    MaxStamp,      \* bound: number of runs that reach minting
    MaxCrashes     \* bound: number of kills

ASSUME RowsAreNat == RowCounts \subseteq Nat /\ Floor \in Nat
ASSUME VersionsAreNat == Versions \subseteq Nat \ {0}
ASSUME GateIsPercent == MaxShrink \in 0..100 /\ Window \in Nat \ {0}
ASSUME BoundsAreNat == MaxStamp \in Nat /\ MaxCrashes \in Nat

VARIABLES
    build,      \* dataset -> its table in the built duckdb, or Missing
    declared,   \* dataset -> the schema_version its releases declare
    listed,     \* the datasets PUBLISHED_DATASETS lists
    dirs,       \* dataset -> stamp -> the version directory, or Nothing
    catalog,    \* dataset -> its entry in catalog.json, or Nothing
    tmp,        \* datasets with a .tmp- directory in the served tree
    pc,         \* the publisher: idle, gating, minting
    todo,       \* datasets this phase has not reached yet
    entries,    \* catalog entries accumulated by this run
    override,   \* this run was given --max-shrink 1.0
    stamp,      \* the last run_at taken
    crashes,
    log         \* dataset -> the versions the catalog listed, oldest first,
                \* Nothing where it left the catalog (history variable)

envVars == <<build, declared, listed>>
runVars == <<tmp, pc, todo, entries, override>>
vars == <<envVars, dirs, catalog, runVars, stamp, crashes, log>>

Stamps == 1..MaxStamp
Tables == [rows : RowCounts, body : Bodies, contract : Contracts]
Packages == [rows : RowCounts, body : Bodies, contract : Contracts,
             schema : Versions, at : Stamps]

ASSUME SentinelsAreNew == Missing \notin Tables /\ Nothing \notin Packages

TypeOK ==
    /\ build \in [Datasets -> Tables \cup {Missing}]
    /\ declared \in [Datasets -> Versions]
    /\ listed \in SUBSET Datasets
    /\ dirs \in [Datasets -> [Stamps -> Packages \cup {Nothing}]]
    /\ catalog \in [Datasets -> Packages \cup {Nothing}]
    /\ tmp \in SUBSET Datasets
    /\ pc \in {"idle", "gating", "minting"}
    /\ todo \in SUBSET Datasets
    /\ entries \in [Datasets -> Packages \cup {Nothing}]
    /\ override \in BOOLEAN
    /\ stamp \in 0..MaxStamp
    /\ crashes \in 0..MaxCrashes
    /\ log \in [Datasets -> Seq([entry : Packages \cup {Nothing},
                                 lifted : BOOLEAN])]

NoEntries == [d \in Datasets |-> Nothing]

Init ==
    /\ build \in [Datasets -> Tables]
    /\ declared \in [Datasets -> Versions]
    /\ listed = Datasets
    /\ dirs = [d \in Datasets |-> [s \in Stamps |-> Nothing]]
    /\ catalog = NoEntries
    /\ tmp = {}
    /\ pc = "idle"
    /\ todo = {}
    /\ entries = NoEntries
    /\ override = FALSE
    /\ stamp = 0
    /\ crashes = 0
    /\ log = [d \in Datasets |-> <<>>]

-----------------------------------------------------------------------------
(* The volume gate.                                                         *)

\* _shrinks, with the ratio cross-multiplied.
Shrinks(baseline, rows, percent) ==
    baseline > 0 /\ (baseline - rows) * 100 > percent * baseline

\* The counts of `history` at positions first..last, none of them if empty.
Slice(history, first, last) == {history[i] : i \in first..last}

Larger(m, n) == IF m > n THEN m ELSE n

\* Mutant: the gate of before #472, against the previous version alone.
PreviousOnly(history, percent) ==
    IF history = <<>> THEN 0 ELSE history[Len(history)]

\* Where the replay of the gate over the first i versions starts counting: at the
\* latest version the gate would have refused (it can only have been an override).
Start(history, percent) ==
    LET start[i \in 0..Len(history)] ==
            IF i = 0 THEN 1
            ELSE LET window == Slice(history, Larger(start[i-1], i - Window), i - 1)
                 IN IF window # {} /\ Shrinks(Max(window), history[i], percent)
                    THEN i ELSE start[i-1]
    IN start

\* _shrink_baseline: the largest of the last Window counts since there.
Baseline(history, percent) ==
    LET n == Len(history)
        recent == Slice(history, Larger(Start(history, percent)[n], n - Window + 1), n)
    IN IF recent = {} THEN 0 ELSE Max(recent)

\* _row_history: the version dirs no newer than the listed one.  They are told
\* apart by stamp only, so an orphan older than the listed version is among them.
VersionsTo(d, at) == {s \in Stamps : dirs[d][s] # Nothing /\ s <= at}
HistoryStamps(d) ==
    IF catalog[d] = Nothing THEN {} ELSE VersionsTo(d, catalog[d].at)

\* The row counts of known versions, oldest first.
RowCountsOf(d, known) ==
    [i \in 1..Cardinality(known) |->
        dirs[d][CHOOSE s \in known :
                  Cardinality({t \in known : t <= s}) = i].rows]
RowHistory(d) == RowCountsOf(d, HistoryStamps(d))

-----------------------------------------------------------------------------
(* The gates: a dataset that fails one refuses the whole run.               *)

Percent == IF override THEN 100 ELSE MaxShrink

BelowFloor(t) == t.rows < Floor
TooSmall(d, t) == Shrinks(Baseline(RowHistory(d), Percent), t.rows, Percent)

\* Mutant: a fingerprint compared whatever the declared version, so never.
NeverUnbumped(d, t) == FALSE

\* The contract changed and schema_version stood still.
Unbumped(d, t) ==
    /\ catalog[d] # Nothing
    /\ catalog[d].contract # t.contract
    /\ catalog[d].schema = declared[d]

Downgraded(d) == catalog[d] # Nothing /\ declared[d] < catalog[d].schema

Passes(d) ==
    /\ build[d] # Missing
    /\ ~BelowFloor(build[d])
    /\ ~TooSmall(d, build[d])
    /\ ~Unbumped(d, build[d])
    /\ ~Downgraded(d)

-----------------------------------------------------------------------------
(* A run of publish().                                                      *)

\* Sweep the strays of dead runs and start gating.
Begin(lifted) ==
    /\ pc = "idle"
    /\ stamp < MaxStamp
    /\ pc' = "gating"
    /\ override' = lifted
    /\ tmp' = {}
    /\ todo' = listed
    /\ entries' = NoEntries
    /\ UNCHANGED <<envVars, dirs, catalog, stamp, crashes, log>>

\* A dataset passes its gates and is exported to a tmp dir.
Stage(d) ==
    /\ pc = "gating"
    /\ d \in todo
    /\ Passes(d)
    /\ tmp' = tmp \cup {d}
    /\ todo' = todo \ {d}
    /\ UNCHANGED <<envVars, dirs, catalog, pc, entries, override, stamp,
                   crashes, log>>

\* The process ends, with what it held in memory.
Exit == /\ pc' = "idle"
        /\ todo' = {}
        /\ entries' = NoEntries
        /\ override' = FALSE

\* PublishRefused: the staged tmp dirs go, nothing was minted.
Refuse(d) ==
    /\ pc = "gating"
    /\ d \in todo
    /\ ~Passes(d)
    /\ Exit
    /\ tmp' = {}
    /\ UNCHANGED <<envVars, dirs, catalog, stamp, crashes, log>>

\* Mutant: a stamp that the previous run's directories already bear.
SameInstant == IF stamp = 0 THEN 1 ELSE stamp

\* run_at, with the token that tells two versions of one second apart.
NextStamp == stamp + 1

\* Every dataset is staged: the run takes its one instant.
StartMinting ==
    /\ pc = "gating"
    /\ todo = {}
    /\ pc' = "minting"
    /\ stamp' = NextStamp
    /\ todo' = listed
    /\ UNCHANGED <<envVars, dirs, catalog, tmp, entries, override, crashes, log>>

Package(d) == [rows |-> build[d].rows, body |-> build[d].body,
               contract |-> build[d].contract, schema |-> declared[d],
               at |-> stamp]

\* Mutants: skip-if-unchanged by the bytes alone; and by nothing.
SameBytes(d) ==
    /\ catalog[d] # Nothing
    /\ catalog[d].rows = build[d].rows
    /\ catalog[d].body = build[d].body
AlwaysChanged(d) == FALSE

\* Neither the bytes nor the contract they ship under changed.
Unchanged(d) ==
    /\ catalog[d] # Nothing
    /\ catalog[d].rows = build[d].rows
    /\ catalog[d].body = build[d].body
    /\ catalog[d].contract = build[d].contract
    /\ catalog[d].schema = declared[d]

CarryForward(d) ==
    /\ pc = "minting"
    /\ d \in todo
    /\ Unchanged(d)
    /\ entries' = [entries EXCEPT ![d] = catalog[d]]
    /\ tmp' = tmp \ {d}
    /\ todo' = todo \ {d}
    /\ UNCHANGED <<envVars, dirs, catalog, pc, override, stamp, crashes, log>>

\* datapackage.json is written inside the tmp dir, which is renamed into place.
Mint(d) ==
    /\ pc = "minting"
    /\ d \in todo
    /\ ~Unchanged(d)
    /\ dirs' = [dirs EXCEPT ![d][stamp] = Package(d)]
    /\ entries' = [entries EXCEPT ![d] = Package(d)]
    /\ tmp' = tmp \ {d}
    /\ todo' = todo \ {d}
    /\ UNCHANGED <<envVars, catalog, pc, override, stamp, crashes, log>>

\* Mutant: the catalog is replaced as soon as one dataset is left to do.
EarlyFlip == Cardinality(todo) <= 1

AllLanded == todo = {}

\* A listed version enters the log, and so does leaving the catalog.
Logged(d) ==
    IF entries[d] = catalog[d] THEN log[d]
    ELSE Append(log[d], [entry |-> entries[d],
                         lifted |-> override \/ entries[d] = Nothing])

\* The catalog is replaced, once every dataset landed.
Flip ==
    /\ pc = "minting"
    /\ AllLanded
    /\ catalog' = entries
    /\ log' = [d \in Datasets |-> Logged(d)]
    /\ Exit
    /\ UNCHANGED <<envVars, dirs, tmp, stamp, crashes>>

\* Killed, or an I/O error after the gates: nothing is cleaned up.
Crash ==
    /\ pc # "idle"
    /\ crashes < MaxCrashes
    /\ crashes' = crashes + 1
    /\ Exit
    /\ UNCHANGED <<envVars, dirs, catalog, tmp, stamp, log>>

-----------------------------------------------------------------------------
(* Between runs.                                                            *)

Rebuild(d) ==
    /\ pc = "idle"
    /\ \E t \in Tables \cup {Missing} : build' = [build EXCEPT ![d] = t]
    /\ UNCHANGED <<declared, listed, dirs, catalog, runVars, stamp, crashes, log>>

\* A deploy declares another version: usually a bump, possibly a rollback.
Declare(d) ==
    /\ pc = "idle"
    /\ \E v \in Versions : declared' = [declared EXCEPT ![d] = v]
    /\ UNCHANGED <<build, listed, dirs, catalog, runVars, stamp, crashes, log>>

\* PUBLISHED_DATASETS is a table in the code: it is never empty.
ListOrDelist(d) ==
    /\ pc = "idle"
    /\ listed' = IF d \in listed THEN listed \ {d} ELSE listed \cup {d}
    /\ listed' # {}
    /\ UNCHANGED <<build, declared, dirs, catalog, runVars, stamp, crashes, log>>

Next ==
    \/ \E lifted \in BOOLEAN : Begin(lifted)
    \/ \E d \in Datasets : \/ Stage(d) \/ Refuse(d)
                           \/ CarryForward(d) \/ Mint(d)
    \/ StartMinting
    \/ Flip
    \/ Crash
    \/ \E d \in Datasets : Rebuild(d) \/ Declare(d) \/ ListOrDelist(d)

Spec == Init /\ [][Next]_vars

-----------------------------------------------------------------------------
(* Properties.                                                              *)

\* Never a listed partial: the version directory of every catalog entry exists
\* and holds exactly what the entry says, whatever crashed (publish.py:9).
CatalogComplete ==
    \A d \in Datasets : catalog[d] # Nothing =>
        dirs[d][catalog[d].at] = catalog[d]

\* Positions i < j of the log with no delisting at or between them.
Listings(d) == {ij \in (1..Len(log[d])) \X (1..Len(log[d])) :
                  /\ ij[1] < ij[2]
                  /\ \A k \in ij[1]..ij[2] : log[d][k].entry # Nothing}

\* A consumer pins schema_version: over the versions of a dataset that stays
\* listed, the number never goes back, and one number is one contract.
VersionPinsContract ==
    \A d \in Datasets : \A ij \in Listings(d) :
        LET old == log[d][ij[1]].entry  new == log[d][ij[2]].entry
        IN /\ old.schema <= new.schema
           /\ old.schema = new.schema => old.contract = new.contract

\* No version churn: two consecutive listed versions always differ in bytes,
\* contract or schema_version.
NoChurn ==
    \A d \in Datasets : \A ij \in Listings(d) :
        ij[2] = ij[1] + 1 =>
            [log[d][ij[1]].entry EXCEPT !.at = 0]
              # [log[d][ij[2]].entry EXCEPT !.at = 0]

\* A completed run leaves the catalog describing the build it ran on, for
\* exactly the listed datasets: a metadata-only contract change reaches it too.
DescribesBuild(d) ==
    IF d \in listed
    THEN /\ catalog'[d] # Nothing
         /\ catalog'[d] = [Package(d) EXCEPT !.at = catalog'[d].at]
    ELSE catalog'[d] = Nothing
CatalogFollowsBuild ==
    [][pc = "minting" /\ pc' = "idle" /\ crashes' = crashes
       => \A d \in Datasets : DescribesBuild(d)]_vars

\* The publisher is one implementation of the tree its readers rely on: version
\* directories appear whole and never change, and the catalog moves in one step
\* from landed versions to landed versions no older.
Tree == INSTANCE PublishedTree WITH dirs <- dirs, catalog <- catalog
ImplementsTree == Tree!TreeSpec

\* The catalog listed this version once.
WasListed(d, s) ==
    \E k \in 1..Len(log[d]) : log[d][k].entry # Nothing /\ log[d][k].entry.at = s

\* A shrunken dataset never ships silently: without an override, a version has
\* at least (100 - MaxShrink)% of the rows of each of the Window versions listed
\* before it, back to the latest override - as long as every version the gate
\* counted had been listed (an orphan can hide a shrink: see OrphansLeftOut).
ShrinkGated ==
    \A d \in Datasets : \A ij \in Listings(d) :
        LET i == ij[1]  j == ij[2]
        IN /\ i >= j - Window
           /\ \A k \in (i+1)..j : ~log[d][k].lifted
           /\ \A s \in VersionsTo(d, log[d][j-1].entry.at) : WasListed(d, s)
           => ~Shrinks(log[d][i].entry.rows, log[d][j].entry.rows, MaxShrink)

\* "A dir minted after the catalog's latest was never published, so it is left
\* out": every version the row history reads was listed by the catalog once.
OrphansLeftOut ==
    \A d \in Datasets : \A s \in HistoryStamps(d) : WasListed(d, s)
=============================================================================
