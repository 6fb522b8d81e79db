----------------------------- MODULE RawMirror -----------------------------
(***************************************************************************)
(* The nightly backup of the raw store and the way back: a create-only     *)
(* bucket that holds every object and every manifest under its own name,   *)
(* filled by backup runs that list the live store, and fetched whole into  *)
(* an empty directory.                                                     *)
(*                                                                         *)
(* A backup reads a store that harvests are writing and that may be        *)
(* damaged under it; it may be killed between any two steps, and a run by  *)
(* hand may overlap the timer's.  The bucket outlives all of them: nothing *)
(* in it is replaced or deleted.  The dump, the other half of a backup,    *)
(* matters here only by whether it failed.                                *)
(***************************************************************************)
EXTENDS RawStore

CONSTANT Backups       \* processes: the timer's backup, one run by hand

VARIABLES
    bucket,       \* body -> the object raw/<source>/objects/<sha>
    bucketRuns,   \* runs whose manifest is in the bucket
    step,         \* backup -> where it stands
    dry,          \* backup -> it only rehearses
    dumped,       \* backup -> its dump shipped
    started,      \* backup -> the manifests that were on disk when it began
    listedRuns,   \* backup -> manifests its first pass listed
    listed,       \* backup -> objects its second pass listed
    toShip,       \* backup -> listed objects the bucket did not have, not shipped yet
    runsToShip,   \* backup -> and manifests
    hashed,       \* backup -> the object whose hash it has just checked
    mismatched,   \* backup -> objects it refused
    raised,       \* backup -> the raw half ended in an exception
    reported,     \* backup -> its check-in, if any
    fetch,        \* the restore: where it stands
    fetched,      \* bodies the restore has written
    fetchedRuns,  \* manifests it has written
    quiet         \* no backup has run since the restore began

mirrorVars == <<bucket, bucketRuns, step, dry, dumped, started, listedRuns,
                listed, toShip, runsToShip, hashed, mismatched, raised,
                reported, fetch, fetched, fetchedRuns, quiet>>
backupVars == <<dry, dumped, started, listedRuns, listed, toShip, runsToShip,
                hashed, mismatched, raised, reported>>
restoreVars == <<fetch, fetched, fetchedRuns, quiet>>

MirrorInit ==
    /\ bucket = [b \in Bodies |-> "absent"]
    /\ bucketRuns = {}
    /\ step = [n \in Backups |-> "idle"]
    /\ dry = [n \in Backups |-> FALSE]
    /\ dumped = [n \in Backups |-> FALSE]
    /\ started = [n \in Backups |-> {}]
    /\ listedRuns = [n \in Backups |-> {}]
    /\ listed = [n \in Backups |-> {}]
    /\ toShip = [n \in Backups |-> {}]
    /\ runsToShip = [n \in Backups |-> {}]
    /\ hashed = [n \in Backups |-> NoBody]
    /\ mismatched = [n \in Backups |-> {}]
    /\ raised = [n \in Backups |-> FALSE]
    /\ reported = [n \in Backups |-> "nothing"]
    /\ fetch = "idle"
    /\ fetched = {}
    /\ fetchedRuns = {}
    /\ quiet = TRUE

-----------------------------------------------------------------------------
(* run_backup.                                                              *)

ToStep(n, where) == step' = [step EXCEPT ![n] = where]

\* The preflight, then the dump, which may fail: the raw half runs all the same.
StartBackup(n) ==
    /\ step[n] = "idle"
    /\ ToStep(n, "scanning")
    /\ \E rehearsal \in BOOLEAN, shipped \in BOOLEAN :
          /\ dry' = [dry EXCEPT ![n] = rehearsal]
          /\ dumped' = [dumped EXCEPT ![n] = shipped]
    /\ started' = [started EXCEPT ![n] = Manifests]
    /\ reported' = [reported EXCEPT ![n] = "nothing"]
    /\ quiet' = FALSE
    /\ UNCHANGED <<vars, bucket, bucketRuns, listedRuns, listed, toShip,
                   runsToShip, hashed, mismatched, raised, fetch, fetched,
                   fetchedRuns>>

\* The bucket is not there, or not listable by this identity: nothing is tried.
PreflightFails(n) ==
    /\ step[n] = "idle"
    /\ ToStep(n, "reporting")
    /\ raised' = [raised EXCEPT ![n] = TRUE]
    /\ reported' = [reported EXCEPT ![n] = "nothing"]
    /\ UNCHANGED <<vars, bucket, bucketRuns, dry, dumped, started, listedRuns,
                   listed, toShip, runsToShip, hashed, mismatched, restoreVars>>

OnDisk == {b \in Bodies : object[b] # "absent"}

\* scan: one pass lists the manifests...
ListManifests(n) ==
    /\ step[n] = "scanning"
    /\ ToStep(n, "listing")
    /\ listedRuns' = [listedRuns EXCEPT ![n] = Manifests]
    /\ UNCHANGED <<vars, bucket, bucketRuns, dry, dumped, started, listed, toShip,
                   runsToShip, hashed, mismatched, raised, reported, restoreVars>>

\* ...and a second one every other file.
ListOthers(n) ==
    /\ step[n] = "listing"
    /\ ToStep(n, "comparing")
    /\ listed' = [listed EXCEPT ![n] = OnDisk]
    /\ UNCHANGED <<vars, bucket, bucketRuns, dry, dumped, started, listedRuns, toShip,
                   runsToShip, hashed, mismatched, raised, reported, restoreVars>>

\* What the bucket does not list yet is left to ship.
ListBucket(n) ==
    /\ step[n] = "comparing"
    /\ ToStep(n, "shipping")
    /\ toShip' = [toShip EXCEPT ![n] = {b \in listed[n] : bucket[b] = "absent"}]
    /\ runsToShip' = [runsToShip EXCEPT ![n] = listedRuns[n] \ bucketRuns]
    /\ UNCHANGED <<vars, bucket, bucketRuns, dry, dumped, started, listedRuns,
                   listed, hashed, mismatched, raised, reported, restoreVars>>

Matches(b) == object[b] = "intact"

\* Each object is read once to hash it: a mismatch is not shipped.
HashObject(n, b) ==
    /\ step[n] = "shipping"
    /\ hashed[n] = NoBody
    /\ b \in toShip[n]
    /\ object[b] # "absent"
    /\ IF Matches(b)
       THEN /\ hashed' = [hashed EXCEPT ![n] = b]
            /\ UNCHANGED <<toShip, mismatched>>
       ELSE /\ mismatched' = [mismatched EXCEPT ![n] = @ \cup {b}]
            /\ toShip' = [toShip EXCEPT ![n] = @ \ {b}]
            /\ UNCHANGED hashed
    /\ UNCHANGED <<vars, bucket, bucketRuns, step, dry, dumped, started,
                   listedRuns, listed, runsToShip, raised, reported, restoreVars>>

\* create_object: if_generation_match=0. What is there under this sha256 stays.
Created(b) == IF bucket[b] = "absent" THEN [bucket EXCEPT ![b] = object[b]] ELSE bucket

\* ...and once more to upload it, whatever the file holds by now.
UploadObject(n) ==
    LET b == hashed[n]
    IN /\ step[n] = "shipping"
       /\ b # NoBody
       /\ object[b] # "absent"
       /\ bucket' = IF dry[n] THEN bucket ELSE Created(b)
       /\ hashed' = [hashed EXCEPT ![n] = NoBody]
       /\ toShip' = [toShip EXCEPT ![n] = @ \ {b}]
       /\ UNCHANGED <<vars, bucketRuns, step, dry, dumped, started, listedRuns,
                      listed, runsToShip, mismatched, raised, reported, restoreVars>>

\* Mutant: manifests are shipped as they come.
AnyOrder(n) == TRUE

\* Keys are shipped in their order: <source>/objects before <source>/runs.
ObjectsShipped(n) == toShip[n] = {}

UploadManifest(n, r) ==
    /\ step[n] = "shipping"
    /\ hashed[n] = NoBody
    /\ ObjectsShipped(n)
    /\ r \in runsToShip[n]
    /\ bucketRuns' = IF dry[n] THEN bucketRuns ELSE bucketRuns \cup {r}
    /\ runsToShip' = [runsToShip EXCEPT ![n] = @ \ {r}]
    /\ UNCHANGED <<vars, bucket, step, dry, dumped, started, listedRuns, listed,
                   toShip, hashed, mismatched, raised, reported, restoreVars>>

\* A listed file is gone, or the bucket fails: the exception ends the raw half.
RawHalfRaises(n) ==
    /\ step[n] \in {"listing", "comparing", "shipping"}
    /\ ToStep(n, "reporting")
    /\ raised' = [raised EXCEPT ![n] = TRUE]
    /\ UNCHANGED <<vars, bucket, bucketRuns, dry, dumped, started, listedRuns,
                   listed, toShip, runsToShip, hashed, mismatched, reported,
                   restoreVars>>

AllShipped(n) ==
    /\ step[n] = "shipping"
    /\ toShip[n] = {} /\ runsToShip[n] = {}
    /\ ToStep(n, "reporting")
    /\ UNCHANGED <<vars, bucket, bucketRuns, backupVars, restoreVars>>

\* Mutant: a mismatch is only counted.
CountsOnly(n) == ~dumped[n] \/ raised[n] \/ listed[n] \cup listedRuns[n] = {}

\* Whatever did not ship is a failure: a half that raised, an empty store, a
\* mismatch. (Files outside the layout are another; the store here has none.)
Failed(n) == \/ ~dumped[n] \/ raised[n] \/ mismatched[n] # {}
             \/ listed[n] = {} /\ listedRuns[n] = {}

\* A rehearsal reports nothing.
Reports(n) == ~dry[n]

\* The state a new run starts from.
Forget(n) ==
    /\ dry' = [dry EXCEPT ![n] = FALSE]
    /\ dumped' = [dumped EXCEPT ![n] = FALSE]
    /\ listedRuns' = [listedRuns EXCEPT ![n] = {}]
    /\ listed' = [listed EXCEPT ![n] = {}]
    /\ toShip' = [toShip EXCEPT ![n] = {}]
    /\ runsToShip' = [runsToShip EXCEPT ![n] = {}]
    /\ hashed' = [hashed EXCEPT ![n] = NoBody]
    /\ mismatched' = [mismatched EXCEPT ![n] = {}]
    /\ raised' = [raised EXCEPT ![n] = FALSE]
    /\ started' = [started EXCEPT ![n] = {}]

\* The check-in: at most two attempts, both may be lost, and it never fails the
\* run. A second one after a lost answer reports the same again.
CheckIn(n) ==
    /\ step[n] = "reporting"
    /\ ToStep(n, "idle")
    /\ reported' = [reported EXCEPT ![n] =
                       IF Reports(n) THEN IF Failed(n) THEN "alert" ELSE "ok"
                       ELSE "nothing"]
    /\ Forget(n)
    /\ UNCHANGED <<vars, bucket, bucketRuns, restoreVars>>

\* The attempts are lost, or the process is killed: the monitor hears nothing.
BackupDies(n) ==
    /\ step[n] # "idle"
    /\ ToStep(n, "idle")
    /\ Forget(n)
    /\ UNCHANGED <<vars, bucket, bucketRuns, reported, restoreVars>>

-----------------------------------------------------------------------------
(* fetch_mirror.                                                            *)

\* Mutant: a download is not compared with its name.
AnyBytes == TRUE
Genuine == \A b \in Bodies : bucket[b] # "corrupt"

\* The listing comes in pages, in name order: objects first.
FetchObjects ==
    /\ fetch = "idle"
    /\ \A n \in Backups : step[n] = "idle"
    /\ bucketRuns # {} \/ \E b \in Bodies : bucket[b] # "absent"
    /\ fetch' = IF Genuine THEN "manifests" ELSE "refused"
    /\ fetched' = {b \in Bodies : bucket[b] # "absent"}
    /\ quiet' = TRUE
    /\ UNCHANGED <<vars, bucket, bucketRuns, step, backupVars, fetchedRuns>>

\* Then the manifests, and the index is rebuilt from them.
FetchManifests ==
    /\ fetch = "manifests"
    /\ fetch' = "restored"
    /\ fetchedRuns' = bucketRuns
    /\ UNCHANGED <<vars, bucket, bucketRuns, step, backupVars, fetched, quiet>>

BackupStep(n) ==
    \/ StartBackup(n) \/ PreflightFails(n)
    \/ ListManifests(n) \/ ListOthers(n) \/ ListBucket(n)
    \/ \E b \in Bodies : HashObject(n, b)
    \/ UploadObject(n)
    \/ \E r \in Runs : UploadManifest(n, r)
    \/ RawHalfRaises(n) \/ AllShipped(n) \/ CheckIn(n) \/ BackupDies(n)

MirrorStep == (\E n \in Backups : BackupStep(n)) \/ FetchObjects \/ FetchManifests

-----------------------------------------------------------------------------
(* Properties.                                                              *)

Named(r) == {manifest[r][res].body : res \in Resources} \ {NoBody}

\* "ok" reaches the monitor only when what the backup found is in the bucket
\* (run.py:203): every manifest there was when it began, and every object they
\* name that its scan saw on disk. A rehearsal reports nothing.
OkMeansShipped ==
    [][\A n \in Backups :
         step[n] = "reporting" /\ step'[n] = "idle" /\ reported'[n] = "ok" =>
           /\ started[n] \subseteq bucketRuns
           /\ \A r \in started[n] : \A b \in Named(r) \cap listed[n] :
                 bucket[b] # "absent"]_mirrorVars

\* A restore that ends holds only genuine bodies, and, when no backup ran while
\* it read, every body its manifests name but those that were damaged before
\* any backup could ship them: no harvest stored a manifest before its objects,
\* and none reached the bucket before them (raw_mirror.py:121), wherever two
\* backups and the kills fall.
RestoreIsWhole ==
    fetch = "restored" =>
        /\ \A b \in fetched : bucket[b] = "intact"
        /\ quiet => \A r \in fetchedRuns : Named(r) \ damaged \subseteq fetched
=============================================================================
