------------------------------ MODULE RawStore ------------------------------
(***************************************************************************)
(* One source's slice of the raw store: content-addressed objects, one     *)
(* manifest per harvest run, and latest.json, the index of the newest ok   *)
(* fetch of every resource that staging and the TTL check read.            *)
(*                                                                         *)
(* Runs are processes.  A run fetches, stores bodies and buffers entries   *)
(* in memory; close() renames its manifest into place and only then        *)
(* advances the index under an exclusive flock.  Any process may be killed *)
(* between two steps, the operator may rebuild the index from the          *)
(* manifests while runs are live, and an object's file may be damaged.     *)
(*                                                                         *)
(* A body stands for its sha256 (no collisions).  A run records each       *)
(* resource at most once, as every harvest plan does.                      *)
(***************************************************************************)
EXTENDS Naturals

CONSTANTS
    Runs,         \* run ids; manifests are replayed in their order
    Resources,    \* resource ids of the source
    Bodies,       \* wire bodies, each named by its sha256
    NoBody,       \* sha256 = null
    NoManifest,   \* a run whose manifest is not on disk
    Nobody,       \* the flock is free
    Rebuilder,    \* the process running rebuild_latest
    TTL,          \* --ttl-days; 0 disables the freshness check
    MaxTime       \* bound of the clock

ASSUME RunsAreOrdered == Runs \subseteq Nat
ASSUME TimesAreNat == TTL \in Nat /\ MaxTime \in Nat
ASSUME SentinelsAreNew == /\ NoBody \notin Bodies
                          /\ Nobody \notin Runs
                          /\ Rebuilder \notin Runs \cup {Nobody}

VARIABLES
    clock,
    object,     \* body -> the file objects/<sha>
    damaged,    \* bodies whose file the environment has damaged
    pc,         \* process -> where it stands
    fetching,   \* run -> [resource, body] of the fetch in flight
    buffer,     \* run -> its entries, in memory until close()
    manifest,   \* run -> its manifest, once renamed into place
    latest,     \* the index: resource -> [body, at, run]
    lock,       \* holder of .latest.lock
    view,       \* process -> its copy of the index, read under the lock
    queue       \* manifests the rebuild has not replayed yet

vars == <<clock, object, damaged, pc, fetching, buffer, manifest, latest,
          lock, view, queue>>

Processes == Runs \cup {Rebuilder}
Times == 0..MaxTime

Unrecorded == [status |-> "unrecorded", body |-> NoBody, at |-> 0]
Entries == {Unrecorded}
           \cup [status : {"ok"}, body : Bodies, at : Times]
           \cup [status : {"err", "skipped"}, body : {NoBody}, at : Times]

ASSUME NoManifestIsNew == NoManifest \notin [Resources -> Entries]

\* An index row: `run` is Nobody exactly when the resource has no row.
NoRow == [body |-> NoBody, at |-> 0, run |-> Nobody]
Rows == {NoRow} \cup [body : Bodies, at : Times, run : Runs]
EmptyIndex == [res \in Resources |-> NoRow]

NoFetch == [resource |-> NoBody, body |-> NoBody]
Fetches == {NoFetch} \cup [resource : Resources, body : Bodies \cup {NoBody}]

HasRow(index, res) == index[res].run # Nobody

\* manifest_paths: the runs whose manifest is on disk.
Manifests == {r \in Runs : manifest[r] # NoManifest}

TypeOK ==
    /\ clock \in Times
    /\ object \in [Bodies -> {"absent", "intact", "corrupt"}]
    /\ damaged \in SUBSET Bodies
    /\ pc \in [Processes -> {"idle", "open", "waiting", "storing", "closing",
                             "indexing", "merging", "closed", "crashed"}]
    /\ fetching \in [Runs -> Fetches]
    /\ \A r \in Runs : /\ pc[r] \in {"waiting", "storing"} =>
                             fetching[r].resource \in Resources
                       /\ pc[r] = "storing" => fetching[r].body \in Bodies
    /\ buffer \in [Runs -> [Resources -> Entries]]
    /\ manifest \in [Runs -> [Resources -> Entries] \cup {NoManifest}]
    /\ latest \in [Resources -> Rows]
    /\ lock \in Processes \cup {Nobody}
    /\ view \in [Processes -> [Resources -> Rows]]
    /\ queue \subseteq Manifests

Init ==
    /\ clock = 0
    /\ object = [b \in Bodies |-> "absent"]
    /\ damaged = {}
    /\ pc = [p \in Processes |-> "idle"]
    /\ fetching = [r \in Runs |-> NoFetch]
    /\ buffer = [r \in Runs |-> [res \in Resources |-> Unrecorded]]
    /\ manifest = [r \in Runs |-> NoManifest]
    /\ latest = EmptyIndex
    /\ lock = Nobody
    /\ view = [p \in Processes |-> EmptyIndex]
    /\ queue = {}

-----------------------------------------------------------------------------
(* record_fetch: the loop body of every harvester.                          *)

\* is_fresh: the newest ok fetch is within the TTL.
Fresh(res) == /\ HasRow(latest, res)
              /\ clock - latest[res].at <= TTL

\* Mutant: put_object checks the bytes and repairs a corrupted file.
AlreadyStoredIntact(b) == object[b] = "intact"

\* put_object trusts the name of an existing file over its bytes.
AlreadyStored(b) == object[b] # "absent"

Record(r, res, entry) == buffer' = [buffer EXCEPT ![r][res] = entry]

OpenRun(r) ==
    /\ pc[r] = "idle"
    /\ pc' = [pc EXCEPT ![r] = "open"]
    /\ UNCHANGED <<clock, object, damaged, fetching, buffer, manifest, latest,
                   lock, view, queue>>

SkipFresh(r, res) ==
    /\ pc[r] = "open"
    /\ buffer[r][res] = Unrecorded
    /\ TTL # 0 /\ Fresh(res)
    /\ Record(r, res, [status |-> "skipped", body |-> NoBody, at |-> clock])
    /\ UNCHANGED <<clock, object, damaged, pc, fetching, manifest, latest,
                   lock, view, queue>>

BeginFetch(r, res) ==
    /\ pc[r] = "open"
    /\ buffer[r][res] = Unrecorded
    /\ ~(TTL # 0 /\ Fresh(res))
    /\ pc' = [pc EXCEPT ![r] = "waiting"]
    /\ fetching' = [fetching EXCEPT ![r] = [resource |-> res, body |-> NoBody]]
    /\ UNCHANGED <<clock, object, damaged, buffer, manifest, latest, lock,
                   view, queue>>

\* The fetcher raises: contained, recorded as err.
FetchFails(r) ==
    /\ pc[r] = "waiting"
    /\ pc' = [pc EXCEPT ![r] = "open"]
    /\ Record(r, fetching[r].resource,
              [status |-> "err", body |-> NoBody, at |-> clock])
    /\ fetching' = [fetching EXCEPT ![r] = NoFetch]
    /\ UNCHANGED <<clock, object, damaged, manifest, latest, lock, view, queue>>

\* wire=None, or an error writing the object, raises out of record_fetch: the
\* harvester's finally still closes the run, with no entry for this resource.
FetchAborts(r) ==
    /\ pc[r] \in {"waiting", "storing"}
    /\ pc' = [pc EXCEPT ![r] = "closing"]
    /\ fetching' = [fetching EXCEPT ![r] = NoFetch]
    /\ UNCHANGED <<clock, object, damaged, buffer, manifest, latest, lock,
                   view, queue>>

\* The wire arrives and its file exists already: only the entry is recorded.
FetchUnchanged(r, b) ==
    /\ pc[r] = "waiting"
    /\ AlreadyStored(b)
    /\ pc' = [pc EXCEPT ![r] = "open"]
    /\ Record(r, fetching[r].resource,
              [status |-> "ok", body |-> b, at |-> clock])
    /\ fetching' = [fetching EXCEPT ![r] = NoFetch]
    /\ UNCHANGED <<clock, object, damaged, manifest, latest, lock, view, queue>>

\* The wire arrives and no file has its name: put_object starts on a tmp file.
FetchNewBody(r, b) ==
    /\ pc[r] = "waiting"
    /\ ~AlreadyStored(b)
    /\ pc' = [pc EXCEPT ![r] = "storing"]
    /\ fetching' = [fetching EXCEPT
                     ![r] = [resource |-> fetching[r].resource, body |-> b]]
    /\ UNCHANGED <<clock, object, damaged, buffer, manifest, latest, lock,
                   view, queue>>

\* The tmp file replaces the object's name, whatever the file holds by then.
Renamed(b) == [object EXCEPT ![b] = "intact"]

\* The rename, then the entry is recorded.
StoreObject(r) ==
    /\ pc[r] = "storing"
    /\ pc' = [pc EXCEPT ![r] = "open"]
    /\ object' = Renamed(fetching[r].body)
    /\ Record(r, fetching[r].resource,
              [status |-> "ok", body |-> fetching[r].body, at |-> clock])
    /\ fetching' = [fetching EXCEPT ![r] = NoFetch]
    /\ UNCHANGED <<clock, damaged, manifest, latest, lock, view, queue>>

-----------------------------------------------------------------------------
(* RawRun.close and the index.                                             *)

\* The manifest is renamed into place: the run becomes visible.
CloseManifest(r) ==
    /\ pc[r] \in {"open", "closing"}
    /\ pc' = [pc EXCEPT ![r] = "indexing"]
    /\ manifest' = [manifest EXCEPT ![r] = buffer[r]]
    /\ UNCHANGED <<clock, object, damaged, fetching, buffer, latest, lock,
                   view, queue>>

\* Mutants: an index that any status advances; one that the last run to close
\* wins, whatever it fetched when.
AdvancesOnAnyStatus(entry, row) ==
    entry # Unrecorded /\ (row = NoRow \/ row.at < entry.at)
LastCloseWins(entry, row) == entry.status = "ok"

\* Only an ok fetch advances the index, and only past an older one.
Advances(entry, row) ==
    entry.status = "ok" /\ (row.run = Nobody \/ row.at < entry.at)

\* _merge_latest
Merge(index, r, entries) ==
    [res \in Resources |->
        IF Advances(entries[res], index[res])
        THEN [body |-> entries[res].body, at |-> entries[res].at, run |-> r]
        ELSE index[res]]

\* Mutant: no flock around the read-modify-write.
NoFlock == TRUE

FlockFree == lock = Nobody

\* _update_latest: take the flock and read the index...
BeginUpdate(r) ==
    /\ pc[r] = "indexing"
    /\ FlockFree
    /\ lock' = r
    /\ pc' = [pc EXCEPT ![r] = "merging"]
    /\ view' = [view EXCEPT ![r] = latest]
    /\ UNCHANGED <<clock, object, damaged, fetching, buffer, manifest, latest,
                   queue>>

\* ...merge the run's entries, replace the file and release the flock.
FinishUpdate(r) ==
    /\ pc[r] = "merging"
    /\ latest' = Merge(view[r], r, buffer[r])
    /\ lock' = Nobody
    /\ pc' = [pc EXCEPT ![r] = "closed"]
    /\ UNCHANGED <<clock, object, damaged, fetching, buffer, manifest, view,
                   queue>>

\* rebuild_latest: under the flock, from nothing, every manifest oldest first.
BeginRebuild ==
    /\ pc[Rebuilder] = "idle"
    /\ FlockFree
    /\ lock' = Rebuilder
    /\ pc' = [pc EXCEPT ![Rebuilder] = "merging"]
    /\ view' = [view EXCEPT ![Rebuilder] = EmptyIndex]
    /\ queue' = Manifests
    /\ UNCHANGED <<clock, object, damaged, fetching, buffer, manifest, latest>>

ReplayManifest(r) ==
    /\ pc[Rebuilder] = "merging"
    /\ r \in queue
    /\ \A q \in queue : r <= q
    /\ queue' = queue \ {r}
    /\ view' = [view EXCEPT
                   ![Rebuilder] = Merge(view[Rebuilder], r, manifest[r])]
    /\ UNCHANGED <<clock, object, damaged, pc, fetching, buffer, manifest,
                   latest, lock>>

FinishRebuild ==
    /\ pc[Rebuilder] = "merging"
    /\ queue = {}
    /\ latest' = view[Rebuilder]
    /\ lock' = Nobody
    /\ pc' = [pc EXCEPT ![Rebuilder] = "closed"]
    /\ UNCHANGED <<clock, object, damaged, fetching, buffer, manifest, view,
                   queue>>

-----------------------------------------------------------------------------
(* The environment.                                                         *)

\* Mutant: a lock file that only its owner removes.
StaleLock(p) == lock

\* The kernel drops a dead process's flock.
LockAfterDeath(p) == IF lock = p THEN Nobody ELSE lock

\* A killed process loses what it holds in memory; the files stay.
Crash(p) ==
    /\ pc[p] \notin {"idle", "closed", "crashed"}
    /\ pc' = [pc EXCEPT ![p] = "crashed"]
    /\ lock' = LockAfterDeath(p)
    /\ UNCHANGED <<clock, object, damaged, fetching, buffer, manifest, latest,
                   view, queue>>

\* An object's file is corrupted or deleted, once per body.
Damage(b) ==
    /\ object[b] = "intact"
    /\ b \notin damaged
    /\ damaged' = damaged \cup {b}
    /\ \E s \in {"corrupt", "absent"} : object' = [object EXCEPT ![b] = s]
    /\ UNCHANGED <<clock, pc, fetching, buffer, manifest, latest, lock, view,
                   queue>>

Tick ==
    /\ clock < MaxTime
    /\ clock' = clock + 1
    /\ UNCHANGED <<object, damaged, pc, fetching, buffer, manifest, latest,
                   lock, view, queue>>

\* The harvest loop: nothing a fetch does touches the manifests or the index.
FetchStep(r) ==
    \/ OpenRun(r)
    \/ \E res \in Resources : SkipFresh(r, res) \/ BeginFetch(r, res)
    \/ FetchFails(r)
    \/ FetchAborts(r)
    \/ \E b \in Bodies : FetchUnchanged(r, b) \/ FetchNewBody(r, b)
    \/ StoreObject(r)

RunStep(r) ==
    \/ FetchStep(r)
    \/ CloseManifest(r)
    \/ BeginUpdate(r)
    \/ FinishUpdate(r)

RebuildStep ==
    BeginRebuild \/ (\E r \in Runs : ReplayManifest(r)) \/ FinishRebuild

Next ==
    \/ \E r \in Runs : RunStep(r)
    \/ RebuildStep
    \/ \E p \in Processes : Crash(p)
    \/ \E b \in Bodies : Damage(b)
    \/ Tick

Spec == Init /\ [][Next]_vars

\* A process that holds or waits for the flock keeps running until it is
\* killed: closing is straight-line code, and so is a rebuild.
IndexStep == \E r \in Runs : BeginUpdate(r) \/ FinishUpdate(r)
Fairness ==
    /\ WF_vars(IndexStep)
    /\ WF_vars((\E r \in Runs : ReplayManifest(r)) \/ FinishRebuild)

FairSpec == Spec /\ Fairness

-----------------------------------------------------------------------------
(* Properties.                                                              *)

\* Every index row is the record of an ok fetch in the manifest it names, so
\* an index lost or dropped can be rebuilt (rawstore.py:165).
IndexBacked ==
    \A res \in Resources : HasRow(latest, res) =>
        /\ latest[res].run \in Manifests
        /\ manifest[latest[res].run][res] =
             [status |-> "ok", body |-> latest[res].body, at |-> latest[res].at]

\* A run whose close() returned is in the index: each of its ok fetches, or one
\* at least as new. No concurrent close or rebuild may overwrite its rows.
ClosedRunsIndexed ==
    \A r \in Runs : pc[r] = "closed" =>
        \A res \in Resources : buffer[r][res].status = "ok" =>
            HasRow(latest, res) /\ latest[res].at >= buffer[r][res].at

\* The index never regresses: a row is never dropped and never replaced by an
\* older fetch, by a run closing late or by a rebuild.
NoRegression(res) ==
    HasRow(latest, res) => /\ HasRow(latest', res)
                           /\ latest'[res].at >= latest[res].at
IndexNeverRegresses == [][\A res \in Resources : NoRegression(res)]_vars

\* A corrupted object is never repaired by a later genuine re-fetch: once no
\* put that had found the name free is still in flight, it stays corrupt.
PutInFlight(b) == \E r \in Runs : pc[r] = "storing" /\ fetching[r].body = b
Tampered(b) == object[b] = "corrupt" /\ ~PutInFlight(b)
TamperNeverLaunders == [][\A b \in Bodies : Tampered(b) => Tampered(b)']_vars

\* Runs that published their manifests index them, or die: the flock is never
\* held for ever, whoever dies holding it.
Unindexed == {r \in Runs : pc[r] \in {"indexing", "merging"}}
ManifestReachesIndex == (Unindexed # {}) ~> (Unindexed = {})
=============================================================================
