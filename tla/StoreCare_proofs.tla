-------------------------- MODULE StoreCare_proofs --------------------------
(***************************************************************************)
(* Proofs about RawStore, for any runs, resources, bodies, TTL and clock,  *)
(* and about StoreCare: the raw store with any number of harvests,         *)
(* overlapping backups, sweeps and kills.                                  *)
(***************************************************************************)
EXTENDS StoreCare, TLAPS, WellFoundedInduction

-----------------------------------------------------------------------------
(* The raw store, of itself.                                                *)

USE RunsAreOrdered, TimesAreNat, SentinelsAreNew, NoManifestIsNew

\* What _merge_latest builds from an index and a run's entries is an index.
LEMMA MergeType ==
    ASSUME NEW index \in [Resources -> Rows], NEW r \in Runs,
           NEW entries \in [Resources -> Entries]
    PROVE  Merge(index, r, entries) \in [Resources -> Rows]
<1>1. SUFFICES ASSUME NEW res \in Resources,
                      Advances(entries[res], index[res])
               PROVE  [body |-> entries[res].body, at |-> entries[res].at,
                       run |-> r] \in Rows
  BY DEF Merge
<1>2. entries[res] \in Entries /\ entries[res].status = "ok"
  BY <1>1 DEF Advances
<1>3. entries[res].body \in Bodies /\ entries[res].at \in Times
  BY <1>2 DEF Entries, Unrecorded
<1>4. QED BY <1>3 DEF Rows

\* Every state keeps the types of the store's files and of the runs' memory.
THEOREM TypeCorrect == Spec => []TypeOK
<1>1. Init => TypeOK
  BY DEF Init, TypeOK, Manifests, Times, Processes, Fetches, NoFetch, Entries, Unrecorded,
         EmptyIndex, Rows, NoRow
<1>2. TypeOK /\ [Next]_vars => TypeOK'
  <2> SUFFICES ASSUME TypeOK, [Next]_vars PROVE TypeOK'
    OBVIOUS
  <2>a. clock \in Times /\ clock \in Nat
    BY DEF TypeOK, Times
  <2> Runs \subseteq Processes /\ Rebuilder \in Processes
    BY DEF Processes
  <2>1. ASSUME NEW r \in Runs, OpenRun(r) PROVE TypeOK'
    BY <2>1 DEF OpenRun, TypeOK, Manifests
  <2>2. ASSUME NEW r \in Runs, NEW res \in Resources, SkipFresh(r, res)
        PROVE TypeOK'
    BY <2>2, <2>a DEF SkipFresh, TypeOK, Record, Manifests, Entries
  <2>3. ASSUME NEW r \in Runs, NEW res \in Resources, BeginFetch(r, res)
        PROVE TypeOK'
    BY <2>3 DEF BeginFetch, TypeOK, Manifests, Fetches
  <2>4. ASSUME NEW r \in Runs, FetchFails(r) PROVE TypeOK'
    BY <2>4, <2>a DEF FetchFails, TypeOK, Manifests, Record, Entries, Fetches, NoFetch
  <2>5. ASSUME NEW r \in Runs, FetchAborts(r) PROVE TypeOK'
    BY <2>5 DEF FetchAborts, TypeOK, Manifests, Fetches
  <2>6. ASSUME NEW r \in Runs, NEW b \in Bodies, FetchUnchanged(r, b)
        PROVE TypeOK'
    BY <2>6, <2>a DEF FetchUnchanged, TypeOK, Manifests, Record, Entries, Fetches, NoFetch
  <2>7. ASSUME NEW r \in Runs, NEW b \in Bodies, FetchNewBody(r, b)
        PROVE TypeOK'
    BY <2>7 DEF FetchNewBody, TypeOK, Manifests, Fetches, NoFetch
  <2>8. ASSUME NEW r \in Runs, StoreObject(r) PROVE TypeOK'
    BY <2>8, <2>a DEF StoreObject, TypeOK, Manifests, Record, Renamed, Entries, Fetches, NoFetch
  <2>9. ASSUME NEW r \in Runs, CloseManifest(r) PROVE TypeOK'
    BY <2>9 DEF CloseManifest, TypeOK, Manifests
  <2>10. ASSUME NEW r \in Runs, BeginUpdate(r) PROVE TypeOK'
    BY <2>10 DEF BeginUpdate, TypeOK, Manifests
  <2>11. ASSUME NEW r \in Runs, FinishUpdate(r) PROVE TypeOK'
    BY <2>11, MergeType DEF FinishUpdate, TypeOK, Manifests
  <2>12. CASE BeginRebuild
    BY <2>12 DEF BeginRebuild, TypeOK, EmptyIndex, Rows, Manifests
  <2>13. ASSUME NEW r \in Runs, ReplayManifest(r) PROVE TypeOK'
    <3>1. manifest[r] \in [Resources -> Entries]
      BY <2>13 DEF ReplayManifest, TypeOK, Manifests
    <3>2. Merge(view[Rebuilder], r, manifest[r]) \in [Resources -> Rows]
      BY <3>1, MergeType DEF TypeOK
    <3>3. QED BY <2>13, <3>2 DEF ReplayManifest, TypeOK, Manifests
  <2>14. CASE FinishRebuild
    BY <2>14 DEF FinishRebuild, TypeOK, Manifests
  <2>15. ASSUME NEW p \in Processes, Crash(p) PROVE TypeOK'
    BY <2>15 DEF Crash, TypeOK, Manifests, LockAfterDeath
  <2>16. ASSUME NEW b \in Bodies, Damage(b) PROVE TypeOK'
    BY <2>16 DEF Damage, TypeOK, Manifests
  <2>17. CASE Tick
    BY <2>17 DEF Tick, TypeOK, Manifests, Times
  <2>18. CASE UNCHANGED vars
    BY <2>18 DEF vars, TypeOK, Manifests
  <2>19. QED
    BY <2>1, <2>2, <2>3, <2>4, <2>5, <2>6, <2>7, <2>8, <2>9, <2>10, <2>11,
       <2>12, <2>13, <2>14, <2>15, <2>16, <2>17, <2>18
       DEF Next, RunStep, FetchStep, RebuildStep
<1>3. QED BY <1>1, <1>2, PTL DEF Spec

-----------------------------------------------------------------------------
(* What a step of the harvest loop leaves alone.                            *)

LEMMA FetchFrame ==
    ASSUME TypeOK, TypeOK', NEW r \in Runs, FetchStep(r)
    PROVE  /\ pc[r] \in {"idle", "open", "waiting", "storing"}
           /\ \E s \in {"open", "waiting", "storing", "closing"} :
                 pc' = [pc EXCEPT ![r] = s]
           /\ \E e : buffer' = [buffer EXCEPT ![r] = e]
           /\ UNCHANGED <<clock, damaged, manifest, latest, lock, view, queue>>
<1> USE DEF Record
<1>1. ASSUME OpenRun(r) \/ FetchAborts(r)
             \/ (\E res \in Resources : BeginFetch(r, res))
             \/ (\E b \in Bodies : FetchNewBody(r, b))
      PROVE  buffer' = [buffer EXCEPT ![r] = buffer[r]]
  BY <1>1 DEF OpenRun, FetchAborts, BeginFetch, FetchNewBody, TypeOK
<1>2. ASSUME NEW res \in Resources, SkipFresh(r, res)
      PROVE  pc' = [pc EXCEPT ![r] = "open"]
  BY <1>2 DEF SkipFresh, TypeOK
<1>3. \E e : buffer' = [buffer EXCEPT ![r] = e]
  <2>1. ASSUME NEW res, NEW f, Record(r, res, f)
        PROVE  \E e : buffer' = [buffer EXCEPT ![r] = e]
    BY <2>1 DEF TypeOK
  <2>2. QED BY <1>1, <2>1 DEF FetchStep, SkipFresh, FetchFails, FetchUnchanged,
               StoreObject
<1>4. \E s \in {"open", "waiting", "storing", "closing"} :
         pc' = [pc EXCEPT ![r] = s]
  BY <1>2 DEF FetchStep, OpenRun, BeginFetch, FetchFails, FetchAborts,
     FetchUnchanged, FetchNewBody, StoreObject
<1>5. QED BY <1>3, <1>4 DEF FetchStep, OpenRun, SkipFresh, BeginFetch, FetchFails,
             FetchAborts, FetchUnchanged, FetchNewBody, StoreObject

-----------------------------------------------------------------------------
(* The flock and the files of a run.                                        *)

\* The flock serialises the index: its holder, and only it, is merging.
Flock == \A p \in Processes : (pc[p] = "merging") <=> (lock = p)

LEMMA FlockHolds == Spec => []Flock
<1>1. Init => Flock
  BY DEF Init, Flock, Processes
<1>2. TypeOK /\ TypeOK' /\ Flock /\ [Next]_vars => Flock'
  <2> SUFFICES ASSUME TypeOK, TypeOK', Flock, [Next]_vars PROVE Flock'
    OBVIOUS
  <2> Runs \subseteq Processes /\ Rebuilder \in Processes /\ Nobody \notin Processes
    BY DEF Processes
  <2>1. ASSUME NEW r \in Runs, RunStep(r) PROVE Flock'
    <3>1. CASE FetchStep(r)
      BY <3>1, FetchFrame DEF Flock, TypeOK
    <3>2. CASE CloseManifest(r)
      BY <3>2 DEF CloseManifest, Flock, TypeOK
    <3>3. CASE BeginUpdate(r)
      BY <3>3 DEF BeginUpdate, FlockFree, Flock, TypeOK
    <3>4. CASE FinishUpdate(r)
      BY <3>4 DEF FinishUpdate, Flock, TypeOK
    <3>5. QED BY <2>1, <3>1, <3>2, <3>3, <3>4 DEF RunStep
  <2>2. CASE RebuildStep
    BY <2>2 DEF RebuildStep, BeginRebuild, ReplayManifest, FinishRebuild,
       FlockFree, Flock, TypeOK
  <2>3. ASSUME NEW p \in Processes, Crash(p) PROVE Flock'
    BY <2>3 DEF Crash, LockAfterDeath, Flock, TypeOK
  <2>4. ASSUME NEW b \in Bodies, Damage(b) PROVE Flock'
    BY <2>4 DEF Damage, Flock
  <2>5. CASE Tick
    BY <2>5 DEF Tick, Flock
  <2>6. CASE UNCHANGED vars
    BY <2>6 DEF vars, Flock
  <2>7. QED BY <2>1, <2>2, <2>3, <2>4, <2>5, <2>6 DEF Next
<1>3. QED BY <1>1, <1>2, TypeCorrect, PTL DEF Spec

\* A manifest is its run's buffer, and is on disk from close() on.
ManifestIsBuffer ==
    \A r \in Runs :
        /\ pc[r] \in {"idle", "open", "waiting", "storing", "closing"} =>
             manifest[r] = NoManifest
        /\ pc[r] \in {"indexing", "merging", "closed"} => manifest[r] = buffer[r]
        /\ manifest[r] \in {NoManifest, buffer[r]}

LEMMA ManifestIsBufferHolds == Spec => []ManifestIsBuffer
<1>1. Init => ManifestIsBuffer
  BY DEF Init, ManifestIsBuffer, Processes
<1>2. TypeOK /\ TypeOK' /\ ManifestIsBuffer /\ [Next]_vars
      => ManifestIsBuffer'
  <2> SUFFICES ASSUME TypeOK, TypeOK', ManifestIsBuffer, [Next]_vars
               PROVE  ManifestIsBuffer'
    OBVIOUS
  <2> Runs \subseteq Processes /\ Rebuilder \in Processes /\ Rebuilder \notin Runs
    BY DEF Processes
  <2>1. ASSUME NEW r \in Runs, RunStep(r) PROVE ManifestIsBuffer'
    <3>1. CASE FetchStep(r)
      BY <3>1, FetchFrame DEF ManifestIsBuffer, TypeOK
    <3>2. CASE CloseManifest(r)
      BY <3>2 DEF CloseManifest, ManifestIsBuffer, TypeOK
    <3>3. CASE BeginUpdate(r)
      BY <3>3 DEF BeginUpdate, FlockFree, ManifestIsBuffer, TypeOK
    <3>4. CASE FinishUpdate(r)
      BY <3>4 DEF FinishUpdate, ManifestIsBuffer, TypeOK
    <3>5. QED BY <2>1, <3>1, <3>2, <3>3, <3>4 DEF RunStep
  <2>2. CASE RebuildStep
    BY <2>2 DEF RebuildStep, BeginRebuild, ReplayManifest, FinishRebuild,
       ManifestIsBuffer, TypeOK
  <2>3. ASSUME NEW p \in Processes, Crash(p) PROVE ManifestIsBuffer'
    BY <2>3 DEF Crash, ManifestIsBuffer, TypeOK
  <2>4. ASSUME NEW b \in Bodies, Damage(b) PROVE ManifestIsBuffer'
    BY <2>4 DEF Damage, ManifestIsBuffer
  <2>5. CASE Tick
    BY <2>5 DEF Tick, ManifestIsBuffer
  <2>6. CASE UNCHANGED vars
    BY <2>6 DEF vars, ManifestIsBuffer
  <2>7. QED BY <2>1, <2>2, <2>3, <2>4, <2>5, <2>6 DEF Next
<1>3. QED BY <1>1, <1>2, TypeCorrect, PTL DEF Spec

\* What a merge does to one row: it keeps it or takes the run's newer ok fetch,
\* and in both cases covers the row and the fetch.
LEMMA MergeRow ==
    ASSUME NEW index \in [Resources -> Rows], NEW r \in Runs,
           NEW entries \in [Resources -> Entries], NEW res \in Resources,
           NEW m, m = Merge(index, r, entries)
    PROVE  /\ \/ m[res] = index[res]
              \/ /\ entries[res].status = "ok"
                 /\ m[res] = [body |-> entries[res].body,
                              at |-> entries[res].at, run |-> r]
           /\ HasRow(index, res) =>
                 HasRow(m, res) /\ m[res].at >= index[res].at
           /\ entries[res].status = "ok" =>
                 HasRow(m, res) /\ m[res].at >= entries[res].at
<1>1. index[res].at \in Nat
  BY DEF Rows, NoRow, Times
<1>2. entries[res].at \in Nat
  BY DEF Entries, Unrecorded, Times
<1>3. QED BY <1>1, <1>2 DEF Merge, Advances, HasRow

-----------------------------------------------------------------------------
(* The index.                                                               *)

\* A row is backed when the manifest it names records that very fetch as ok.
Backed(row, res) ==
    row.run # Nobody =>
        /\ row.run \in Manifests
        /\ manifest[row.run][res] =
             [status |-> "ok", body |-> row.body, at |-> row.at]

\* The inductive form of IndexBacked: the copy a flock holder is about to write
\* is backed too.
AllBacked ==
    /\ \A res \in Resources : Backed(latest[res], res)
    /\ \A p \in Processes : pc[p] = "merging" =>
          \A res \in Resources : Backed(view[p][res], res)

\* Rows stay backed while manifests are only added.
LEMMA BackedStable ==
    ASSUME TypeOK, TypeOK',
           \A r \in Manifests : manifest'[r] = manifest[r],
           NEW row, NEW res \in Resources, Backed(row, res)
    PROVE  Backed(row, res)'
BY DEF Backed, Manifests, TypeOK

LEMMA ManifestsStable ==
    ASSUME TypeOK, TypeOK', ManifestIsBuffer, [Next]_vars
    PROVE  \A r \in Manifests : manifest'[r] = manifest[r]
<1>1. ASSUME NEW r \in Runs, FetchStep(r) PROVE manifest' = manifest
  BY <1>1, FetchFrame
<1>2. ASSUME NEW r \in Runs, CloseManifest(r)
      PROVE  \A q \in Manifests : manifest'[q] = manifest[q]
  BY <1>2 DEF CloseManifest, ManifestIsBuffer, Manifests, TypeOK
<1>3. ASSUME NEW r \in Runs, BeginUpdate(r) \/ FinishUpdate(r)
      PROVE  manifest' = manifest
  BY <1>3 DEF BeginUpdate, FinishUpdate
<1>4. RebuildStep => manifest' = manifest
  BY DEF RebuildStep, BeginRebuild, ReplayManifest, FinishRebuild
<1>5. (\E p \in Processes : Crash(p)) \/ (\E b \in Bodies : Damage(b)) \/ Tick
      \/ UNCHANGED vars => manifest' = manifest
  BY DEF Crash, Damage, Tick, vars
<1>6. QED BY <1>1, <1>2, <1>3, <1>4, <1>5 DEF Next, RunStep

\* Merging a run's manifest into backed rows gives backed rows.
LEMMA MergeBacked ==
    ASSUME TypeOK, NEW r \in Manifests,
           NEW index \in [Resources -> Rows],
           \A res \in Resources : Backed(index[res], res),
           NEW res \in Resources
    PROVE  Backed(Merge(index, r, manifest[r])[res], res)
<1>1. r \in Runs /\ manifest[r] \in [Resources -> Entries]
  BY DEF Manifests, TypeOK
<1>2. manifest[r][res].status = "ok" =>
        manifest[r][res] = [status |-> "ok", body |-> manifest[r][res].body,
                            at |-> manifest[r][res].at]
  BY <1>1 DEF Entries, Unrecorded
<1> DEFINE m == Merge(index, r, manifest[r])
<1>3. \/ m[res] = index[res]
      \/ /\ manifest[r][res].status = "ok"
         /\ m[res] = [body |-> manifest[r][res].body,
                      at |-> manifest[r][res].at, run |-> r]
  BY <1>1, MergeRow
<1> HIDE DEF m
<1>4. Backed(m[res], res)
  BY <1>2, <1>3 DEF Backed
<1>5. QED BY <1>4 DEF m

LEMMA AllBackedHolds == Spec => []AllBacked
<1>1. Init => AllBacked
  <2> SUFFICES ASSUME Init PROVE AllBacked
    OBVIOUS
  <2>1. \A res \in Resources : Backed(latest[res], res)
    BY DEF Init, Backed, EmptyIndex, NoRow
  <2>2. \A p \in Processes : pc[p] # "merging"
    BY DEF Init
  <2>3. QED BY <2>1, <2>2 DEF AllBacked
<1>2. TypeOK /\ TypeOK' /\ ManifestIsBuffer /\ AllBacked /\ [Next]_vars
      => AllBacked'
  <2> SUFFICES ASSUME TypeOK, TypeOK', ManifestIsBuffer, AllBacked, [Next]_vars
               PROVE  AllBacked'
    OBVIOUS
  <2> Runs \subseteq Processes /\ Rebuilder \in Processes /\ Rebuilder \notin Runs
    BY DEF Processes
  <2>a. ASSUME NEW row, NEW res \in Resources, Backed(row, res)
        PROVE  Backed(row, res)'
    BY <2>a, ManifestsStable, BackedStable
  <2>b. ASSUME UNCHANGED <<latest, view>>,
               \A p \in Processes : pc'[p] = "merging" => pc[p] = "merging"
        PROVE  AllBacked'
    BY <2>a, <2>b DEF AllBacked
  <2>1. ASSUME NEW r \in Runs, RunStep(r) PROVE AllBacked'
    <3>1. CASE FetchStep(r)
      <4>1. \A p \in Processes : pc'[p] = "merging" => pc[p] = "merging"
        BY <3>1, FetchFrame DEF TypeOK
      <4>2. QED BY <3>1, <4>1, <2>b, FetchFrame
    <3>2. CASE CloseManifest(r)
      BY <3>2, <2>b DEF CloseManifest, TypeOK
    <3>3. CASE BeginUpdate(r)
      <4>1. /\ latest' = latest
            /\ \A p \in Processes : pc'[p] = "merging" =>
                 \/ p = r /\ view'[p] = latest
                 \/ pc[p] = "merging" /\ view'[p] = view[p]
        BY <3>3 DEF BeginUpdate, TypeOK
      <4>2. QED BY <4>1, <2>a DEF AllBacked
    <3>4. CASE FinishUpdate(r)
      <4>1. manifest[r] = buffer[r] /\ r \in Manifests
        BY <3>4 DEF FinishUpdate, ManifestIsBuffer, Manifests, TypeOK
      <4>2. /\ view[r] \in [Resources -> Rows]
            /\ \A res \in Resources : Backed(view[r][res], res)
        BY <3>4 DEF FinishUpdate, AllBacked, TypeOK
      <4>3. \A res \in Resources : Backed(latest'[res], res)
        BY <3>4, <4>1, <4>2, MergeBacked DEF FinishUpdate
      <4>4. \A p \in Processes : pc'[p] = "merging" =>
               pc[p] = "merging" /\ view'[p] = view[p]
        BY <3>4 DEF FinishUpdate, TypeOK
      <4>5. QED BY <4>3, <4>4, <2>a DEF AllBacked
    <3>5. QED BY <2>1, <3>1, <3>2, <3>3, <3>4 DEF RunStep
  <2>2. CASE BeginRebuild
    <3>1. /\ latest' = latest
          /\ \A p \in Processes : pc'[p] = "merging" =>
               \/ p = Rebuilder /\ view'[p] = EmptyIndex
               \/ pc[p] = "merging" /\ view'[p] = view[p]
      BY <2>2 DEF BeginRebuild, TypeOK
    <3>2. \A res \in Resources : Backed(EmptyIndex[res], res)
      BY DEF Backed, EmptyIndex, NoRow
    <3>3. QED BY <3>1, <3>2, <2>a DEF AllBacked
  <2>3. ASSUME NEW r \in Runs, ReplayManifest(r) PROVE AllBacked'
    <3>1. /\ r \in Manifests
          /\ view[Rebuilder] \in [Resources -> Rows]
          /\ \A res \in Resources : Backed(view[Rebuilder][res], res)
      BY <2>3 DEF ReplayManifest, AllBacked, TypeOK
    <3>2. \A res \in Resources :
             Backed(Merge(view[Rebuilder], r, manifest[r])[res], res)
      BY <3>1, MergeBacked
    <3>3. /\ latest' = latest
          /\ \A p \in Processes : pc'[p] = "merging" =>
               \/ p = Rebuilder /\ view'[p] = Merge(view[Rebuilder], r, manifest[r])
               \/ pc[p] = "merging" /\ view'[p] = view[p]
      BY <2>3 DEF ReplayManifest, TypeOK
    <3>4. QED BY <3>2, <3>3, <2>a DEF AllBacked
  <2>4. CASE FinishRebuild
    BY <2>4, <2>a DEF FinishRebuild, AllBacked, TypeOK
  <2>5. ASSUME NEW p \in Processes, Crash(p) PROVE AllBacked'
    BY <2>5, <2>b DEF Crash, TypeOK
  <2>6. ASSUME NEW b \in Bodies, Damage(b) PROVE AllBacked'
    BY <2>6, <2>b DEF Damage
  <2>7. CASE Tick
    BY <2>7, <2>b DEF Tick
  <2>8. CASE UNCHANGED vars
    BY <2>8, <2>b DEF vars
  <2>9. QED BY <2>1, <2>2, <2>3, <2>4, <2>5, <2>6, <2>7, <2>8
            DEF Next, RebuildStep
<1>3. QED BY <1>1, <1>2, TypeCorrect, ManifestIsBufferHolds, PTL DEF Spec

\* The index can be rebuilt: every row is the record of an ok fetch in the
\* manifest it names, through overlapping closes, crashes and rebuilds.
THEOREM IndexIsBacked == Spec => []IndexBacked
<1>1. TypeOK /\ AllBacked => IndexBacked
  BY DEF AllBacked, Backed, IndexBacked, HasRow
<1>2. QED BY <1>1, TypeCorrect, AllBackedHolds, PTL

-----------------------------------------------------------------------------
(* The index only advances.                                                 *)

Covers(new, old) == new.run # Nobody /\ new.at >= old.at

\* What a flock holder is about to write covers what is there: a closing run
\* holds the current index, a rebuild has replayed or still has to replay the
\* manifest behind every row.
Current ==
    /\ \A r \in Runs : pc[r] = "merging" => view[r] = latest
    /\ pc[Rebuilder] = "merging" =>
         \A res \in Resources : HasRow(latest, res) =>
             \/ latest[res].run \in queue
             \/ Covers(view[Rebuilder][res], latest[res])

\* Only the holder of the flock writes the index.
LEMMA IndexWriters ==
    ASSUME TypeOK, TypeOK', [Next]_vars
    PROVE  \/ UNCHANGED latest
           \/ \E r \in Runs : FinishUpdate(r)
           \/ FinishRebuild
<1>1. ASSUME NEW r \in Runs, FetchStep(r) PROVE latest' = latest
  BY <1>1, FetchFrame
<1>2. QED
  BY <1>1 DEF Next, RunStep, CloseManifest, BeginUpdate, RebuildStep,
     BeginRebuild, ReplayManifest, Crash, Damage, Tick, vars

LEMMA CurrentHolds == Spec => []Current
<1>1. Init => Current
  BY DEF Init, Current, Processes
<1>2. /\ TypeOK /\ TypeOK' /\ Flock /\ Flock' /\ AllBacked /\ Current
      /\ [Next]_vars
      => Current'
  <2> SUFFICES ASSUME TypeOK, TypeOK', Flock, Flock', AllBacked, Current,
                      [Next]_vars
               PROVE  Current'
    OBVIOUS
  <2> Runs \subseteq Processes /\ Rebuilder \in Processes /\ Rebuilder \notin Runs
      /\ Nobody \notin Processes
    BY DEF Processes
  <2>a. ASSUME UNCHANGED <<latest, view, queue>>,
               \A p \in Processes : pc'[p] = "merging" => pc[p] = "merging"
        PROVE  Current'
    BY <2>a DEF Current, HasRow
  <2>1. ASSUME NEW r \in Runs, RunStep(r) PROVE Current'
    <3>1. CASE FetchStep(r)
      <4>1. \A p \in Processes : pc'[p] = "merging" => pc[p] = "merging"
        BY <3>1, FetchFrame DEF TypeOK
      <4>2. QED BY <3>1, <4>1, <2>a, FetchFrame
    <3>2. CASE CloseManifest(r)
      BY <3>2, <2>a DEF CloseManifest, TypeOK
    <3>3. CASE BeginUpdate(r)
      <4>1. \A p \in Processes : pc'[p] = "merging" => p = r
        BY <3>3 DEF BeginUpdate, Flock
      <4>2. view'[r] = latest'
        BY <3>3 DEF BeginUpdate, TypeOK
      <4>3. QED BY <4>1, <4>2 DEF Current
    <3>4. CASE FinishUpdate(r)
      <4>1. \A p \in Processes : pc'[p] # "merging"
        BY <3>4 DEF FinishUpdate, Flock
      <4>2. QED BY <4>1 DEF Current
    <3>5. QED BY <2>1, <3>1, <3>2, <3>3, <3>4 DEF RunStep
  <2>2. CASE BeginRebuild
    <3>1. \A p \in Processes : pc'[p] = "merging" => p = Rebuilder
      BY <2>2 DEF BeginRebuild, Flock
    <3>2. \A res \in Resources : HasRow(latest, res) => latest[res].run \in Manifests
      BY DEF AllBacked, Backed, HasRow
    <3>3. QED BY <2>2, <3>1, <3>2 DEF BeginRebuild, Current, HasRow
  <2>3. ASSUME NEW r \in Runs, ReplayManifest(r) PROVE Current'
    <3>1. /\ pc[Rebuilder] = "merging" /\ r \in Manifests
          /\ manifest[r] \in [Resources -> Entries]
          /\ view[Rebuilder] \in [Resources -> Rows]
          /\ UNCHANGED <<pc, latest>>
          /\ queue' = queue \ {r}
          /\ view'[Rebuilder] = Merge(view[Rebuilder], r, manifest[r])
      BY <2>3 DEF ReplayManifest, TypeOK, Manifests
    <3>2. \A q \in Runs : pc[q] # "merging"
      BY <3>1 DEF Flock
    <3>3. ASSUME NEW res \in Resources, HasRow(latest, res)
          PROVE  \/ latest[res].run \in queue'
                 \/ Covers(view'[Rebuilder][res], latest[res])
      <4>1. latest[res].at \in Nat /\ view[Rebuilder][res].at \in Nat
            /\ view'[Rebuilder][res].at \in Nat
        BY <3>1 DEF TypeOK, Rows, NoRow, Times
      <4> DEFINE new == view'[Rebuilder]
                 old == view[Rebuilder]
      <4>a. /\ HasRow(old, res) => HasRow(new, res) /\ new[res].at >= old[res].at
            /\ manifest[r][res].status = "ok" =>
                  HasRow(new, res) /\ new[res].at >= manifest[r][res].at
        <5>1. /\ old \in [Resources -> Rows]
              /\ manifest[r] \in [Resources -> Entries]
              /\ new = Merge(old, r, manifest[r])
          BY <3>1
        <5> HIDE DEF new, old
        <5>2. QED BY ONLY <5>1, MergeRow, r \in Runs, res \in Resources
      <4>2. CASE latest[res].run = r
        <5>1. manifest[r][res].status = "ok" /\ manifest[r][res].at = latest[res].at
          <6>1. Backed(latest[res], res)
            BY DEF AllBacked
          <6>2. QED BY <6>1, <4>2, <3>3 DEF Backed, HasRow
        <5>2. /\ HasRow(view'[Rebuilder], res)
              /\ view'[Rebuilder][res].at >= manifest[r][res].at
          BY ONLY <5>1, <4>a, r \in Runs
        <5>3. QED BY <5>1, <5>2 DEF Covers, HasRow
      <4>3. CASE latest[res].run # r /\ latest[res].run \in queue
        BY <4>3, <3>1
      <4>4. CASE Covers(view[Rebuilder][res], latest[res])
        <5>1. HasRow(view[Rebuilder], res) =>
                 /\ HasRow(view'[Rebuilder], res)
                 /\ view'[Rebuilder][res].at >= view[Rebuilder][res].at
          BY ONLY <4>a
        <5>2. QED BY <5>1, <4>4, <4>1 DEF Covers, HasRow
      <4>5. QED BY <3>1, <3>3, <4>2, <4>3, <4>4 DEF Current
    <3>4. QED BY <3>1, <3>2, <3>3 DEF Current, HasRow
  <2>4. CASE FinishRebuild
    <3>1. \A p \in Processes : pc'[p] # "merging"
      BY <2>4 DEF FinishRebuild, Flock
    <3>2. QED BY <3>1 DEF Current
  <2>5. ASSUME NEW p \in Processes, Crash(p) PROVE Current'
    BY <2>5, <2>a DEF Crash, TypeOK
  <2>6. ASSUME NEW b \in Bodies, Damage(b) PROVE Current'
    BY <2>6, <2>a DEF Damage
  <2>7. CASE Tick
    BY <2>7, <2>a DEF Tick
  <2>8. CASE UNCHANGED vars
    BY <2>8, <2>a DEF vars
  <2>9. QED BY <2>1, <2>2, <2>3, <2>4, <2>5, <2>6, <2>7, <2>8
            DEF Next, RebuildStep
<1>3. QED BY <1>1, <1>2, TypeCorrect, FlockHolds, AllBackedHolds, PTL DEF Spec

\* One step never drops a row or replaces it by an older fetch.
LEMMA StepCovers ==
    ASSUME TypeOK, TypeOK', Current, [Next]_vars, NEW res \in Resources
    PROVE  NoRegression(res)
<1>1. CASE UNCHANGED latest
  <2>1. latest[res].at \in Nat
    BY DEF TypeOK, Rows, NoRow, Times
  <2>2. QED BY <1>1, <2>1 DEF NoRegression, HasRow
<1>2. ASSUME NEW r \in Runs, FinishUpdate(r) PROVE NoRegression(res)
  <2>1. /\ view[r] = latest /\ latest \in [Resources -> Rows]
        /\ buffer[r] \in [Resources -> Entries]
        /\ latest' = Merge(latest, r, buffer[r])
    BY <1>2 DEF FinishUpdate, Current, TypeOK
  <2>2. HasRow(latest, res) =>
           HasRow(latest', res) /\ latest'[res].at >= latest[res].at
    BY ONLY <2>1, MergeRow, r \in Runs, res \in Resources
  <2>3. QED BY <2>2 DEF NoRegression
<1>3. CASE FinishRebuild
  <2>1. /\ latest' = view[Rebuilder]
        /\ HasRow(latest, res) => Covers(view[Rebuilder][res], latest[res])
    BY <1>3 DEF FinishRebuild, Current
  <2>2. QED BY <2>1 DEF Covers, NoRegression, HasRow
<1>4. QED BY <1>1, <1>2, <1>3, IndexWriters

\* The index never regresses, whoever closes late and whenever it is rebuilt.
THEOREM IndexAdvances == Spec => IndexNeverRegresses
<1>1. TypeOK /\ TypeOK' /\ Current /\ [Next]_vars
      => [\A res \in Resources : NoRegression(res)]_vars
  BY StepCovers
<1>2. QED BY <1>1, TypeCorrect, CurrentHolds, PTL DEF Spec, IndexNeverRegresses

\* A run whose close() returned is in the index and stays there.
THEOREM ClosedRunsAreIndexed == Spec => []ClosedRunsIndexed
<1>1. Init => ClosedRunsIndexed
  BY DEF Init, ClosedRunsIndexed, Processes
<1>2. /\ TypeOK /\ TypeOK' /\ Current /\ ManifestIsBuffer /\ ClosedRunsIndexed
      /\ [Next]_vars
      => ClosedRunsIndexed'
  <2> SUFFICES ASSUME TypeOK, TypeOK', Current, ManifestIsBuffer,
                      ClosedRunsIndexed, [Next]_vars,
                      NEW r \in Runs, pc'[r] = "closed",
                      NEW res \in Resources, buffer'[r][res].status = "ok"
               PROVE  HasRow(latest', res) /\ latest'[res].at >= buffer'[r][res].at
    BY DEF ClosedRunsIndexed, HasRow
  <2> r \in Processes /\ Rebuilder \notin Runs
    BY DEF Processes
  <2>1. /\ latest[res].at \in Nat /\ latest'[res].at \in Nat
        /\ buffer[r][res].at \in Nat
    BY DEF TypeOK, Rows, NoRow, Entries, Unrecorded, Times
  <2>2. CASE pc[r] = "closed" /\ buffer'[r] = buffer[r]
    <3>1. HasRow(latest, res) /\ latest[res].at >= buffer[r][res].at
      BY <2>2 DEF ClosedRunsIndexed
    <3>2. NoRegression(res)
      BY StepCovers
    <3>3. QED BY <2>1, <2>2, <3>1, <3>2 DEF NoRegression
  <2>3. CASE FinishUpdate(r)
    <3>1. /\ view[r] \in [Resources -> Rows] /\ buffer[r] \in [Resources -> Entries]
          /\ latest' = Merge(view[r], r, buffer[r])
          /\ buffer'[r] = buffer[r]
      BY <2>3 DEF FinishUpdate, TypeOK
    <3>2. buffer[r][res].status = "ok" =>
             HasRow(latest', res) /\ latest'[res].at >= buffer[r][res].at
      BY ONLY <3>1, MergeRow, r \in Runs, res \in Resources
    <3>3. QED BY <3>1, <3>2
  <2>4. ~FinishUpdate(r) => pc[r] = "closed" /\ buffer'[r] = buffer[r]
    <3>1. ASSUME NEW q \in Runs, FetchStep(q)
          PROVE  pc[r] = "closed" /\ buffer'[r] = buffer[r]
      BY <3>1, FetchFrame DEF TypeOK
    <3>2. QED
      BY <3>1 DEF Next, RunStep, CloseManifest, BeginUpdate, FinishUpdate,
         RebuildStep, BeginRebuild, ReplayManifest, FinishRebuild, Crash, Damage,
         Tick, vars, TypeOK, Processes
  <2>5. QED BY <2>2, <2>3, <2>4
<1>3. QED BY <1>1, <1>2, TypeCorrect, CurrentHolds, ManifestIsBufferHolds, PTL
          DEF Spec

-----------------------------------------------------------------------------
(* The objects.                                                             *)

\* A put is the only step that writes an object besides damage: which process
\* is storing which body, before and after a step.
LEMMA ObjectWriters ==
    ASSUME TypeOK, TypeOK', Next, NEW b \in Bodies
    PROVE  /\ \/ object'[b] = object[b]
              \/ \E r \in Runs : /\ pc[r] = "storing" /\ fetching[r].body = b
                                 /\ object'[b] = "intact"
              \/ object[b] = "intact" /\ b \in damaged'
           /\ PutInFlight(b)' => PutInFlight(b) \/ object[b] = "absent"
           /\ damaged \subseteq damaged'
<1>0. Runs \subseteq Processes /\ Rebuilder \in Processes /\ Rebuilder \notin Runs
  BY DEF Processes
<1> DEFINE Goal ==
      /\ \/ object'[b] = object[b]
         \/ \E r \in Runs : /\ pc[r] = "storing" /\ fetching[r].body = b
                            /\ object'[b] = "intact"
         \/ object[b] = "intact" /\ b \in damaged'
      /\ PutInFlight(b)' => PutInFlight(b) \/ object[b] = "absent"
      /\ damaged \subseteq damaged'
<1>1. ASSUME NEW r \in Runs, FetchNewBody(r, b) PROVE Goal
  BY <1>1, <1>0 DEF FetchNewBody, AlreadyStored, PutInFlight, TypeOK
<1>2. ASSUME NEW r \in Runs, NEW c \in Bodies, c # b, FetchNewBody(r, c) PROVE Goal
  BY <1>2, <1>0 DEF FetchNewBody, PutInFlight, TypeOK
<1>3. ASSUME NEW r \in Runs, StoreObject(r) PROVE Goal
  <2>1. \/ object'[b] = object[b]
        \/ pc[r] = "storing" /\ fetching[r].body = b /\ object'[b] = "intact"
    BY <1>3 DEF StoreObject, Renamed, TypeOK
  <2>2. PutInFlight(b)' => PutInFlight(b)
    BY <1>3, <1>0 DEF StoreObject, PutInFlight, TypeOK
  <2>3. damaged' = damaged
    BY <1>3 DEF StoreObject
  <2>4. QED BY <2>1, <2>2, <2>3
<1>4. ASSUME NEW c \in Bodies, Damage(c) PROVE Goal
  BY <1>4 DEF Damage, PutInFlight, TypeOK
<1>5. ASSUME UNCHANGED <<object, damaged>>,
             \A r \in Runs : pc'[r] = "storing" =>
                pc[r] = "storing" /\ fetching'[r] = fetching[r]
      PROVE  Goal
  BY <1>5 DEF PutInFlight
<1>6. ASSUME NEW r \in Runs,
             \/ OpenRun(r) \/ FetchFails(r) \/ FetchAborts(r)
             \/ \E res \in Resources : SkipFresh(r, res) \/ BeginFetch(r, res)
             \/ \E c \in Bodies : FetchUnchanged(r, c)
             \/ CloseManifest(r) \/ BeginUpdate(r) \/ FinishUpdate(r)
      PROVE  Goal
  <2>1. UNCHANGED <<object, damaged>>
    BY <1>6 DEF OpenRun, FetchFails, FetchAborts, SkipFresh, BeginFetch,
       FetchUnchanged, CloseManifest, BeginUpdate, FinishUpdate
  <2>2. \A q \in Runs : pc'[q] = "storing" =>
           pc[q] = "storing" /\ fetching'[q] = fetching[q]
    BY <1>6, <1>0 DEF OpenRun, FetchFails, FetchAborts, SkipFresh, BeginFetch,
       FetchUnchanged, CloseManifest, BeginUpdate, FinishUpdate, TypeOK
  <2>3. QED BY <1>5, <2>1, <2>2
<1>7. ASSUME RebuildStep \/ (\E p \in Processes : Crash(p)) \/ Tick PROVE Goal
  <2>1. UNCHANGED <<object, damaged, fetching>>
    BY <1>7 DEF RebuildStep, BeginRebuild, ReplayManifest, FinishRebuild, Crash, Tick
  <2>2. \A q \in Runs : pc'[q] = "storing" => pc[q] = "storing"
    BY <1>7, <1>0 DEF RebuildStep, BeginRebuild, ReplayManifest, FinishRebuild,
       Crash, Tick, TypeOK
  <2>3. QED BY <1>5, <2>1, <2>2
<1>8. QED BY <1>1, <1>2, <1>3, <1>4, <1>6, <1>7 DEF Next, RunStep, FetchStep

\* A corrupted object is never laundered by a later genuine re-fetch.
THEOREM TamperStays == Spec => TamperNeverLaunders
<1>1. TypeOK /\ TypeOK' /\ [Next]_vars
      => [\A b \in Bodies : Tampered(b) => Tampered(b)']_vars
  <2> SUFFICES ASSUME TypeOK, TypeOK', Next, NEW b \in Bodies, Tampered(b)
               PROVE  Tampered(b)'
    OBVIOUS
  <2>1. object[b] = "corrupt" /\ ~PutInFlight(b)
    BY DEF Tampered
  <2>2. object'[b] = "corrupt"
    BY <2>1, ObjectWriters DEF PutInFlight
  <2>3. ~PutInFlight(b)'
    BY <2>1, ObjectWriters
  <2>4. QED BY <2>2, <2>3 DEF Tampered
<1>2. QED BY <1>1, TypeCorrect, PTL DEF Spec, TamperNeverLaunders

\* No entry of a run, in memory or in its manifest, names a body before its
\* file is there: a file that is not intact has been damaged since.
StoredBodies == {b \in Bodies : object[b] = "intact" \/ b \in damaged}
StoredBeforeNamed ==
    /\ \A b \in Bodies : object[b] = "corrupt" => b \in damaged
    /\ \A r \in Runs : \A res \in Resources :
          buffer[r][res].body \in Bodies => buffer[r][res].body \in StoredBodies

\* Once stored, a body is intact or counted as damaged.
LEMMA StoredStays ==
    ASSUME TypeOK, TypeOK', [Next]_vars, NEW b \in StoredBodies
    PROVE  b \in StoredBodies'
<1>1. CASE Next
  BY <1>1, ObjectWriters DEF StoredBodies
<1>2. CASE UNCHANGED vars
  BY <1>2 DEF vars, StoredBodies
<1>3. QED BY <1>1, <1>2

LEMMA StoredBeforeNamedHolds == Spec => []StoredBeforeNamed
<1>1. Init => StoredBeforeNamed
  BY DEF Init, StoredBeforeNamed, Unrecorded
<1>2. TypeOK /\ TypeOK' /\ StoredBeforeNamed /\ [Next]_vars => StoredBeforeNamed'
  <2> SUFFICES ASSUME TypeOK, TypeOK', StoredBeforeNamed, [Next]_vars
               PROVE  StoredBeforeNamed'
    OBVIOUS
  <2>1. \A b \in Bodies : object'[b] = "corrupt" => b \in damaged'
    <3>1. CASE Next
      <4> SUFFICES ASSUME NEW b \in Bodies, object'[b] = "corrupt"
                   PROVE  b \in damaged'
        OBVIOUS
      <4>1. QED BY <3>1, ObjectWriters DEF StoredBeforeNamed
    <3>2. CASE UNCHANGED vars
      BY <3>2 DEF vars, StoredBeforeNamed
    <3>3. QED BY <3>1, <3>2
  <2>2. ASSUME NEW r \in Runs, NEW res \in Resources,
               buffer'[r][res] = buffer[r][res], buffer'[r][res].body \in Bodies
        PROVE  buffer'[r][res].body \in StoredBodies'
    BY <2>2, StoredStays DEF StoredBeforeNamed
  <2>3. ASSUME NEW r \in Runs, NEW res, NEW entry, Record(r, res, entry),
               entry.body \in Bodies => entry.body \in StoredBodies',
               NEW q \in Runs, NEW x \in Resources, buffer'[q][x].body \in Bodies
        PROVE  buffer'[q][x].body \in StoredBodies'
    <3>1. buffer'[q][x] = buffer[q][x] \/ buffer'[q][x] = entry
      BY <2>3 DEF Record, TypeOK
    <3>2. QED BY <3>1, <2>2, <2>3
  <2>4. ASSUME NEW r \in Runs, FetchStep(r),
               NEW q \in Runs, NEW x \in Resources, buffer'[q][x].body \in Bodies
        PROVE  buffer'[q][x].body \in StoredBodies'
    <3>1. ASSUME NEW res \in Resources, SkipFresh(r, res)
          PROVE  buffer'[q][x].body \in StoredBodies'
      BY <3>1, <2>3, <2>4 DEF SkipFresh
    <3>2. CASE FetchFails(r)
      BY <3>2, <2>3, <2>4 DEF FetchFails
    <3>3. ASSUME NEW b \in Bodies, FetchUnchanged(r, b)
          PROVE  buffer'[q][x].body \in StoredBodies'
      <4>1. b \in StoredBodies /\ UNCHANGED <<object, damaged>>
        BY <3>3 DEF FetchUnchanged, AlreadyStored, StoredBodies, StoredBeforeNamed, TypeOK
      <4>2. b \in StoredBodies'
        BY <4>1 DEF StoredBodies
      <4>3. QED BY <3>3, <4>2, <2>3, <2>4 DEF FetchUnchanged
    <3>4. CASE StoreObject(r)
      <4>1. fetching[r].body \in Bodies => fetching[r].body \in StoredBodies'
        BY <3>4 DEF StoreObject, Renamed, StoredBodies, TypeOK
      <4>2. QED BY <3>4, <4>1, <2>3, <2>4 DEF StoreObject
    <3>5. CASE buffer' = buffer
      BY <3>5, <2>2, <2>4
    <3>6. QED BY <2>4, <3>1, <3>2, <3>3, <3>4, <3>5 DEF FetchStep, OpenRun,
              BeginFetch, FetchAborts, FetchNewBody
  <2>5. \A r \in Runs : \A res \in Resources :
          buffer'[r][res].body \in Bodies => buffer'[r][res].body \in StoredBodies'
    <3>1. CASE \E r \in Runs : FetchStep(r)
      BY <3>1, <2>4
    <3>2. CASE buffer' = buffer
      BY <3>2, <2>2
    <3>3. QED BY <3>1, <3>2 DEF Next, RunStep, CloseManifest, BeginUpdate,
              FinishUpdate, RebuildStep, BeginRebuild, ReplayManifest,
              FinishRebuild, Crash, Damage, Tick, vars
  <2>6. QED BY <2>1, <2>5 DEF StoredBeforeNamed, StoredBodies
<1>3. QED BY <1>1, <1>2, TypeCorrect, PTL DEF Spec

-----------------------------------------------------------------------------
(* Backups and sweeps only read the store.                                  *)

LEMMA MirrorReadsStore ==
    ASSUME MirrorStep PROVE UNCHANGED vars
<1>1. ASSUME NEW n \in Backups, BackupStep(n) PROVE UNCHANGED vars
  BY <1>1 DEF BackupStep, StartBackup, PreflightFails, ListManifests, ListOthers,
     ListBucket, HashObject, UploadObject, UploadManifest, RawHalfRaises,
     AllShipped, CheckIn, BackupDies
<1>2. QED BY <1>1 DEF MirrorStep, FetchObjects, FetchManifests

LEMMA SweepReadsStore ==
    ASSUME SweepStep PROVE UNCHANGED vars
BY DEF SweepStep, Sweeping, StartSweep, VerifyObject, ExhaustBudget, EndPass, Wrap,
   BeginStore, FinishStore, SkipStore, Report, SweepDies

\* A store that is backed up and swept is a raw store: every behaviour of the
\* composition is one of RawStore, so its theorems hold of it too.
THEOREM CareIsStore == CareSpec => Spec
<1>1. CareInit => Init
  BY DEF CareInit
<1>2. [CareNext]_careVars => [Next]_vars
  BY MirrorReadsStore, SweepReadsStore DEF CareNext, careVars
<1>3. QED BY <1>1, <1>2, PTL DEF CareSpec, Spec

-----------------------------------------------------------------------------
(* What every body a manifest names was.                                    *)

\* The facts about the store that its readers rely on.
StoreFacts == TypeOK /\ ManifestIsBuffer /\ StoredBeforeNamed

LEMMA StoreFactsHold == CareSpec => []StoreFacts
<1>1. Spec => []StoreFacts
  BY TypeCorrect, ManifestIsBufferHolds, StoredBeforeNamedHolds, PTL DEF StoreFacts
<1>2. QED BY <1>1, CareIsStore, PTL

\* A body that a manifest on disk names is intact or was damaged.
LEMMA NamedIsStored ==
    ASSUME StoreFacts, NEW r \in Manifests, NEW b \in Named(r)
    PROVE  b \in StoredBodies
<1>1. r \in Runs /\ manifest[r] = buffer[r]
  BY DEF Manifests, StoreFacts, ManifestIsBuffer
<1>2. PICK res \in Resources : b = manifest[r][res].body /\ b # NoBody
  BY DEF Named
<1>3. buffer[r][res] \in Entries
  BY <1>1 DEF StoreFacts, TypeOK
<1>4. b \in Bodies
  BY <1>1, <1>2, <1>3 DEF Entries, Unrecorded
<1>5. QED BY <1>1, <1>2, <1>4 DEF StoreFacts, StoredBeforeNamed

\* A manifest stays, and so does what it names.
LEMMA ManifestsStay ==
    ASSUME StoreFacts, StoreFacts', [CareNext]_careVars
    PROVE  /\ Manifests \subseteq Manifests'
           /\ \A r \in Manifests : Named(r)' = Named(r)
           /\ damaged \subseteq damaged'
<1>1. [Next]_vars
  BY MirrorReadsStore, SweepReadsStore DEF CareNext, careVars
<1>2. \A r \in Manifests : manifest'[r] = manifest[r]
  BY <1>1, ManifestsStable DEF StoreFacts
<1>3. Manifests \subseteq Manifests'
  BY <1>2 DEF Manifests
<1>4. \A r \in Manifests : Named(r)' = Named(r)
  BY <1>2 DEF Named
<1>5. damaged \subseteq damaged'
  BY <1>1 DEF Next, RunStep, FetchStep, OpenRun, SkipFresh, BeginFetch, FetchFails,
     FetchAborts, FetchUnchanged, FetchNewBody, StoreObject, CloseManifest,
     BeginUpdate, FinishUpdate, RebuildStep, BeginRebuild, ReplayManifest,
     FinishRebuild, Crash, Damage, Tick, vars
<1>6. QED BY <1>3, <1>4, <1>5

-----------------------------------------------------------------------------
(* The bucket.                                                              *)

Steps == {"idle", "scanning", "listing", "comparing", "shipping", "reporting"}

MirrorTypeOK ==
    /\ bucket \in [Bodies -> {"absent", "intact", "corrupt"}]
    /\ bucketRuns \in SUBSET Runs
    /\ step \in [Backups -> Steps]
    /\ dry \in [Backups -> BOOLEAN] /\ dumped \in [Backups -> BOOLEAN]
    /\ raised \in [Backups -> BOOLEAN]
    /\ started \in [Backups -> SUBSET Runs]
    /\ listedRuns \in [Backups -> SUBSET Runs]
    /\ runsToShip \in [Backups -> SUBSET Runs]
    /\ listed \in [Backups -> SUBSET Bodies]
    /\ toShip \in [Backups -> SUBSET Bodies]
    /\ mismatched \in [Backups -> SUBSET Bodies]
    /\ hashed \in [Backups -> Bodies \cup {NoBody}]
    /\ reported \in [Backups -> {"nothing", "ok", "alert"}]
    /\ fetch \in {"idle", "manifests", "refused", "restored"}
    /\ fetched \in SUBSET Bodies
    /\ fetchedRuns \in SUBSET Runs
    /\ quiet \in BOOLEAN

LEMMA MirrorTypes == CareSpec => []MirrorTypeOK
<1>1. CareInit => MirrorTypeOK
  BY DEF CareInit, MirrorInit, MirrorTypeOK, Steps
<1>2. StoreFacts /\ MirrorTypeOK /\ [CareNext]_careVars => MirrorTypeOK'
  <2> SUFFICES ASSUME StoreFacts, MirrorTypeOK, [CareNext]_careVars
               PROVE  MirrorTypeOK'
    OBVIOUS
  <2>1. object \in [Bodies -> {"absent", "intact", "corrupt"}] /\ NoBody \notin Bodies
        /\ Manifests \subseteq Runs
    BY SentinelsAreNew DEF StoreFacts, TypeOK, Manifests
  <2>2. ASSUME NEW n \in Backups,
               StartBackup(n) \/ PreflightFails(n) \/ ListManifests(n)
               \/ ListOthers(n) \/ ListBucket(n)
        PROVE  MirrorTypeOK'
    <3>1. CASE StartBackup(n)
      <4>1. /\ step' \in [Backups -> Steps]
            /\ dry' \in [Backups -> BOOLEAN] /\ dumped' \in [Backups -> BOOLEAN]
        BY <3>1 DEF StartBackup, ToStep, MirrorTypeOK, Steps
      <4>2. /\ started' \in [Backups -> SUBSET Runs]
            /\ reported' \in [Backups -> {"nothing", "ok", "alert"}]
            /\ quiet' \in BOOLEAN
        BY <2>1, <3>1 DEF StartBackup, MirrorTypeOK
      <4>3. UNCHANGED <<bucket, bucketRuns, raised, listedRuns, runsToShip, listed,
                        toShip, mismatched, hashed, fetch, fetched, fetchedRuns>>
        BY <3>1 DEF StartBackup
      <4>4. QED BY <4>1, <4>2, <4>3 DEF MirrorTypeOK
    <3>2. CASE PreflightFails(n)
      BY <3>2 DEF PreflightFails, ToStep, MirrorTypeOK, Steps, restoreVars
    <3>3. CASE ListManifests(n)
      BY <2>1, <3>3 DEF ListManifests, ToStep, MirrorTypeOK, Steps, restoreVars
    <3>4. CASE ListOthers(n)
      BY <3>4 DEF ListOthers, OnDisk, ToStep, MirrorTypeOK, Steps, restoreVars
    <3>5. CASE ListBucket(n)
      BY <3>5 DEF ListBucket, ToStep, MirrorTypeOK, Steps, restoreVars
    <3>6. QED BY <2>2, <3>1, <3>2, <3>3, <3>4, <3>5
  <2>3. ASSUME NEW n \in Backups, NEW b \in Bodies, HashObject(n, b)
        PROVE  MirrorTypeOK'
    BY <2>3 DEF HashObject, MirrorTypeOK, restoreVars
  <2>4. ASSUME NEW n \in Backups, UploadObject(n) PROVE MirrorTypeOK'
    <3>1. hashed[n] \in Bodies
      BY <2>4 DEF UploadObject, MirrorTypeOK
    <3>2. bucket' \in [Bodies -> {"absent", "intact", "corrupt"}]
      BY <2>1, <2>4, <3>1 DEF UploadObject, Created, MirrorTypeOK
    <3>3. QED BY <2>4, <3>1, <3>2 DEF UploadObject, MirrorTypeOK, restoreVars
  <2>5. ASSUME NEW n \in Backups,
               (\E r \in Runs : UploadManifest(n, r)) \/ RawHalfRaises(n)
               \/ AllShipped(n)
        PROVE  MirrorTypeOK'
    <3>1. ASSUME NEW r \in Runs, UploadManifest(n, r) PROVE MirrorTypeOK'
      BY <3>1 DEF UploadManifest, MirrorTypeOK, restoreVars
    <3>2. CASE RawHalfRaises(n)
      BY <3>2 DEF RawHalfRaises, ToStep, MirrorTypeOK, Steps, restoreVars
    <3>3. CASE AllShipped(n)
      BY <3>3 DEF AllShipped, ToStep, MirrorTypeOK, Steps, restoreVars, backupVars
    <3>4. QED BY <2>5, <3>1, <3>2, <3>3
  <2>6. ASSUME NEW n \in Backups, CheckIn(n) \/ BackupDies(n) PROVE MirrorTypeOK'
    <3>1. UNCHANGED <<bucket, bucketRuns, restoreVars>> /\ Forget(n)
      BY <2>6 DEF CheckIn, BackupDies
    <3>2. step' \in [Backups -> Steps]
      BY <2>6 DEF CheckIn, BackupDies, ToStep, MirrorTypeOK, Steps
    <3>3. reported' \in [Backups -> {"nothing", "ok", "alert"}]
      BY <2>6 DEF CheckIn, BackupDies, MirrorTypeOK
    <3>4. QED BY <3>1, <3>2, <3>3 DEF Forget, MirrorTypeOK, restoreVars
  <2>7. CASE FetchObjects \/ FetchManifests
    BY <2>7 DEF FetchObjects, FetchManifests, MirrorTypeOK, backupVars
  <2>8. CASE UNCHANGED mirrorVars
    BY <2>8 DEF mirrorVars, MirrorTypeOK
  <2>9. QED BY <2>2, <2>3, <2>4, <2>5, <2>6, <2>7, <2>8
            DEF CareNext, MirrorStep, BackupStep, careVars
<1>3. QED BY <1>1, <1>2, StoreFactsHold, PTL DEF CareSpec

InBucket == {b \in Bodies : bucket[b] # "absent"}

\* Nothing in the bucket is replaced or deleted.
BucketGrows ==
    /\ \A b \in InBucket : bucket'[b] = bucket[b]
    /\ bucketRuns \subseteq bucketRuns'

LEMMA BucketOnlyGrows ==
    ASSUME MirrorTypeOK, [CareNext]_careVars
    PROVE  BucketGrows
<1>1. ASSUME NEW n \in Backups, UploadObject(n) PROVE BucketGrows
  BY <1>1 DEF UploadObject, Created, BucketGrows, InBucket, MirrorTypeOK
<1>2. ASSUME NEW n \in Backups, NEW r \in Runs, UploadManifest(n, r)
      PROVE  BucketGrows
  BY <1>2 DEF UploadManifest, BucketGrows
<1>3. ASSUME UNCHANGED <<bucket, bucketRuns>> PROVE BucketGrows
  BY <1>3 DEF BucketGrows
<1>4. QED BY <1>1, <1>2, <1>3 DEF CareNext, MirrorStep, BackupStep, StartBackup,
     PreflightFails, ListManifests, ListOthers, ListBucket, HashObject,
     RawHalfRaises, AllShipped, CheckIn, BackupDies, FetchObjects,
     FetchManifests, careVars, mirrorVars

\* What a manifest promises a restore: what it names and nothing damaged.
Owed(r) == Named(r) \ damaged

Ending(n) == step[n] = "reporting" /\ ~raised[n]

\* A backup knows manifests that are on disk, and every object they name that
\* is not damaged is in the listing it makes after them; what it found is in
\* the bucket, still to ship, or refused.
BackupInv(n) ==
    /\ step[n] # "idle" => reported[n] = "nothing"
    /\ started[n] \subseteq Manifests /\ listedRuns[n] \subseteq Manifests
    /\ mismatched[n] \subseteq damaged
    /\ step[n] \in {"listing", "comparing", "shipping"} \/ Ending(n) =>
          started[n] \subseteq listedRuns[n]
    /\ step[n] \in {"comparing", "shipping"} =>
          \A r \in listedRuns[n] : Owed(r) \subseteq listed[n]
    /\ step[n] = "shipping" => runsToShip[n] \subseteq listedRuns[n]
    /\ (step[n] = "shipping" \/ Ending(n)) /\ ~dry[n] =>
          /\ listedRuns[n] \subseteq bucketRuns \cup runsToShip[n]
          /\ listed[n] \subseteq InBucket \cup toShip[n] \cup mismatched[n]
    /\ Ending(n) => toShip[n] = {} /\ runsToShip[n] = {}

\* No manifest is in the bucket before its objects.
ObjectsFirst ==
    /\ bucketRuns \subseteq Manifests
    /\ \A r \in bucketRuns : Owed(r) \subseteq InBucket

MirrorInv == ObjectsFirst /\ \A n \in Backups : BackupInv(n)

LEMMA NamedAreBodies ==
    ASSUME StoreFacts, NEW r \in Manifests
    PROVE  Named(r) \subseteq Bodies /\ Owed(r) \subseteq OnDisk
BY NamedIsStored DEF StoredBodies, Owed, OnDisk

\* A step of another process leaves what a backup knows true.
LEMMA OthersKeep ==
    ASSUME StoreFacts, StoreFacts', MirrorTypeOK, MirrorTypeOK',
           [CareNext]_careVars, NEW n \in Backups, BackupInv(n),
           step'[n] = step[n], dry'[n] = dry[n], raised'[n] = raised[n],
           started'[n] = started[n], listedRuns'[n] = listedRuns[n],
           listed'[n] = listed[n], toShip'[n] = toShip[n],
           runsToShip'[n] = runsToShip[n], mismatched'[n] = mismatched[n],
           reported'[n] = reported[n]
    PROVE  BackupInv(n)'
<1>1. /\ Manifests \subseteq Manifests' /\ damaged \subseteq damaged'
      /\ \A r \in Manifests : Owed(r)' \subseteq Owed(r)
  BY ManifestsStay DEF Owed
<1>2. InBucket \subseteq InBucket' /\ bucketRuns \subseteq bucketRuns'
  BY BucketOnlyGrows DEF BucketGrows, InBucket
<1>3. listedRuns[n] \subseteq Manifests
  BY DEF BackupInv
<1>4. step[n] \in {"comparing", "shipping"} =>
         \A r \in listedRuns[n] : Owed(r)' \subseteq listed[n]
  BY <1>1, <1>3 DEF BackupInv
<1>5. QED BY <1>1, <1>2, <1>4 DEF BackupInv, Ending

LEMMA MirrorHolds == CareSpec => []MirrorInv
<1>1. CareInit => MirrorInv
  BY DEF CareInit, MirrorInit, MirrorInv, ObjectsFirst, BackupInv, Ending
<1>2. /\ StoreFacts /\ StoreFacts' /\ MirrorTypeOK /\ MirrorTypeOK' /\ MirrorInv
      /\ [CareNext]_careVars
      => MirrorInv'
  <2> SUFFICES ASSUME StoreFacts, StoreFacts', MirrorTypeOK, MirrorTypeOK',
                      MirrorInv, [CareNext]_careVars
               PROVE  MirrorInv'
    OBVIOUS
  <2>a. /\ Manifests \subseteq Manifests' /\ damaged \subseteq damaged'
        /\ \A r \in Manifests : Owed(r)' \subseteq Owed(r)
    BY ManifestsStay DEF Owed
  <2>b. InBucket \subseteq InBucket' /\ bucketRuns \subseteq bucketRuns'
    BY BucketOnlyGrows DEF BucketGrows, InBucket
  <2>c. ASSUME bucketRuns' = bucketRuns PROVE ObjectsFirst'
    BY <2>a, <2>b, <2>c DEF MirrorInv, ObjectsFirst
  <2>1. ASSUME NEW n \in Backups, BackupStep(n)
        PROVE  ObjectsFirst' /\ BackupInv(n)'
    <3>a. /\ BackupInv(n) /\ UNCHANGED vars
          /\ Manifests' = Manifests /\ OnDisk' = OnDisk
          /\ \A r : Owed(r)' = Owed(r)
      <4>1. UNCHANGED vars
        BY <2>1, MirrorReadsStore DEF MirrorStep
      <4>2. QED BY <4>1 DEF MirrorInv, vars, Manifests, OnDisk, Owed, Named
    <3>b. damaged' = damaged
      BY <3>a DEF vars
    <3>1. CASE StartBackup(n)
      BY <2>c, <3>a, <3>b, <3>1 DEF StartBackup, ToStep, BackupInv, Ending,
         MirrorTypeOK
    <3>2. CASE PreflightFails(n)
      BY <2>c, <3>a, <3>b, <3>2 DEF PreflightFails, ToStep, BackupInv, Ending,
         MirrorTypeOK
    <3>3. CASE ListManifests(n)
      BY <2>c, <3>a, <3>b, <3>3 DEF ListManifests, ToStep, BackupInv, Ending,
         MirrorTypeOK
    <3>4. CASE ListOthers(n)
      <4>1. \A r \in listedRuns[n] : Owed(r) \subseteq OnDisk
        BY <3>a, NamedAreBodies DEF BackupInv
      <4>2. QED BY <2>c, <3>a, <3>b, <3>4, <4>1 DEF ListOthers, ToStep, BackupInv,
               Ending, MirrorTypeOK
    <3>5. CASE ListBucket(n)
      <4>1. listed[n] \subseteq InBucket \cup toShip'[n]
        BY <3>5 DEF ListBucket, InBucket, MirrorTypeOK
      <4>2. QED BY <2>b, <2>c, <3>a, <3>b, <3>5, <4>1 DEF ListBucket, ToStep,
               BackupInv, Ending, MirrorTypeOK
    <3>6. ASSUME NEW b \in Bodies, HashObject(n, b)
          PROVE  ObjectsFirst' /\ BackupInv(n)'
      <4>1. ~Matches(b) => b \in damaged
        BY <3>6 DEF HashObject, Matches, StoreFacts, StoredBeforeNamed, TypeOK
      <4>2. UNCHANGED <<step, dry, raised, started, listedRuns, listed, runsToShip,
                        reported, bucketRuns>>
        BY <3>6 DEF HashObject
      <4>3. /\ toShip'[n] \cup mismatched'[n] = toShip[n] \cup mismatched[n]
            /\ mismatched'[n] \subseteq damaged
            /\ step[n] = "shipping"
        BY <3>a, <3>6, <4>1 DEF HashObject, BackupInv, MirrorTypeOK
      <4>4. QED BY <2>b, <2>c, <3>a, <3>b, <4>2, <4>3 DEF BackupInv, Ending
    <3>7. CASE UploadObject(n)
      <4>1. /\ step[n] = "shipping" /\ toShip'[n] = toShip[n] \ {hashed[n]}
            /\ ~dry[n] => hashed[n] \in InBucket'
        BY <3>7 DEF UploadObject, Created, InBucket, MirrorTypeOK
      <4>2. UNCHANGED <<step, dry, raised, started, listedRuns, listed, runsToShip,
                        mismatched, reported, bucketRuns>>
        BY <3>7 DEF UploadObject
      <4>3. QED BY <2>b, <2>c, <3>a, <3>b, <4>1, <4>2 DEF BackupInv, Ending
    <3>8. ASSUME NEW r \in Runs, UploadManifest(n, r)
          PROVE  ObjectsFirst' /\ BackupInv(n)'
      <4>1. /\ step[n] = "shipping" /\ toShip[n] = {} /\ r \in runsToShip[n]
            /\ r \in listedRuns[n] /\ r \in Manifests
            /\ runsToShip'[n] = runsToShip[n] \ {r}
            /\ bucketRuns' = IF dry[n] THEN bucketRuns ELSE bucketRuns \cup {r}
        BY <3>a, <3>8 DEF UploadManifest, ObjectsShipped, BackupInv, MirrorTypeOK
      <4>2. UNCHANGED <<step, dry, raised, started, listedRuns, listed, toShip,
                        mismatched, reported, bucket>>
        BY <3>8 DEF UploadManifest
      <4>3. ~dry[n] => Owed(r) \subseteq InBucket
        BY <3>a, <4>1 DEF BackupInv, Owed
      <4>4. ObjectsFirst'
        <5>1. InBucket' = InBucket
          BY <4>2 DEF InBucket
        <5>2. QED BY <3>a, <4>1, <4>3, <5>1 DEF MirrorInv, ObjectsFirst
      <4>5. QED BY <2>b, <3>a, <3>b, <4>1, <4>2, <4>4 DEF BackupInv, Ending
    <3>9. CASE RawHalfRaises(n)
      BY <2>c, <3>a, <3>b, <3>9 DEF RawHalfRaises, ToStep, BackupInv, Ending,
         MirrorTypeOK
    <3>10. CASE AllShipped(n)
      BY <2>b, <2>c, <3>a, <3>b, <3>10 DEF AllShipped, ToStep, backupVars,
         BackupInv, Ending, MirrorTypeOK
    <3>11. CASE CheckIn(n) \/ BackupDies(n)
      BY <2>c, <3>a, <3>b, <3>11 DEF CheckIn, BackupDies, Forget, ToStep,
         BackupInv, Ending, MirrorTypeOK
    <3>12. QED BY <2>1, <3>1, <3>2, <3>3, <3>4, <3>5, <3>6, <3>7, <3>8, <3>9,
               <3>10, <3>11 DEF BackupStep
  <2>2. ASSUME NEW n \in Backups, BackupStep(n), NEW m \in Backups \ {n}
        PROVE  BackupInv(m)'
    <3>1. /\ step'[m] = step[m] /\ dry'[m] = dry[m] /\ raised'[m] = raised[m]
          /\ started'[m] = started[m] /\ listedRuns'[m] = listedRuns[m]
          /\ listed'[m] = listed[m] /\ toShip'[m] = toShip[m]
          /\ runsToShip'[m] = runsToShip[m] /\ mismatched'[m] = mismatched[m]
          /\ reported'[m] = reported[m]
      BY <2>2 DEF BackupStep, StartBackup, PreflightFails, ListManifests,
         ListOthers, ListBucket, HashObject, UploadObject, UploadManifest,
         RawHalfRaises, AllShipped, CheckIn, BackupDies, Forget, ToStep,
         backupVars, MirrorTypeOK
    <3>2. QED BY <3>1, OthersKeep DEF MirrorInv
  <2>3. CASE \E n \in Backups : BackupStep(n)
    BY <2>1, <2>2, <2>3 DEF MirrorInv
  <2>4. CASE UNCHANGED <<bucket, bucketRuns, step, backupVars>>
    BY <2>4, <2>c, OthersKeep DEF MirrorInv, backupVars
  <2>5. QED BY <2>3, <2>4 DEF CareNext, MirrorStep, FetchObjects, FetchManifests,
            careVars, mirrorVars, backupVars
<1>3. QED BY <1>1, <1>2, StoreFactsHold, MirrorTypes, PTL DEF CareSpec

\* "ok" reaches the monitor only when every manifest there was when the backup
\* began, and every object they name that its scan saw, is in the bucket.
THEOREM OkIsShipped == CareSpec => OkMeansShipped
<1>1. MirrorTypeOK /\ MirrorInv /\ StoreFacts /\ [CareNext]_careVars
      => [\A n \in Backups :
            step[n] = "reporting" /\ step'[n] = "idle" /\ reported'[n] = "ok" =>
              /\ started[n] \subseteq bucketRuns
              /\ \A r \in started[n] : \A b \in Named(r) \cap listed[n] :
                    bucket[b] # "absent"]_mirrorVars
  <2> SUFFICES ASSUME MirrorTypeOK, MirrorInv, StoreFacts, CareNext,
                      NEW n \in Backups,
                      step[n] = "reporting", step'[n] = "idle", reported'[n] = "ok"
               PROVE  /\ started[n] \subseteq bucketRuns
                      /\ \A r \in started[n] : \A b \in Named(r) \cap listed[n] :
                            bucket[b] # "absent"
    BY DEF careVars, mirrorVars
  <2>1. BackupInv(n) /\ reported[n] = "nothing"
    BY DEF MirrorInv, BackupInv
  <2>2. CheckIn(n)
    <3>1. CASE MirrorStep
      <4>1. PICK m \in Backups : BackupStep(m)
        BY <3>1 DEF MirrorStep, FetchObjects, FetchManifests
      <4>2. m = n
        BY <4>1 DEF BackupStep, StartBackup, PreflightFails, ListManifests,
           ListOthers, ListBucket, HashObject, UploadObject, UploadManifest,
           RawHalfRaises, AllShipped, CheckIn, BackupDies, ToStep, MirrorTypeOK
      <4>3. QED BY <2>1, <4>1, <4>2 DEF BackupStep, StartBackup, PreflightFails,
               ListManifests, ListOthers, ListBucket, HashObject, UploadObject,
               UploadManifest, RawHalfRaises, AllShipped, BackupDies, ToStep,
               MirrorTypeOK
    <3>2. CASE UNCHANGED mirrorVars
      BY <3>2 DEF mirrorVars
    <3>3. QED BY <3>1, <3>2 DEF CareNext
  <2>3. ~dry[n] /\ ~Failed(n)
    BY <2>2 DEF CheckIn, Reports, MirrorTypeOK
  <2>4. Ending(n) /\ mismatched[n] = {}
    BY <2>3 DEF Failed, Ending, MirrorTypeOK
  <2>5. started[n] \subseteq bucketRuns /\ listed[n] \subseteq InBucket
    BY <2>1, <2>3, <2>4 DEF BackupInv
  <2>6. QED BY <2>5 DEF InBucket
<1>2. QED BY <1>1, StoreFactsHold, MirrorTypes, MirrorHolds, PTL
          DEF CareSpec, OkMeansShipped

-----------------------------------------------------------------------------
(* The way back.                                                            *)

\* A restore keeps what it fetched; while no backup started, the bucket it
\* reads stands still.
RestoreInv ==
    /\ quiet => \A n \in Backups : step[n] \in {"idle", "reporting"}
    /\ fetchedRuns \subseteq Manifests
    /\ fetch \in {"manifests", "restored"} => \A b \in fetched : bucket[b] = "intact"
    /\ fetch = "manifests" /\ quiet => InBucket \subseteq fetched
    /\ fetch = "restored" /\ quiet => \A r \in fetchedRuns : Owed(r) \subseteq fetched

LEMMA RestoreHolds == CareSpec => []RestoreInv
<1>1. CareInit => RestoreInv
  BY DEF CareInit, MirrorInit, RestoreInv
<1>2. /\ StoreFacts /\ StoreFacts' /\ MirrorTypeOK /\ MirrorTypeOK' /\ MirrorInv
      /\ RestoreInv /\ [CareNext]_careVars
      => RestoreInv'
  <2> SUFFICES ASSUME StoreFacts, StoreFacts', MirrorTypeOK, MirrorTypeOK',
                      MirrorInv, RestoreInv, [CareNext]_careVars
               PROVE  RestoreInv'
    OBVIOUS
  <2>a. /\ Manifests \subseteq Manifests'
        /\ \A r \in Manifests : Owed(r)' \subseteq Owed(r)
    BY ManifestsStay DEF Owed
  <2>b. \A b \in Bodies : bucket[b] = "intact" => bucket'[b] = "intact"
    BY BucketOnlyGrows DEF BucketGrows, InBucket
  <2>c. ASSUME UNCHANGED <<fetch, fetched, fetchedRuns, quiet, bucket>>,
               quiet => \A n \in Backups : step'[n] \in {"idle", "reporting"}
        PROVE  RestoreInv'
    BY <2>a, <2>c DEF RestoreInv, InBucket
  <2>d. ASSUME UNCHANGED <<fetch, fetched, fetchedRuns>>, ~quiet'
        PROVE  RestoreInv'
    BY <2>a, <2>b, <2>d DEF RestoreInv, MirrorTypeOK
  <2>1. ASSUME NEW n \in Backups, BackupStep(n) PROVE RestoreInv'
    <3>1. CASE StartBackup(n)
      BY <2>d, <3>1 DEF StartBackup
    <3>2. CASE quiet /\ ~StartBackup(n)
      <4>1. step[n] \in {"idle", "reporting"}
        BY <3>2 DEF RestoreInv
      <4>2. PreflightFails(n) \/ CheckIn(n) \/ BackupDies(n)
        BY <2>1, <3>2, <4>1 DEF BackupStep, ListManifests, ListOthers, ListBucket,
           HashObject, UploadObject, UploadManifest, RawHalfRaises, AllShipped
      <4>3. UNCHANGED <<restoreVars, bucket>>
        BY <4>2 DEF PreflightFails, CheckIn, BackupDies
      <4>4. \A m \in Backups : step'[m] \in {"idle", "reporting"}
        BY <3>2, <4>2 DEF PreflightFails, CheckIn, BackupDies, ToStep, RestoreInv,
           MirrorTypeOK
      <4>5. QED BY <2>c, <4>3, <4>4 DEF restoreVars
    <3>3. CASE ~quiet /\ ~StartBackup(n)
      <4>1. UNCHANGED restoreVars
        BY <2>1, <3>3 DEF BackupStep, PreflightFails, ListManifests, ListOthers,
           ListBucket, HashObject, UploadObject, UploadManifest, RawHalfRaises,
           AllShipped, CheckIn, BackupDies
      <4>2. QED BY <2>d, <3>3, <4>1 DEF restoreVars
    <3>4. QED BY <3>1, <3>2, <3>3
  <2>2. CASE FetchObjects
    <3>1. /\ fetched' = InBucket /\ UNCHANGED <<bucket, step, fetchedRuns, vars>>
          /\ fetch' # "restored" /\ \A n \in Backups : step[n] = "idle"
          /\ fetch' = "manifests" => Genuine
      BY <2>2 DEF FetchObjects, InBucket
    <3>2. fetch' = "manifests" => \A b \in fetched' : bucket'[b] = "intact"
      BY <3>1 DEF Genuine, InBucket, MirrorTypeOK
    <3>3. QED BY <2>a, <3>1, <3>2 DEF RestoreInv, InBucket
  <2>3. CASE FetchManifests
    <3>1. /\ fetch = "manifests" /\ fetchedRuns' = bucketRuns
          /\ UNCHANGED <<bucket, step, fetched, quiet>>
      BY <2>3 DEF FetchManifests
    <3>2. \A r \in bucketRuns : r \in Manifests /\ Owed(r) \subseteq InBucket
      BY DEF MirrorInv, ObjectsFirst
    <3>3. fetchedRuns' \subseteq Manifests'
      BY <2>a, <3>1, <3>2
    <3>4. quiet => \A r \in bucketRuns : Owed(r)' \subseteq fetched
      BY <2>a, <3>1, <3>2 DEF RestoreInv
    <3>5. QED BY <2>3, <3>1, <3>3, <3>4 DEF FetchManifests, RestoreInv, InBucket
  <2>4. CASE UNCHANGED mirrorVars
    BY <2>4, <2>c DEF mirrorVars, RestoreInv
  <2>5. QED BY <2>1, <2>2, <2>3, <2>4 DEF CareNext, MirrorStep, careVars
<1>3. QED BY <1>1, <1>2, StoreFactsHold, MirrorTypes, MirrorHolds, PTL DEF CareSpec

\* A restore that ends holds only genuine bodies and, when no backup ran while
\* it read, every undamaged body its manifests name.
THEOREM RestoresAreWhole == CareSpec => []RestoreIsWhole
<1>1. RestoreInv => RestoreIsWhole
  BY DEF RestoreInv, RestoreIsWhole, Owed
<1>2. QED BY <1>1, RestoreHolds, PTL

-----------------------------------------------------------------------------
(* The sweeps.                                                              *)

\* An alarm names an object that was damaged: neither the order of a harvest's
\* writes nor a sweep that overlaps them, wraps or dies raises a false one.
NoFalseAlarm == alarms \subseteq damaged

\* What a sweep has still to visit is named by a manifest; what it found so far
\* is damaged.
SweepInv ==
    /\ pending \in [Sweeps -> SUBSET Bodies]
    /\ found \in [Sweeps -> SUBSET Bodies]
    /\ \A s \in Sweeps : pending[s] \subseteq StoredBodies /\ found[s] \subseteq damaged
    /\ alarms \subseteq damaged

LEMMA ExpectedAreStored ==
    ASSUME StoreFacts
    PROVE  Expected \subseteq StoredBodies
<1>1. ASSUME NEW r \in Manifests, NEW res \in Resources,
             manifest[r][res].body # NoBody
      PROVE  manifest[r][res].body \in StoredBodies
  <2>1. manifest[r][res].body \in Named(r)
    BY <1>1 DEF Named, Manifests
  <2>2. QED BY <2>1, NamedIsStored
<1>2. QED BY <1>1 DEF Expected

\* A set of naturals that is not empty has a least member.
LEMMA LeastNatural ==
    ASSUME NEW S \in SUBSET Nat, S # {}
    PROVE  \E m \in S : \A n \in S : m <= n
<1> DEFINE Smaller == OpToRel(<, Nat)
<1>1. IsWellFoundedOn(Smaller, Nat)
  BY NatLessThanWellFounded
<1>2. Smaller = {mn \in Nat \X Nat : mn[1] < mn[2]}
  BY DEF OpToRel
<1>3. \A m, n \in Nat : <<n, m>> \in Smaller <=> n < m
  BY <1>2
<1> HIDE DEF Smaller
<1>4. PICK m \in S : \A n \in S : ~(<<n, m>> \in Smaller)
  BY <1>1, WFMin
<1>5. \A n \in S : m \in Nat /\ n \in Nat /\ ~(n < m)
  BY <1>3, <1>4
<1>6. QED BY <1>5

\* While keys are left there is a next one.
LEMMA NextIsPending ==
    ASSUME NEW s \in Sweeps, pending[s] \subseteq Bodies, pending[s] # {}
    PROVE  Next1(s) \in pending[s]
<1> DEFINE ranks == {Rank[b] : b \in pending[s]}
<1>1. ranks \in SUBSET Nat /\ ranks # {}
  BY KeysAreRanked
<1>2. PICK m \in ranks : \A n \in ranks : m <= n
  BY <1>1, LeastNatural
<1>3. \E b \in pending[s] : \A c \in pending[s] : Rank[b] <= Rank[c]
  BY <1>2
<1>4. QED BY <1>3 DEF Next1

THEOREM AlarmsAreReal == CareSpec => []NoFalseAlarm
<1>1. CareInit => SweepInv
  BY DEF CareInit, SweepInit, SweepInv
<1>2. StoreFacts /\ StoreFacts' /\ SweepInv /\ [CareNext]_careVars => SweepInv'
  <2> SUFFICES ASSUME StoreFacts, StoreFacts', SweepInv, [CareNext]_careVars
               PROVE  SweepInv'
    OBVIOUS
  <2>a. StoredBodies \subseteq StoredBodies' /\ damaged \subseteq damaged'
    <3>1. [Next]_vars
      BY MirrorReadsStore, SweepReadsStore DEF CareNext, careVars
    <3>2. QED BY <3>1, StoredStays, ManifestsStay DEF StoreFacts, StoredBodies
  <2>1. ASSUME NEW s \in Sweeps, Sweeping(s) \/ SweepDies(s) PROVE SweepInv'
    <3>a. /\ UNCHANGED <<damaged, object>>
          /\ StoredBodies' = StoredBodies
      <4>1. UNCHANGED vars
        BY <2>1, SweepReadsStore DEF SweepStep
      <4>2. QED BY <4>1 DEF vars, StoredBodies
    <3>1. ASSUME NEW c, BeginPass(s, c), UNCHANGED <<found, alarms>>
          PROVE  SweepInv'
      <4>1. pending'[s] \subseteq StoredBodies
        BY <3>1, ExpectedAreStored DEF BeginPass, SweepInv
      <4>2. QED BY <3>a, <3>1, <4>1 DEF BeginPass, SweepInv, StoredBodies
    <3>2. CASE VerifyObject(s)
      <4> DEFINE b == Next1(s)
      <4>1. /\ b \in Bodies
            /\ object[b] # "intact" => b \in damaged
        BY <3>2, NextIsPending DEF VerifyObject, SweepInv, StoredBodies
      <4> HIDE DEF b
      <4>2. /\ pending[s] # {}
            /\ pending' = [pending EXCEPT ![s] = @ \ {b}]
            /\ found' = [found EXCEPT ![s] = IF object[b] = "intact" THEN @ ELSE @ \cup {b}]
            /\ alarms' = alarms
        BY <3>2 DEF VerifyObject, b
      <4>3. QED BY <3>a, <4>1, <4>2 DEF SweepInv
    <3>3. CASE Report(s)
      BY <3>a, <3>3 DEF Report, Finished, SweepInv
    <3>4. CASE SweepDies(s)
      BY <3>a, <3>4 DEF SweepDies, Finished, SweepInv
    <3>5. CASE ExhaustBudget(s)
      BY <3>a, <3>5 DEF ExhaustBudget, SweepInv
    <3>6. CASE EndPass(s) \/ BeginStore(s) \/ FinishStore(s) \/ SkipStore(s)
      BY <3>a, <3>6 DEF EndPass, BeginStore, FinishStore, SkipStore, passVars, SweepInv
    <3>7. QED BY <2>1, <3>1, <3>2, <3>3, <3>4, <3>5, <3>6
              DEF Sweeping, StartSweep, Wrap, Merged
  <2>2. CASE UNCHANGED sweepVars
    BY <2>2, <2>a DEF sweepVars, SweepInv
  <2>3. QED BY <2>1, <2>2 DEF CareNext, SweepStep, careVars
<1>3. SweepInv => NoFalseAlarm
  BY DEF SweepInv, NoFalseAlarm
<1>4. QED BY <1>1, <1>2, <1>3, StoreFactsHold, PTL DEF CareSpec

-----------------------------------------------------------------------------
(* Damage is heard of.                                                      *)

SweepTypes ==
    /\ at \in [Sweeps -> {"idle", "verifying", "passed", "storing", "reporting"}]
    /\ after \in [Sweeps -> Nat] /\ last \in [Sweeps -> Nat]
    /\ pending \in [Sweeps -> SUBSET Bodies] /\ found \in [Sweeps -> SUBSET Bodies]
    /\ spent \in [Sweeps -> Nat]
    /\ verified \in [Sweeps -> BOOLEAN] /\ exhausted \in [Sweeps -> BOOLEAN]
    /\ cursors \in [Scopes -> Nat] /\ copy \in [Sweeps -> [Scopes -> Nat]]
    /\ waited \in [Bodies -> Nat]

\* While keys are left, the one visited is the first of them.
LEMMA NextIsFirst ==
    ASSUME NEW s \in Sweeps, pending[s] \subseteq Bodies, pending[s] # {}
    PROVE  \A b \in pending[s] : Rank[Next1(s)] <= Rank[b]
<1> DEFINE ranks == {Rank[b] : b \in pending[s]}
<1>1. ranks \in SUBSET Nat /\ ranks # {}
  BY KeysAreRanked
<1>2. PICK m \in ranks : \A n \in ranks : m <= n
  BY <1>1, LeastNatural
<1>3. \E b \in pending[s] : \A c \in pending[s] : Rank[b] <= Rank[c]
  BY <1>2
<1>4. QED BY <1>3 DEF Next1

LEMMA ExpectedAreBodies == ASSUME StoreFacts PROVE Expected \subseteq Bodies
BY ExpectedAreStored DEF StoredBodies

LEMMA SweepTypesStep ==
    ASSUME StoreFacts, SweepTypes, NEW s \in Sweeps, Sweeping(s) \/ SweepDies(s)
    PROVE  SweepTypes'
<1> USE KeysAreRanked, SweepsHaveScopes, BytesAreNat, BoundsAreNat
<1>1. ASSUME NEW c \in Nat, BeginPass(s, c)
      PROVE  /\ pending' \in [Sweeps -> SUBSET Bodies] /\ spent' \in [Sweeps -> Nat]
             /\ last' \in [Sweeps -> Nat]
             /\ verified' \in [Sweeps -> BOOLEAN]
             /\ exhausted' \in [Sweeps -> BOOLEAN]
  <2>1. {b \in Expected : Rank[b] > c} \in SUBSET Bodies
    BY ExpectedAreBodies
  <2>2. QED BY <1>1, <2>1 DEF BeginPass, SweepTypes
<1>2. CASE StartSweep(s)
  <2>1. cursors[ScopeOf[s]] \in Nat
    BY DEF SweepTypes
  <2>2. QED BY <1>1, <1>2, <2>1 DEF StartSweep, AtStep, SweepTypes
<1>3. CASE Wrap(s)
  BY <1>1, <1>3 DEF Wrap, AtStep, Merged, SweepTypes
<1>4. CASE VerifyObject(s)
  <2> DEFINE b == Next1(s)
  <2>1. b \in Bodies
    BY <1>4, NextIsPending DEF VerifyObject, SweepTypes
  <2>2. Rank[b] \in Nat /\ Size[b] \in Nat
    BY <2>1
  <2>3. /\ pending' = [pending EXCEPT ![s] = @ \ {b}]
        /\ last' = [last EXCEPT ![s] = Rank[b]]
        /\ found' = [found EXCEPT ![s] = IF object[b] = "intact" THEN @ ELSE @ \cup {b}]
        /\ spent' = [spent EXCEPT ![s] = IF object[b] = "absent" THEN @ ELSE @ + Size[b]]
        /\ verified' = [verified EXCEPT ![s] = @ \/ object[b] # "absent"]
        /\ UNCHANGED <<cursors, at, after, exhausted, copy, waited>>
    BY <1>4 DEF VerifyObject
  <2> HIDE DEF b
  <2>4. verified' \in [Sweeps -> BOOLEAN]
    <3>1. (verified[s] \/ object[b] # "absent") \in BOOLEAN
      OBVIOUS
    <3>2. QED BY <2>3, <3>1, Zenon DEF SweepTypes
  <2>5. QED BY <2>1, <2>2, <2>3, <2>4 DEF SweepTypes
<1>5. CASE ExhaustBudget(s) \/ EndPass(s) \/ SkipStore(s)
  BY <1>5 DEF ExhaustBudget, EndPass, SkipStore, AtStep, passVars, SweepTypes
<1>6. CASE BeginStore(s)
  BY <1>6 DEF BeginStore, AtStep, passVars, SweepTypes
<1>7. CASE FinishStore(s)
  <2>1. NextCursor(s) \in Nat
    BY DEF NextCursor, SweepTypes
  <2>2. QED BY <1>7, <2>1 DEF FinishStore, AtStep, passVars, SweepTypes
<1>8. ASSUME Finished(s), cursors' = cursors, waited' \in [Bodies -> Nat]
      PROVE  SweepTypes'
  BY <1>8 DEF Finished, AtStep, SweepTypes
<1>9. CASE Report(s)
  <2>1. waited' \in [Bodies -> Nat]
    BY <1>9 DEF Report, Count, SweepTypes
  <2>2. QED BY <1>8, <1>9, <2>1 DEF Report
<1>10. CASE SweepDies(s)
  <2>1. waited' \in [Bodies -> Nat]
    BY <1>10 DEF SweepDies, SweepTypes
  <2>2. QED BY <1>8, <1>10, <2>1 DEF SweepDies
<1>11. QED BY <1>2, <1>3, <1>4, <1>5, <1>6, <1>7, <1>9, <1>10 DEF Sweeping

\* How many timer runs it may take from a cursor to reach a key: one key each,
\* up to the tail and round again.
Distance(b, cursor) ==
    IF cursor < Rank[b] THEN Rank[b] - cursor ELSE Patience - cursor + Rank[b]

Cursor == cursors[ScopeOf[Timer]]

\* Where the timer's cursor may stand: a run that stops has keys left.
Places == {n \in Nat : n = 0 \/ n < Patience}

\* An object a timer run has ended without reporting, still wrong.
Awaited(b) == waited[b] > 0 /\ object[b] # "intact" /\ b \notin alarms

\* The file of cursors is written under its lock, from what it holds.
CursorsKept ==
    /\ Cursor \in Places
    /\ \A s \in Sweeps : at[s] = "storing" =>
          /\ sweepLock = s
          /\ copy[s] = cursors

\* What a timer's run is doing: the pass began at the cursor or, after a wrap, at
\* the first key; the keys it has still to visit are past what it visited; it
\* stops early only past some key and with keys left.
TimerPass ==
    /\ at[Timer] \in {"idle", "verifying", "passed", "storing", "reporting"}
    /\ pending[Timer] \subseteq Bodies
    /\ at[Timer] \in {"verifying", "passed", "storing"} =>
          /\ after[Timer] \in {0, Cursor}
          /\ Budget[Timer] = 0 => after[Timer] = 0 /\ ~exhausted[Timer]
          /\ last[Timer] \in Nat
          /\ (last[Timer] = 0 /\ spent[Timer] = 0) \/ last[Timer] > after[Timer]
          /\ \A b \in pending[Timer] : Rank[b] > last[Timer] /\ Rank[b] > after[Timer]
          /\ exhausted[Timer] => /\ at[Timer] # "verifying"
                                 /\ last[Timer] > after[Timer]
                                 /\ last[Timer] < Patience

\* An awaited object the run has not found is before where the pass began, still
\* to be visited, or past where it stopped.
NotPassedOver(b) ==
    \/ b \in found[Timer]
    \/ Rank[b] <= after[Timer]
    \/ at[Timer] = "verifying" /\ b \in pending[Timer]
    \/ exhausted[Timer] /\ Rank[b] > last[Timer]

\* A wrapped run has looked at everything past its cursor.
Wrapped(b) ==
    Budget[Timer] # 0 /\ after[Timer] = 0 /\ Cursor # 0 =>
        b \in found[Timer] \/ Rank[b] <= Cursor

\* The waits of an awaited object and the runs it may still take are within
\* patience, and this run counts once its cursor is written.
WaitsBounded ==
    /\ waited \in [Bodies -> 0..Patience]
    /\ \A b \in Bodies :
          waited[b] > 0 => b \in damaged /\ b \in Expected
    /\ \A b \in Bodies : Awaited(b) =>
          /\ at[Timer] # "reporting" => waited[b] + Distance(b, Cursor) <= Patience + 1
          /\ at[Timer] = "reporting" =>
                b \in found[Timer] \/ waited[b] + Distance(b, Cursor) <= Patience
          /\ at[Timer] \in {"verifying", "passed", "storing"} =>
                NotPassedOver(b) /\ Wrapped(b)

TimerInv == CursorsKept /\ TimerPass /\ WaitsBounded

\* A body a manifest names that was damaged stays both; repaired, it stays
\* repaired.
LEMMA DamagedStay ==
    ASSUME StoreFacts, StoreFacts', [CareNext]_careVars,
           NEW b \in Bodies, b \in damaged, b \in Expected
    PROVE  /\ b \in damaged' /\ b \in Expected'
           /\ object[b] = "intact" => object'[b] = "intact"
<1>1. [Next]_vars
  BY MirrorReadsStore, SweepReadsStore DEF CareNext, careVars
<1>2. damaged \subseteq damaged'
  BY ManifestsStay
<1>3. b \in Expected'
  <2>1. PICK r \in Manifests, res \in Resources :
           b = manifest[r][res].body /\ b # NoBody
    BY DEF Expected
  <2>2. r \in Manifests' /\ manifest'[r] = manifest[r]
    BY <1>1, <2>1, ManifestsStable, ManifestsStay DEF StoreFacts
  <2>3. QED BY <2>1, <2>2 DEF Expected
<1>4. object[b] = "intact" => object'[b] = "intact"
  <2> SUFFICES ASSUME object[b] = "intact", object'[b] # object[b]
               PROVE  object'[b] = "intact"
    OBVIOUS
  <2>1. Next
    BY <1>1 DEF vars
  <2>2. (\E r \in Runs : StoreObject(r)) \/ (\E c \in Bodies : Damage(c))
    BY <2>1 DEF Next, RunStep, FetchStep, OpenRun, SkipFresh, BeginFetch, FetchFails,
       FetchAborts, FetchUnchanged, FetchNewBody, CloseManifest, BeginUpdate,
       FinishUpdate, RebuildStep, BeginRebuild, ReplayManifest, FinishRebuild,
       Crash, Tick
  <2>3. ASSUME NEW c \in Bodies, Damage(c) PROVE FALSE
    BY <2>3 DEF Damage, StoreFacts, TypeOK
  <2>4. ASSUME NEW r \in Runs, StoreObject(r) PROVE object'[b] = "intact"
    BY <2>4 DEF StoreObject, Renamed, StoreFacts, TypeOK
  <2>5. QED BY <2>2, <2>3, <2>4
<1>5. QED BY <1>2, <1>3, <1>4

\* Steps that leave the sweeps alone.
LEMMA QuietSweeps ==
    ASSUME StoreFacts, StoreFacts', [CareNext]_careVars, SweepTypes, TimerInv,
           UNCHANGED sweepVars
    PROVE  TimerInv'
<1>1. CursorsKept' /\ TimerPass'
  BY DEF TimerInv, CursorsKept, TimerPass, Cursor, sweepVars
<1>2. \A b \in Bodies : waited[b] > 0 => b \in damaged' /\ b \in Expected'
  BY DamagedStay DEF TimerInv, WaitsBounded
<1>3. \A b \in Bodies : Awaited(b)' => Awaited(b)
  <2> SUFFICES ASSUME NEW b \in Bodies, Awaited(b)' PROVE Awaited(b)
    OBVIOUS
  <2>1. waited[b] > 0 /\ object'[b] # "intact" /\ b \notin alarms
    BY DEF Awaited, sweepVars
  <2>2. QED BY <2>1, DamagedStay DEF Awaited, TimerInv, WaitsBounded
<1>4. WaitsBounded'
  <2>1. /\ waited' = waited /\ Cursor' = Cursor /\ at' = at /\ found' = found
        /\ after' = after /\ pending' = pending /\ exhausted' = exhausted
        /\ last' = last
    BY DEF Cursor, sweepVars
  <2>2. ASSUME NEW b \in Bodies, Awaited(b)'
        PROVE  /\ at'[Timer] # "reporting" =>
                     waited'[b] + Distance(b, Cursor') <= Patience + 1
               /\ at'[Timer] = "reporting" =>
                     \/ b \in found'[Timer]
                     \/ waited'[b] + Distance(b, Cursor') <= Patience
               /\ at'[Timer] \in {"verifying", "passed", "storing"} =>
                     NotPassedOver(b)' /\ Wrapped(b)'
    BY <1>3, <2>1, <2>2 DEF TimerInv, WaitsBounded, NotPassedOver, Wrapped, Cursor
  <2>3. QED BY <1>2, <2>1, <2>2 DEF TimerInv, WaitsBounded, Distance, Cursor
<1>5. QED BY <1>1, <1>4 DEF TimerInv

\* No other sweep has the timer's scope: another one moves the timer's cursor.
TimerApart == \A s \in Sweeps \ {Timer} : ScopeOf[s] # ScopeOf[Timer]

\* Patience is a run per key at least.
PatienceCovers == \A b \in Bodies : Rank[b] <= Patience

\* A sweep by hand keeps what is said of the timer's; its alarms only help.
LEMMA OtherSweeps ==
    ASSUME TimerApart, SweepTypes, TimerInv,
           NEW s \in Sweeps, s # Timer, Sweeping(s) \/ SweepDies(s)
    PROVE  TimerInv'
<1> USE SweepsHaveScopes
<1> DEFINE Mine == <<at[Timer], after[Timer], pending[Timer], spent[Timer],
                     last[Timer], exhausted[Timer], found[Timer], waited>>
<1>1. UNCHANGED vars
  BY SweepReadsStore DEF SweepStep
<1>2. UNCHANGED Mine /\ alarms \subseteq alarms'
  <2>1. CASE StartSweep(s) \/ VerifyObject(s) \/ Wrap(s)
    BY <2>1 DEF StartSweep, VerifyObject, Wrap, BeginPass, AtStep, Merged, SweepTypes
  <2>2. CASE ExhaustBudget(s) \/ EndPass(s) \/ BeginStore(s) \/ FinishStore(s) \/ SkipStore(s)
    BY <2>2 DEF ExhaustBudget, EndPass, BeginStore, FinishStore, SkipStore, AtStep,
       passVars, SweepTypes
  <2>3. CASE Report(s) \/ SweepDies(s)
    BY <2>3 DEF Report, SweepDies, Finished, AtStep, SweepTypes
  <2>4. QED BY <2>1, <2>2, <2>3 DEF Sweeping
<1>3. CursorsKept' /\ Cursor' = Cursor
  <2>1. CASE FinishStore(s)
    <3>1. cursors' = [copy[s] EXCEPT ![ScopeOf[s]] = NextCursor(s)] /\ copy[s] = cursors
      BY <2>1 DEF FinishStore, TimerInv, CursorsKept
    <3>2. Cursor' = Cursor
      BY <3>1 DEF Cursor, TimerApart, SweepTypes
    <3>3. \A q \in Sweeps : at'[q] # "storing"
      BY <2>1 DEF FinishStore, AtStep, TimerInv, CursorsKept, SweepTypes
    <3>4. QED BY <3>2, <3>3 DEF TimerInv, CursorsKept
  <2>2. CASE BeginStore(s)
    <3>1. \A q \in Sweeps \ {s} : at'[q] # "storing"
      BY <2>2 DEF BeginStore, LockFree, AtStep, TimerInv, CursorsKept, SweepTypes
    <3>2. sweepLock' = s /\ copy'[s] = cursors /\ cursors' = cursors
      BY <2>2 DEF BeginStore, SweepTypes
    <3>3. QED BY <3>1, <3>2 DEF TimerInv, CursorsKept, Cursor
  <2>3. CASE Report(s) \/ SweepDies(s)
    BY <2>3 DEF Report, SweepDies, Finished, AtStep, TimerInv, CursorsKept, Cursor,
       SweepTypes
  <2>4. CASE StartSweep(s) \/ VerifyObject(s) \/ ExhaustBudget(s) \/ EndPass(s)
             \/ Wrap(s) \/ SkipStore(s)
    BY <2>4 DEF StartSweep, VerifyObject, ExhaustBudget, EndPass, Wrap, SkipStore,
       AtStep, TimerInv, CursorsKept, Cursor, SweepTypes
  <2>5. QED BY <2>1, <2>2, <2>3, <2>4 DEF Sweeping
<1>4. TimerPass'
  BY <1>2, <1>3 DEF TimerInv, TimerPass
<1>5. WaitsBounded'
  <2>1. damaged' = damaged /\ Expected' = Expected /\ object' = object
    BY <1>1 DEF vars, Expected, Manifests
  <2>2. \A b \in Bodies : Awaited(b)' => Awaited(b)
    BY <1>2, <2>1 DEF Awaited
  <2>3. \A b \in Bodies : NotPassedOver(b)' = NotPassedOver(b) /\ Wrapped(b)' = Wrapped(b)
    BY <1>2, <1>3 DEF NotPassedOver, Wrapped
  <2>4. QED BY <1>2, <1>3, <2>1, <2>2, <2>3 DEF TimerInv, WaitsBounded, Distance
<1>6. QED BY <1>3, <1>4, <1>5 DEF TimerInv

\* The frame of the timer's own steps before its cursor is written.
LEMMA TimerFrame ==
    ASSUME NEW s \in Sweeps, Sweeping(s) \/ SweepDies(s)
    PROVE  damaged' = damaged /\ Expected' = Expected /\ object' = object
<1>1. UNCHANGED vars
  BY SweepReadsStore DEF SweepStep
<1>2. QED BY <1>1 DEF vars, Expected, Manifests

\* A pass of the timer begins: at its cursor, or again at the first key.
LEMMA TimerBegins ==
    ASSUME StoreFacts, SweepTypes, TimerInv, StartSweep(Timer) \/ Wrap(Timer)
    PROVE  TimerInv'
<1> USE SweepsHaveScopes, KeysAreRanked
<1>1. /\ UNCHANGED <<cursors, sweepLock, copy, found, waited, alarms>>
      /\ at' = [at EXCEPT ![Timer] = "verifying"]
      /\ after' = [after EXCEPT ![Timer] = after'[Timer]]
      /\ BeginPass(Timer, after'[Timer])
      /\ at[Timer] \in {"idle", "passed"}
  BY DEF StartSweep, Wrap, Merged, AtStep, SweepTypes
<1>2. /\ pending'[Timer] = {b \in Expected : Rank[b] > after'[Timer]}
      /\ spent'[Timer] = 0 /\ last'[Timer] = 0 /\ exhausted'[Timer] = FALSE
  BY <1>1 DEF BeginPass, SweepTypes
<1>3. /\ after'[Timer] \in {0, Cursor}
      /\ Budget[Timer] = 0 => after'[Timer] = 0
  BY DEF StartSweep, Wrap, Cursor, SweepTypes
<1>4. CursorsKept' /\ Cursor' = Cursor
  BY <1>1 DEF TimerInv, CursorsKept, Cursor, SweepTypes
<1>5. TimerPass'
  <2>1. after'[Timer] \in Nat
    BY <1>3 DEF Cursor, SweepTypes
  <2>2. pending'[Timer] \subseteq Bodies
    BY <1>2, ExpectedAreBodies
  <2>3. \A b \in pending'[Timer] : Rank[b] > 0 /\ Rank[b] > after'[Timer]
    BY <1>2, <2>2
  <2>4. at'[Timer] = "verifying"
    BY <1>1 DEF SweepTypes
  <2>5. QED BY <1>2, <1>3, <1>4, <2>2, <2>3, <2>4 DEF TimerPass
<1>6. \A b \in Bodies : Awaited(b) =>
         NotPassedOver(b)' /\ Wrapped(b)'
  <2> SUFFICES ASSUME NEW b \in Bodies, Awaited(b)
               PROVE  NotPassedOver(b)' /\ Wrapped(b)'
    OBVIOUS
  <2>1. b \in Expected /\ Rank[b] \in Nat /\ after'[Timer] \in Nat
    BY <1>3 DEF Awaited, TimerInv, WaitsBounded, Cursor, SweepTypes
  <2>2. Rank[b] <= after'[Timer] \/ b \in pending'[Timer]
    BY <1>2, <2>1
  <2>3. at'[Timer] = "verifying"
    BY <1>1 DEF SweepTypes
  <2>4. NotPassedOver(b)'
    BY <2>2, <2>3 DEF NotPassedOver
  <2>5. CASE StartSweep(Timer)
    <3>1. Budget[Timer] # 0 => after'[Timer] = Cursor
      BY <2>5 DEF StartSweep, Cursor, SweepTypes
    <3>2. QED BY <1>4, <2>4, <3>1 DEF Wrapped
  <2>6. CASE Wrap(Timer)
    <3>1. at[Timer] = "passed" /\ ~exhausted[Timer] /\ after[Timer] # 0
      BY <2>6 DEF Wrap, AtTheTail
    <3>2. NotPassedOver(b) /\ after[Timer] = Cursor
      BY <3>1 DEF TimerInv, WaitsBounded, TimerPass
    <3>3. b \in found[Timer] \/ Rank[b] <= Cursor
      BY <3>1, <3>2 DEF NotPassedOver
    <3>4. QED BY <1>1, <1>4, <2>4, <3>3 DEF Wrapped
  <2>7. QED BY <2>5, <2>6
<1>7. WaitsBounded'
  <2>1. \A b \in Bodies : Awaited(b)' <=> Awaited(b)
    BY <1>1, TimerFrame DEF Awaited, Sweeping
  <2>2. at'[Timer] = "verifying"
    BY <1>1 DEF SweepTypes
  <2>3. damaged' = damaged /\ Expected' = Expected
    BY TimerFrame DEF Sweeping
  <2>4. QED BY <1>1, <1>4, <1>6, <2>1, <2>2, <2>3 DEF TimerInv, WaitsBounded, Distance
<1>8. QED BY <1>4, <1>5, <1>7 DEF TimerInv

\* The timer visits the next key: what is wrong with it is found.
LEMMA TimerVisits ==
    ASSUME SweepTypes, TimerInv, VerifyObject(Timer)
    PROVE  TimerInv'
<1> USE SweepsHaveScopes, KeysAreRanked
<1> DEFINE b == Next1(Timer)
<1>1. /\ at[Timer] = "verifying" /\ b \in pending[Timer] /\ b \in Bodies
      /\ Rank[b] \in Nat \ {0}
      /\ \A c \in pending[Timer] : Rank[b] <= Rank[c]
  BY NextIsPending, NextIsFirst DEF VerifyObject, SweepTypes
<1>2. /\ pending'[Timer] = pending[Timer] \ {b}
      /\ last'[Timer] = Rank[b]
      /\ found'[Timer] = IF object[b] = "intact" THEN found[Timer]
                                                 ELSE found[Timer] \cup {b}
      /\ UNCHANGED <<cursors, sweepLock, at, after, exhausted, copy, waited, alarms>>
  BY DEF VerifyObject, SweepTypes
<1> HIDE DEF b
<1>3. CursorsKept' /\ Cursor' = Cursor
  BY <1>2 DEF TimerInv, CursorsKept, Cursor
<1>4. /\ Rank[b] > last[Timer] /\ Rank[b] > after[Timer]
      /\ ~exhausted[Timer]
      /\ after[Timer] \in {0, Cursor}
      /\ Budget[Timer] = 0 => after[Timer] = 0
  BY <1>1 DEF TimerInv, TimerPass
<1>5. \A c \in pending'[Timer] : Rank[c] > Rank[b] /\ Rank[c] > after[Timer]
  <2> SUFFICES ASSUME NEW c \in pending'[Timer]
               PROVE  Rank[c] > Rank[b] /\ Rank[c] > after[Timer]
    OBVIOUS
  <2>1. c \in pending[Timer] /\ c \in Bodies /\ c # b
    BY <1>2 DEF SweepTypes
  <2>2. Rank[c] # Rank[b] /\ Rank[b] <= Rank[c] /\ Rank[c] \in Nat
    BY <1>1, <2>1, KeysAreDistinct
  <2>3. Rank[c] > after[Timer]
    BY <1>1, <2>1 DEF TimerInv, TimerPass
  <2>4. QED BY <1>1, <2>2, <2>3
<1>6. TimerPass'
  <2>1. pending'[Timer] \subseteq Bodies
    BY <1>2 DEF SweepTypes
  <2>2. QED BY <1>1, <1>2, <1>3, <1>4, <1>5, <2>1 DEF TimerPass
<1>7. ASSUME NEW c \in Bodies, Awaited(c)
      PROVE  NotPassedOver(c)' /\ Wrapped(c)'
  <2>1. NotPassedOver(c) /\ Wrapped(c)
    BY <1>1, <1>7 DEF TimerInv, WaitsBounded
  <2>2. c = b => c \in found'[Timer]
    BY <1>2, <1>7 DEF Awaited
  <2>3. NotPassedOver(c)'
    BY <1>1, <1>2, <1>4, <2>1, <2>2 DEF NotPassedOver
  <2>4. Wrapped(c)'
    BY <1>2, <1>3, <2>1 DEF Wrapped
  <2>5. QED BY <2>3, <2>4
<1>8. WaitsBounded'
  <2>1. damaged' = damaged /\ Expected' = Expected /\ object' = object
    BY TimerFrame DEF Sweeping
  <2>2. \A c \in Bodies : Awaited(c)' <=> Awaited(c)
    BY <1>2, <2>1 DEF Awaited
  <2>3. QED BY <1>1, <1>2, <1>3, <1>7, <2>1, <2>2
            DEF TimerInv, WaitsBounded, Distance
<1>9. QED BY <1>3, <1>6, <1>8 DEF TimerInv

\* The timer's pass ends at the tail or with its budget spent, and it takes the
\* lock of the cursors.
LEMMA TimerStops ==
    ASSUME PatienceCovers, SweepTypes, TimerInv,
           ExhaustBudget(Timer) \/ EndPass(Timer) \/ BeginStore(Timer)
    PROVE  TimerInv'
<1> USE SweepsHaveScopes, KeysAreRanked
<1>1. /\ UNCHANGED <<cursors, after, last, spent, found, waited, alarms>>
      /\ at[Timer] \in {"verifying", "passed"}
      /\ at' = [at EXCEPT ![Timer] = at'[Timer]]
      /\ at'[Timer] \in {"passed", "storing"}
      /\ exhausted[Timer] => exhausted'[Timer]
      /\ pending'[Timer] \subseteq pending[Timer]
  BY DEF ExhaustBudget, EndPass, BeginStore, AtStep, passVars, SweepTypes
<1>2. CursorsKept' /\ Cursor' = Cursor
  <2>1. CASE BeginStore(Timer)
    <3>1. \A q \in Sweeps \ {Timer} : at'[q] # "storing"
      BY <2>1 DEF BeginStore, LockFree, AtStep, TimerInv, CursorsKept, SweepTypes
    <3>2. sweepLock' = Timer /\ copy'[Timer] = cursors /\ cursors' = cursors
      BY <2>1 DEF BeginStore, SweepTypes
    <3>3. QED BY <3>1, <3>2 DEF TimerInv, CursorsKept, Cursor
  <2>2. CASE ExhaustBudget(Timer) \/ EndPass(Timer)
    BY <2>2 DEF ExhaustBudget, EndPass, AtStep, TimerInv, CursorsKept, Cursor,
       SweepTypes
  <2>3. QED BY <2>1, <2>2
<1>3. TimerPass /\ (exhausted'[Timer] => exhausted[Timer] \/ ExhaustBudget(Timer))
  BY DEF TimerInv, ExhaustBudget, EndPass, BeginStore, passVars, SweepTypes
<1>4. ASSUME ExhaustBudget(Timer)
      PROVE  /\ last[Timer] > after[Timer] /\ last[Timer] < Patience
             /\ Budget[Timer] # 0 /\ at[Timer] = "verifying"
             /\ \A b \in pending[Timer] : Rank[b] > last[Timer]
             /\ exhausted'[Timer]
  <2>1. /\ at[Timer] = "verifying" /\ pending[Timer] # {}
        /\ Budget[Timer] # 0 /\ spent[Timer] >= Budget[Timer]
        /\ exhausted'[Timer]
    BY <1>4 DEF ExhaustBudget, OutOfBudget, SweepTypes
  <2>2. PICK b \in pending[Timer] : b \in Bodies
    BY <2>1 DEF SweepTypes
  <2>3. Rank[b] > last[Timer] /\ Rank[b] <= Patience /\ Rank[b] \in Nat
    BY <1>3, <2>1, <2>2 DEF TimerPass, PatienceCovers
  <2>4. last[Timer] > after[Timer]
    BY <1>3, <2>1, BytesAreNat DEF TimerPass, SweepTypes
  <2>5. last[Timer] < Patience
    BY <2>3, BoundsAreNat DEF SweepTypes
  <2>6. QED BY <1>3, <2>1, <2>4, <2>5 DEF TimerPass
<1>5. TimerPass'
  BY <1>1, <1>2, <1>3, <1>4 DEF TimerPass
<1>6. ASSUME NEW b \in Bodies, Awaited(b)
      PROVE  NotPassedOver(b)' /\ Wrapped(b)'
  <2>1. NotPassedOver(b) /\ Wrapped(b)
    BY <1>1, <1>6 DEF TimerInv, WaitsBounded
  <2>2. CASE at[Timer] = "verifying" /\ b \in pending[Timer]
    <3>1. ~EndPass(Timer) /\ ~BeginStore(Timer)
      BY <2>2 DEF EndPass, BeginStore
    <3>2. exhausted'[Timer] /\ Rank[b] > last[Timer]
      BY <1>4, <2>2, <3>1
    <3>3. QED BY <1>1, <1>2, <2>1, <3>2 DEF NotPassedOver, Wrapped
  <2>3. CASE ~(at[Timer] = "verifying" /\ b \in pending[Timer])
    BY <1>1, <1>2, <2>1, <2>3 DEF NotPassedOver, Wrapped
  <2>4. QED BY <2>2, <2>3
<1>7. WaitsBounded'
  <2>1. damaged' = damaged /\ Expected' = Expected /\ object' = object
    BY TimerFrame DEF Sweeping
  <2>2. \A c \in Bodies : Awaited(c)' <=> Awaited(c)
    BY <1>1, <2>1 DEF Awaited
  <2>3. QED BY <1>1, <1>2, <1>6, <2>1, <2>2
            DEF TimerInv, WaitsBounded, Distance
<1>8. QED BY <1>2, <1>5, <1>7 DEF TimerInv

\* A distance is at least one run, and at most patience.
LEMMA DistanceBounds ==
    ASSUME PatienceCovers, NEW b \in Bodies, NEW c \in Places
    PROVE  Distance(b, c) \in 1..Patience
<1>1. Rank[b] \in Nat \ {0} /\ Rank[b] <= Patience /\ c \in Nat /\ Patience \in Nat
  BY KeysAreRanked, BoundsAreNat DEF PatienceCovers, Places
<1>2. c = 0 \/ c < Patience
  BY DEF Places
<1>3. CASE c < Rank[b]
  <2>1. Distance(b, c) = Rank[b] - c
    BY <1>3 DEF Distance
  <2>2. QED BY <1>1, <1>3, <2>1
<1>4. CASE ~(c < Rank[b])
  <2>1. Distance(b, c) = Patience - c + Rank[b]
    BY <1>4 DEF Distance
  <2>2. Rank[b] <= c
    BY <1>1, <1>4
  <2>3. QED BY <1>1, <1>2, <2>1, <2>2
<1>5. QED BY <1>3, <1>4

\* The cursor the timer writes is nearer to every awaited object its run has not
\* found: it moved on, or it starts again below the object.
LEMMA CursorCloses ==
    ASSUME PatienceCovers, SweepTypes, TimerInv, at[Timer] = "storing",
           NEW b \in Bodies, Awaited(b), b \notin found[Timer]
    PROVE  Distance(b, NextCursor(Timer)) + 1 <= Distance(b, Cursor)
<1> USE SweepsHaveScopes
<1> DEFINE c == Cursor  a == after[Timer]  n == NextCursor(Timer)  r == Rank[b]
<1>1. /\ r \in Nat /\ r > 0 /\ r <= Patience /\ Patience \in Nat
      /\ c \in Nat /\ (c = 0 \/ c < Patience)
  BY KeysAreRanked, BoundsAreNat DEF PatienceCovers, TimerInv, CursorsKept, Places
<1>2. NotPassedOver(b) /\ Wrapped(b)
  BY DEF TimerInv, WaitsBounded
<1>3. TimerPass
  BY DEF TimerInv
<1>4. a \in {0, c}
  BY <1>3 DEF TimerPass
<1>5. CASE exhausted[Timer]
  <2>1. n = last[Timer] /\ n \in Nat /\ n > a /\ n < Patience /\ Budget[Timer] # 0
    BY <1>3, <1>5 DEF TimerPass, NextCursor, SweepTypes
  <2>2. r <= a \/ r > n
    BY <1>2, <1>5, <2>1 DEF NotPassedOver
  <2>3. a = 0 /\ c # 0 => r <= c
    BY <1>2, <2>1 DEF Wrapped
  <2>4. CASE a = c
    <3>1. CASE r > n
      <4>1. Distance(b, n) = r - n /\ Distance(b, c) = r - c
        BY <1>1, <2>1, <2>4, <3>1 DEF Distance
      <4>2. QED BY <1>1, <2>1, <2>4, <4>1
    <3>2. CASE r <= a
      <4>1. Distance(b, n) = Patience - n + r /\ Distance(b, c) = Patience - c + r
        BY <1>1, <2>1, <2>4, <3>2 DEF Distance
      <4>2. QED BY <1>1, <2>1, <2>4, <4>1
    <3>3. QED BY <2>2, <3>1, <3>2
  <2>5. CASE a = 0 /\ c # 0
    <3>1. r > n /\ r <= c
      BY <1>1, <2>2, <2>3, <2>5
    <3>2. Distance(b, n) = r - n /\ Distance(b, c) = Patience - c + r
      BY <1>1, <2>1, <3>1 DEF Distance
    <3>3. QED BY <1>1, <2>1, <2>5, <3>1, <3>2
  <2>6. QED BY <1>4, <2>4, <2>5
<1>6. CASE ~exhausted[Timer]
  <2>1. n = 0 /\ r <= a
    BY <1>2, <1>6 DEF NextCursor, NotPassedOver
  <2>2. a = c /\ r <= c
    BY <1>1, <1>4, <2>1
  <2>3. Distance(b, n) = r /\ Distance(b, c) = Patience - c + r
    BY <1>1, <2>1, <2>2 DEF Distance
  <2>4. QED BY <1>1, <2>2, <2>3
<1>7. QED BY <1>5, <1>6

LEMMA TimerStores ==
    ASSUME PatienceCovers, SweepTypes, TimerInv, FinishStore(Timer)
    PROVE  TimerInv'
<1> USE SweepsHaveScopes
<1>1. /\ at[Timer] = "storing" /\ at' = [at EXCEPT ![Timer] = "reporting"]
      /\ UNCHANGED <<pending, found, waited, alarms>>
  BY DEF FinishStore, AtStep, passVars
<1>2. Cursor' = NextCursor(Timer)
  <2>1. /\ cursors' = [copy[Timer] EXCEPT ![ScopeOf[Timer]] = NextCursor(Timer)]
        /\ copy[Timer] = cursors
    BY DEF FinishStore, TimerInv, CursorsKept
  <2>2. QED BY <2>1 DEF Cursor, SweepTypes
<1>3. NextCursor(Timer) \in Places
  BY <1>1 DEF NextCursor, TimerInv, TimerPass, Places
<1>4. CursorsKept'
  <2>1. \A q \in Sweeps : at'[q] # "storing"
    BY <1>1 DEF TimerInv, CursorsKept, SweepTypes
  <2>2. QED BY <1>2, <1>3, <2>1 DEF CursorsKept
<1>5. TimerPass'
  BY <1>1 DEF TimerInv, TimerPass, SweepTypes
<1>6. WaitsBounded'
  <2>1. damaged' = damaged /\ Expected' = Expected /\ object' = object
    BY TimerFrame DEF Sweeping
  <2>2. at'[Timer] = "reporting"
    BY <1>1 DEF SweepTypes
  <2>3. ASSUME NEW b \in Bodies, Awaited(b)'
        PROVE  b \in found'[Timer] \/ waited'[b] + Distance(b, Cursor)' <= Patience
    <3>1. Awaited(b)
      BY <1>1, <2>1, <2>3 DEF Awaited
    <3>2. waited[b] + Distance(b, Cursor) <= Patience + 1 /\ waited[b] \in Nat
      BY <1>1, <3>1 DEF TimerInv, WaitsBounded, SweepTypes
    <3>3. Cursor \in Places
      BY DEF TimerInv, CursorsKept
    <3>4. Distance(b, Cursor) \in Nat /\ Distance(b, NextCursor(Timer)) \in Nat
      BY <1>3, <3>3, DistanceBounds
    <3>5. Distance(b, Cursor)' = Distance(b, NextCursor(Timer))
      BY <1>2 DEF Distance
    <3>6. CASE b \notin found[Timer]
      <4>1. Distance(b, NextCursor(Timer)) + 1 <= Distance(b, Cursor)
        BY <1>1, <3>1, <3>6, CursorCloses
      <4>2. QED BY <1>1, <3>2, <3>4, <3>5, <4>1, BoundsAreNat
    <3>7. QED BY <1>1, <3>6
  <2>4. QED BY <1>1, <2>1, <2>2, <2>3 DEF TimerInv, WaitsBounded
<1>7. QED BY <1>4, <1>5, <1>6 DEF TimerInv

\* A run of the timer is over: reported, or killed, after which the counts start
\* again.
LEMMA TimerReports ==
    ASSUME PatienceCovers, StoreFacts, SweepTypes, TimerInv, Report(Timer)
    PROVE  TimerInv'
<1> USE SweepsHaveScopes, BoundsAreNat
<1>1. /\ at[Timer] = "reporting" /\ at' = [at EXCEPT ![Timer] = "idle"]
      /\ pending' = [pending EXCEPT ![Timer] = {}]
      /\ copy' = [copy EXCEPT ![Timer] = [c \in Scopes |-> 0]]
      /\ UNCHANGED <<cursors, sweepLock>>
      /\ alarms' = alarms \cup found[Timer]
      /\ waited' = [b \in Bodies |-> Count(b)]
  BY DEF Report, Finished, AtStep
<1>2. CursorsKept' /\ Cursor' = Cursor
  BY <1>1 DEF TimerInv, CursorsKept, Cursor, SweepTypes
<1>3. TimerPass'
  BY <1>1 DEF TimerPass, SweepTypes
<1>4. damaged' = damaged /\ Expected' = Expected /\ object' = object
  BY TimerFrame DEF Sweeping
<1>5. ASSUME NEW b \in Bodies
      PROVE  /\ waited'[b] \in 0..Patience
             /\ waited'[b] > 0 => b \in damaged /\ b \in Expected
             /\ Awaited(b)' => waited'[b] + Distance(b, Cursor) <= Patience + 1
  <2>1. waited'[b] = Count(b) /\ waited[b] \in 0..Patience
    BY <1>1 DEF TimerInv, WaitsBounded
  <2>2. Distance(b, Cursor) \in 1..Patience
    BY DistanceBounds DEF TimerInv, CursorsKept
  <2>3. CASE b \in Unheard(alarms \cup found[Timer])
    <3>1. b \in Expected /\ object[b] # "intact" /\ b \notin alarms /\ b \notin found[Timer]
      BY <2>3 DEF Unheard
    <3>2. b \in damaged
      BY <3>1, ExpectedAreStored DEF StoredBodies
    <3>3. waited'[b] = waited[b] + 1
      BY <2>1, <2>3 DEF Count
    <3>4. waited[b] + Distance(b, Cursor) <= Patience
      <4>1. CASE waited[b] > 0
        BY <1>1, <3>1, <4>1 DEF Awaited, TimerInv, WaitsBounded
      <4>2. CASE ~(waited[b] > 0)
        BY <2>1, <2>2, <4>2
      <4>3. QED BY <4>1, <4>2
    <3>5. QED BY <2>1, <2>2, <3>1, <3>2, <3>3, <3>4
  <2>4. CASE b \notin Unheard(alarms \cup found[Timer])
    <3>1. waited'[b] = 0
      BY <2>1, <2>4 DEF Count
    <3>2. QED BY <3>1 DEF Awaited
  <2>5. QED BY <2>3, <2>4
<1>6. WaitsBounded'
  <2>1. at'[Timer] = "idle" /\ waited' \in [Bodies -> 0..Patience]
    BY <1>1, <1>5 DEF SweepTypes
  <2>2. \A b \in Bodies : Distance(b, Cursor)' = Distance(b, Cursor)
    BY <1>2 DEF Distance
  <2>3. QED BY <1>4, <1>5, <2>1, <2>2 DEF WaitsBounded
<1>7. QED BY <1>2, <1>3, <1>6 DEF TimerInv

LEMMA TimerDies ==
    ASSUME SweepTypes, TimerInv, SweepDies(Timer)
    PROVE  TimerInv'
<1> USE SweepsHaveScopes, BoundsAreNat
<1>1. /\ at' = [at EXCEPT ![Timer] = "idle"]
      /\ pending' = [pending EXCEPT ![Timer] = {}]
      /\ copy' = [copy EXCEPT ![Timer] = [c \in Scopes |-> 0]]
      /\ sweepLock' = IF sweepLock = Timer THEN Nobody ELSE sweepLock
      /\ UNCHANGED cursors
      /\ waited' = [b \in Bodies |-> 0]
  BY DEF SweepDies, Finished, AtStep
<1>2. CursorsKept'
  BY <1>1 DEF TimerInv, CursorsKept, Cursor, SweepTypes
<1>3. TimerPass'
  BY <1>1 DEF TimerPass, SweepTypes
<1>4. WaitsBounded'
  BY <1>1 DEF WaitsBounded, Awaited
<1>5. QED BY <1>2, <1>3, <1>4 DEF TimerInv

\* An object that a manifest names and that is missing or damaged is reported
\* within as many timer runs, one after the other, as there are keys, whatever
\* the budget and the sizes, where the cursor stands and what sweeps of other
\* scopes, harvests and backups do (raw_integrity.py:123).
THEOREM DamageIsHeard ==
    ASSUME TimerApart, PatienceCovers
    PROVE  CareSpec => []DamageReported
<1> USE SweepsHaveScopes, BoundsAreNat
<1>1. CareInit => SweepTypes /\ TimerInv
  <2> SUFFICES ASSUME CareInit PROVE SweepTypes /\ TimerInv
    OBVIOUS
  <2>1. SweepInit
    BY DEF CareInit
  <2>2. SweepTypes
    BY <2>1 DEF SweepInit, SweepTypes
  <2>3. CursorsKept /\ TimerPass /\ WaitsBounded
    BY <2>1 DEF SweepInit, CursorsKept, Cursor, Places, TimerPass, WaitsBounded, Awaited
  <2>4. QED BY <2>2, <2>3 DEF TimerInv
<1>2. StoreFacts /\ StoreFacts' /\ SweepTypes /\ TimerInv /\ [CareNext]_careVars
      => (SweepTypes /\ TimerInv)'
  <2> SUFFICES ASSUME StoreFacts, StoreFacts', SweepTypes, TimerInv,
                      [CareNext]_careVars
               PROVE  (SweepTypes /\ TimerInv)'
    OBVIOUS
  <2>1. CASE UNCHANGED sweepVars
    <3>1. SweepTypes'
      BY <2>1 DEF sweepVars, SweepTypes
    <3>2. QED BY <2>1, <3>1, QuietSweeps
  <2>2. ASSUME NEW s \in Sweeps, Sweeping(s) \/ SweepDies(s)
        PROVE  (SweepTypes /\ TimerInv)'
    <3>1. SweepTypes'
      BY <2>2, SweepTypesStep
    <3>2. CASE s # Timer
      BY <2>2, <3>1, <3>2, OtherSweeps
    <3>3. CASE s = Timer
      <4>1. ~SkipStore(Timer)
        BY DEF SkipStore
      <4>2. TimerInv'
        BY <2>2, <3>3, <4>1, TimerBegins, TimerVisits, TimerStops, TimerStores,
           TimerReports, TimerDies DEF Sweeping
      <4>3. QED BY <3>1, <4>2
    <3>4. QED BY <3>2, <3>3
  <2>3. QED BY <2>1, <2>2 DEF CareNext, SweepStep, careVars
<1>3. TimerInv => DamageReported
  BY DEF TimerInv, WaitsBounded, DamageReported
<1>4. QED BY <1>1, <1>2, <1>3, StoreFactsHold, PTL DEF CareSpec
=============================================================================
