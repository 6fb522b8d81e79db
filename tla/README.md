# TLA+ models of the usa-wa pipeline

Formal models of the parts of this repository where an order of events nobody
wrote a test for could publish something wrong: the raw store with its backups
and sweeps, the dataset publisher, the serving loader, the identity registry,
the operator events, the tenure build, the nightly chain of jobs and the
migrations. Each is translated from the source, checked by TLC on small
instances, and, for what matters most, proved by TLAPS for every value of its
constants.

`PROJECT.json` lists the components, the runs, the mutants that show each
property can fail, the source lines every definition stands for, the hazards of
the code and the findings.

    tlasany Registry.tla                            # parse
    tlc -config MCRegistry_one.cfg MCRegistry.tla   # model-check
    tlapm Registry_proofs.tla                       # check the proofs

## The system

Once a night `scripts/pipeline-nightly.sh` runs the chain below. Each stage is a
process of its own; stages meet only through files and PostgreSQL.

    harvests -> raw store -> dbt build (duckdb) -> registrar -> publish
                  |  ^            ^                   |            |
       backup, sweep |            +---- registry <----+            v
                restore  operators -> adjudicate --^   datasets/ + catalog.json -> load
                                                                    -> serving schema -> API

| Component | State it keeps | Operations | Modelled by |
|---|---|---|---|
| Raw store (`clearinghouse_core/rawstore.py`) | `objects/<sha>`, `runs/<id>.json`, `latest.json`, `.latest.lock` | open run, fetch or skip, store object, close, update index, rebuild index | `RawStore` |
| Harvest loops (`*/raw_harvest.py`) | a run's buffer, in memory | the loop of `record_fetch`, close in `finally` | `RawStore` (the fetch steps) |
| Backup and mirror (`usa_wa_api/backup/`) | bucket | list, hash, upload, check in, fetch | `RawMirror` (the raw half) |
| Integrity sweep (`raw_integrity.py`) | cursor file | slice, wrap, merge findings, store the cursor | `IntegritySweep` |
| Dataset publisher (`usa_wa_pipeline/publish.py`) | version directories, `catalog.json`, `.tmp-*` | sweep, gate, stage, mint or carry forward, flip | `Publisher`, `PublishedTree` |
| Serving loader (`usa_wa_api/serving/`) | tables of schema `serving`, `load_state` | drop drifted tables, read a catalog, verify, replace rows, commit | `ServingLoad` |
| Registry, registrar, adjudication (`registry.py`, `registrar.py`, `adjudicate.py`) | `entities`, `entity_keys`, `adjudications` | decide and bind clusters; merge, unmerge, move, register | `Registry` |
| Operator events (`operator_events.py`, `operators/`) | event rows, archived bodies | record, supersede, retract, flush after commit | `OperatorEvents` |
| Tenure build (`conformed/spans.py`, `tenure_spans.py`, `operator_overlay.py`, `seat_clipping.py`, `movers.py`, `windows.py`) | none: one build over its inputs | build spans, overlay events, carry movers, date edges, curate, clip, publish | `TenureSpans`, `OperatorOverlay`, `ChamberMoves`, `AnnotationWindows`, `SeatClipping`, `SpanNarrowing`, `ConformedSpans` |
| House seats (`usa_wa_facts_seats`, `roster_hygiene.py`, `house.py`) | none | roster hygiene, ballots, seeds, elimination, back-chain | `HouseSeats` |
| Job harness and run ledger (`job.py`, `runs.py`) | one transaction, `job_runs` | open ledger row, run handler, commit or roll back, close ledger row | `JobHarness` |
| Nightly chain (`pipeline-nightly.sh`, `rollover-rehearsal.sh`) | count of failures | run stages, contain or abort, rehearse | `NightlyChain` |
| Migrations (`alembic/`, `migrate.sh`, `grants.sql`) | the schema, `alembic_version` | upgrade, downgrade, grant | `SchemaOps`, `CanonicalRevisions`, `MirrorRevisions`, `RegistryRevisions`, `RevisionChain`, `Migrations` |
| Source coverage, probes, warnings gate | claim rows | seed, query | stages of `NightlyChain` only |
| Read API, transports, staging readers, PDF and names, deployment | none | | see "Not modelled" |

What is hard here:

* **Files shared by processes with no coordinator.** Harvests of one source
  overlap (the timer and a backfill), each ending in a read-modify-write of one
  index file; a rebuild, a backup and a sweep may run beside them.
* **Kills between two renames.** A publisher renames several directories, then
  one catalog file. Readers and the next run see every intermediate state.
* **READ COMMITTED.** Every check in the registry and the loader is a statement;
  what it read may have changed by the time of the write, and only primary keys
  and row locks stand between.
* **Sequences of legal nights.** Row counts, contracts, schema versions,
  overrides, delistings and rollbacks are each legal; the gates have to hold over
  all their sequences.
* **Failures that are contained.** A failed stage is counted and the chain goes
  on with what it left; a degraded run commits what its handler did before it
  found out that the run was not going to work.
* **Rules that meet on one span.** A tenure passes through eight rules (merging,
  overlay, movers, windows, curations, two axes of the clip); each was written
  for its own case and reads what the ones before it left.
* **A long chain of migrations.** Fifty revisions, each written against the
  schema of its day, must fit one another upward and back.

What makes each component correct, in one line: the index names stored fetches
and never goes back; what the bucket holds can be restored, and damage is heard
of; the catalog lists only whole versions, honest about their contract and never
silently smaller; the served tables are one published catalog and `load_state`
says which; who is who changes only by a decision the ledger records; what an
operator attested bounds the tenures; a night nobody was mailed about is fresh to
the last table; and a migration keeps what was attested.

## The modules

An MC module gives one instance to several questions where they are about one
module: `MCFocus` is a disjunction of state predicates, one per question, and the
instance's specification allows every step of the module that stays within it.
A focus keeps the actors of the other questions at rest or fixes what a question
does not vary; it removes behaviours, never adds one. Each predicate is commented
with what it asks.

### RawStore

One source's directory. A run's life is `OpenRun`, then for each resource
`SkipFresh`, or `BeginFetch` and one of `FetchFails`, `FetchAborts`,
`FetchUnchanged`, `FetchNewBody` + `StoreObject` (the `await` in `record_fetch`
and the tmp file of `put_object` are the two places where others may act), then
`CloseManifest`, `BeginUpdate` and `FinishUpdate` (read and replace the index
under the flock). `BeginRebuild`, `ReplayManifest` and `FinishRebuild` are
`rebuild_latest`. `Crash` kills any process at any step, `Damage` corrupts or
removes an object's file once, `Tick` moves the clock.

A body stands for its sha256. A damaged file is `"corrupt"` or `"absent"`;
`put_object` looks at the name only, which is why `AlreadyStored` is true of a
corrupt file. `FetchAborts` is an error that leaves `record_fetch`; the
harvester's `finally` still closes the run. `FinishUpdate` merges from `buffer`,
which is what `close()` passes on. A torn manifest or index cannot happen: both
are written to a tmp file and renamed.

`StoreCare` composes it with the two modules below; all interleave over the same
objects and manifests.

Fairness: `BeginUpdate`, `FinishUpdate` and the steps of a rebuild are weakly
fair. They are straight-line code with no wait but the flock, which the kernel
releases when its holder dies. Fetching, opening a run and starting a rebuild
carry no fairness: a source may hang for ever. A kill stays possible at any time,
so `ManifestReachesIndex` promises "indexed or dead".

### RawMirror

A backup lists manifests, then the other files, then the bucket, hashes each
object against its name, uploads it create-only, ships manifests after objects,
and checks in. `HashObject` and `UploadObject` are two steps: an object may be
damaged between them, and a listed file may be gone (`RawHalfRaises`). The timer's
run and one by hand overlap; a rehearsal uploads and reports nothing. `BackupDies`
may follow any step. `FetchObjects` and `FetchManifests` are `fetch_mirror`, which
refuses a body that is not its name. The dump is only whether it shipped.

### IntegritySweep

A sweep starts from its scope's cursor, verifies keys in order until its budget is
spent or the tail is reached, wraps once if a pass from a cursor found nothing
left, merges what both passes found, and rewrites the cursor file under its lock
(`BeginStore`, `FinishStore`). The timer's sweep and one by hand have scopes of
their own in one file. `waited` counts the timer's runs since an unreported
object was found damaged; `Patience` is the slices of a cycle. The count starts
again after a kill, which loses what a run had found.

`MCStoreCare` asks three questions: two overlapping harvests, a rebuild, a clock
past the TTL, a damaged object and a kill (two runs are enough for every conflict
on the index, the flock makes a third wait like the second; rows of different
resources merge independently, so one resource suffices; the clock is 0..2 with
TTL 1, so an entry may be fresh, at the edge and expired); a backup by the timer
meeting two landing runs and a damaged object, one by hand or a restore after
them; sweeps of three objects of sizes 1, 2, 1 with budgets 1 (timer) and 2 (by
hand), so that a cycle takes three slices and the cursor stands everywhere.
Deadlock is not checked: runs end and are not restarted.

### Publisher and PublishedTree

`Begin` sweeps strays and reads the catalog; `Stage` and `Refuse` take the
datasets in any order through the five gates (`Passes`: table present, floor,
volume window, contract bumped, version not lowered); `StartMinting` takes the
instant of the run; `CarryForward` or `Mint` deals with each dataset; `Flip`
replaces the catalog. `Crash` may follow any of them and cleans nothing.
`Rebuild`, `Declare` and `ListOrDelist` change the build, the declared releases
and the list of datasets between runs.

A table is its row count, a body and a contract. The volume gate is exact
arithmetic: `Shrinks` cross-multiplies the ratio, `Baseline` is the replay of
`_shrink_baseline` as a recursive function, `RowHistory` reads the directories as
the code does, orphans included. `--max-shrink` is either the default or 1.0 (the
override; other values make the gate stricter or laxer in between). The order in
which the code takes the datasets is left open, which only adds behaviours. The
version name and `run_at` are one stamp: they are taken at different moments of a
run, but both are unique to it and only their order between runs matters, and one
publisher runs at a time. Not modelled: entries published before contract hashes
existed, the `or [prior["rows"]]` fallback (directories are never removed), the
refreshed `derived_from` of a carried entry, an I/O error while gating (the
`except` removes the tmp directories, as `Refuse` does; `Crash` covers the rest).

`PublishedTree` is the abstract specification: what readers may rely on, in two
actions. `ImplementsTree` checks that every step of `Publisher` is a step of it
or a stutter, with the identity mapping on `dirs` and `catalog`. `ServingLoad`
extends it: the loader is checked against that promise, not against the
publisher's details, so the two modules compose through it.

`log` is a history variable: the versions each catalog listed.

`MCPublisher` asks three questions. *Kills*: two datasets of one size, two contracts
and versions, two publishing runs and one kill; two datasets are needed for a
partial set, two runs and a kill for a directory a later run could collide with or
trip on. *Gates*: one dataset (datasets are gated independently), row counts 85,
92 and 100 against a 10% gate and a window of 2: 100 -> 92 -> 85 passes every
pairwise gate and must fail the window. Four runs let a window fill, an override
restart it and a further version be gated by the restarted window. *Orphans*: the
same with one kill, no override and no bump, so that a directory no catalog listed
lies beside the history. `MCPublisher_orphan` is the gate question with one kill.

### ServingLoad

A loader runs `Start`, `Inspect`, `DropDrifted`, `CheckPublished`, `ReadCatalog`,
one `ReadDataset` per served dataset, `StartWriting`, then for each table and its
`load_state` row `BeginDelete`, `FinishDelete` and `Insert`, then `Commit`; or
`CommitUnpublished`, `Refuse` or `Abort`. Loaders interleave statement by
statement. PostgreSQL is modelled by what these statements can observe: a
`DELETE` works on the rows committed when it began and waits for the transactions
that hold one of them, an `INSERT` waits for uncommitted rows of its key and
fails (`Abort`) on a committed one, a dropped table is locked until the end of the
transaction. A relation's content is the set of versions whose rows are in it;
`Keyed` says that two versions of one dataset share a primary key, which holds
because entity ids and natural keys last from version to version and no served
dataset may be empty (`min_rows`).

`MCServingLoad` asks two questions with two loaders. *Overlap*: two datasets, two
versions of each, three catalogs, no deploy. Two loaders give every pair of
statements in either order; two versions of each dataset and three catalogs give a
load that straddles a flip in every position. *Drift*: one dataset changes its
columns over two deploys while the other keeps its version. The loaders are
symmetric. Deploys happen between loads, as the deployment procedure has it. The
first creation of the tables is not modelled. `MCServingLoad_bare`: one loader
that may be pointed at a root without a catalog.

### Registry

The registrar is one transaction: `ReadKeys` and `ReadMerges` (two statements),
then `LeaveCluster` or `BindCluster` per cluster, then `RegistrarCommits` or
`RegistrarRollsBack`. The clusters are any disjoint sets of keys that the
matching rules may propose, so a rule that changes its mind from night to night is
included. Each adjudicator is a process: its checks (`ReadLoser`, `CheckSurvivor`,
`ReadTombstone`, `CheckDestination`, `ReadKey`, `CheckUnbound`) read what is
committed at that moment, `Record` inserts the ledger row, `Write` changes the row
it decides, waiting for a concurrent writer of the same row but repeating no
check, and `AdjudicatorCommits` makes both visible. The ledger row goes first
because SQLAlchemy flushes it first in merge and unmerge and `adjudicate_move` and
`adjudicate_register` flush it explicitly. A dry run is a rollback. The refusal of
a key that shares its fold is what `--distinct-person` overrides, so it excludes no
behaviour. One kind is modelled; kinds share nothing but tables.

`MCRegistry_one`: two WSL keys and a roster key over three entities, the registrar,
one operator, three decisions (a merge, what undoes it, and one more).
`MCRegistry_two`: the same with two operators and two decisions. Entities are
symmetric, and so are the two WSL keys.

### OperatorEvents

A CLI command is a process with one transaction. `Begin` takes what the operator
typed; `Load` selects the row named by `--supersede` or `--retract` and `Check`
the row of the event's own key, each with the refusals of the code (a refused
command can only roll back); `Check` and `Retract` buffer the body with its time,
before the write as the code does. `Insert`, `Update`, `UpdateNothing`, `Stamp`
and `StampRetraction` are the statements SQLAlchemy flushes. They are written to
what READ COMMITTED makes of them: the session keeps the row as it was selected
(`seen`), an `UPDATE` carries only the columns that differ from that, waits for
the row's lock, and applies to the row as it stands by then, where the check
constraint is evaluated. A locked row's uncommitted version is `mine`; `Commit`
makes it visible. An insert that meets a committed row of its key, a violated
constraint and a broken deadlock all end in `Rollback`, which may happen at any
time, as a kill or `--dry-run` may.

After the commit `Dedup` reads the newest archived body of the key and `CloseRun`
records the buffered one; between and during them the process may die
(`LoseArchive`, with or without its manifest). The raw store is represented by
`latest` and `archived` only: `RawStore` shows that a closed run is in the index,
which never goes back.

The rows are those of one member and one seat. A fact is a reason with its
evidence; who entered an event, and the evidence of a retraction, are left out.
`overlapped` and `writer` are history variables. Not modelled: a `--file` batch
(several of these writes under one commit) and the committee-link twin, which has
no retraction and does not check the prior row.

`MCOperatorEvents`: two dates of a departure and its reading as a vacated seat,
two facts, three commands, all of them possibly under way at once. Three commands
are one to record and two to race or to follow (X, Y, X again; a correction and
another of the same row; a correction and its retraction). Commands are numbered
as they begin, which removes their symmetry; facts and dates are symmetric.
Deadlock is not checked: the commands end. `MCOperatorEvents_cycle`: one command
at a time.

Three properties are stated for commands that do not overlap, because they hold
only then: TLC refutes each without that condition (two operators at once may
re-stamp a link, and may archive in the opposite order of their commits). The
hazards in `PROJECT.json` say which.

### The tenure build

`ConformedSpans` is the build of `conformed/spans.py`, step by step in its order:
committees, House, mover committees, sponsors, roster, windows, curations, clip,
publish; or `refused` (the build raises on purpose) or `aborted` (a span's
constructor raised). Its steps call the operators of the modules it rests on, one
module per source file: `TenureSpans` (spans, their constructor's conditions,
merging of biennia, party continuity), `OperatorOverlay` (departed, vacated,
seated), `HouseSeats` (hygiene, ballots, seeds, elimination, back-chain),
`ChamberMoves` (a move within a biennium), `AnnotationWindows` (the roster's
dates, substitutes, never-seated rows). The clip is the part that reads and writes
one list pair by pair, so `SeatClipping` has its steps as actions: `ClipMove` for a
member's own pairs, `ClipPair` for a seat's. `SpanNarrowing` is the abstract
specification of the clip: one edge of one chamber seat is narrowed at a time, to a
derived one, what is known of the other edge is only cut to fit, no start leaves its
key's biennium, no span is emptied, and an edge that is stated to the day never moves;
the property `NarrowsOnly` is that specification.

`DeparturesHold` has three exceptions, all of them the code's. A member seated on the
departure's own day moved (`_seated_at_this_instant`). One who comes back elsewhere in
the biennium of the tenure's key keeps it whole, because a second tenure would bear the
same key (`_split_tail`); any later row of another seat counts as coming back, a party
row too, and `merge_party_continuity` may then absorb that row, so the property reads
returns from the rows as they are listed. A rest that an earlier departure split off
starts where another tenure does, and a later departure may find the member seated
again on the rest's own seat: that is a return as well. And a clause is applied after
the events: it may bring the start of a tenure forward to before a departure in the
biennium before. It cannot where a seating dates that start, except that a seating in
the biennium before dates the earlier tenure of the seat when there is one
(`_seating_targets`), and the clause then the later.

A biennium is four days, a day a number, a member, district or party a number
whose order is its identifier's. Names are reduced to whether two surnames are
equal. Entities, the roster match and the shape of other models' rows are input.

`MCConformedSpans` enumerates inputs, and the build is deterministic from there.
Three biennia: one before, one of, one after an event; four days so that a day may
be first, last, or strictly inside on either side of another. Members 1 and 2 are
the archive's, 3 a roster identity, 4 shares member 1's surname. The families of
inputs are: one career under two events; two holders of one seat, of one family or
both; three holders in one biennium; a neighbouring district with a period of two
lawful holders; two roster rows with clauses; curations; a member of two districts who
departs and is seated again; a mover and a successor
of the same name; and ballots with specials, an archive with holes and what the
build refuses. Deadlock is not checked: the build ends.
`MCConformedSpans_return`: a senator who leaves the seat and takes it again.

### JobHarness and NightlyChain

`JobHarness` is `run_job`: open the ledger row, run the handler, commit or roll
back, close the row. Both ledger writes may fail and are best effort; the handler
may return any outcome, raise, or exit (`SystemExit`, which the harness does not
catch); the commit may raise after an ok. A job writes through the session, or, as
harvests and the publisher do, into files, which no rollback undoes.

`NightlyChain` runs the stages over it. What a stage produces is told by nights:
`made.raw[h]` is the last night harvest `h` landed, and a build, the registry, the
catalog and the served tables each hold the nights of the wires they were made
from, so "fresh" is an equation and not a flag. A failed build ends the night and
may leave `Partial`, models of two nights; any other failure is counted and the
chain goes on. `Kill` is the unit's timeout or a signal. A rehearsal takes whatever
roots its caller set (`Envs`, the production checkout and a directory above it
included) through the refusals of the script. Operators run loads, seeds and
adjudications between nights. A by-hand job or a rehearsal that overlaps the
nightly is not modelled (the rehearsal looks at the unit only when it starts), nor
is a resource that failed within a harvest which counted others as good.

### Migrations

A revision is a pair of sequences of steps, `up` and `down`, in the vocabulary of
`SchemaOps`: schemas, tables, the columns some revision changes, foreign keys, and
the keys and checks some revision changes. `Apply` says what a step does and when
PostgreSQL refuses it, for the schema ("schema") or for rows a stricter rule
refuses ("rows"). All fifty are in `CanonicalRevisions`, `MirrorRevisions` and
`RegistryRevisions`, by era; `RevisionChain` orders them. Column types, plain
indexes and the data backfills' text are abstracted.

`Migrations` is the migrate unit: alembic applies revisions one by one in a single
transaction, which commits as a whole or leaves nothing; then `grants.sql`. It may
be killed before either; an operator may downgrade as far as he likes; jobs write
rows between runs. A downgrade may be refused by rows. `Straight[n]` is the
database after the first n - 1 revisions, the reference the others are compared
with.

`MCOperations` explores migrations and the chain each with the other at rest, for
they share nothing the models follow. Migrations start at every revision, with or
without grants, and two transactions follow, so a schema is reached upward, back,
and down and up again. The followed tables are those that survive drops and moves
(operator events, adjudications), one that does not (bills) and one whose check is
narrowed (the outbox). Two harvests (one with an accepted outage), one probe, two
nights (what a failed night leaves meets a good one), two rehearsals. Deadlock is
not checked: the nights end.

## What the runs show

| Run | Shows |
|---|---|
| `rawstore` | index backed by manifests, closed runs indexed; the index never regresses; tampering is never laundered; every manifest is indexed or its process dead; what the bucket gives back is whole; the monitor hears ok only of backups that shipped everything; damage is reported within a cycle |
| `publisher` | no partial catalog, whatever is killed; a finished run describes its build; the publisher implements `PublishedTree`; one schema version is one contract, over deploys, rollbacks and delistings; no churn; no shrink over the window without an override, orphans aside |
| `publisher_orphan` | finding 1 |
| `serving` | what is served is one published catalog, and `load_state` names it, with two loaders and a publisher interleaved; rows always fit their table over model changes |
| `serving_bare` | finding 2 |
| `registry_one` | no tombstone cycle, the ledger replays to the tombstones and bindings, clusters stay whole, identity changes only by adjudication |
| `registry_two` | finding 3 |
| `events` | no row both superseded and retracted, and nothing archived without its row, however commands overlap; while they do not: a landed flush leaves the newest body naming the row, a retraction stays the newest body, a link is never re-stamped |
| `events_cycle` | finding 4 |
| `tenures` | no seat or committee runs across its holder's departure; boundaries agree with their basis and key; two principals who certainly held one seat at once are in the clip's report; House positions are named by ballots, hops and maps and never guessed; the clip only narrows |
| `tenures_return` | finding 5 |
| `operations` | every revision fits the schema it meets, the chain is reversible, attested rows survive, the application can read and write what the unit left; a quiet night is fresh to the served tables, no partial build travels, ok rows landed, a rehearsal touches nothing |

Findings, each a run that expects a violation of what the repository says:

1. `_row_history` counts a version directory that was minted by a killed run and
   never listed, once a later version is listed; its docstring says such a
   directory is left out (`publish.py:1012`). Counted, it can refuse a sound build,
   and it can hide a shrink: after 110 rows, an orphan of 200 and 100 rows the
   replay takes the 100 for an accepted override (`publish.py:1034`) and 91 rows
   ship, 17% below the 110 of two versions before. `ShrinkGated` is therefore stated
   for histories without an orphan.
2. A load that finds no catalog commits the emptied tables it had rebuilt, while
   `load_state` keeps describing them (`load.py:277`, `load.py:306`).
3. Two operators merging in opposite directions at once make the tombstone cycle
   that the live-survivor check is documented to prevent (`adjudicate.py:76`).
4. Correcting an event's date and correcting it back leaves two rows superseded by
   each other and none current; a correction is documented to append a row
   (`operator_events.py:27`).
5. A member recorded as leaving a seat and taking it again within one biennium gets
   two tenures under one key, which `dbt/tests/assignments_key.sql:5` says the
   engine cannot produce; the dbt build fails on it until the events are edited.

Every property of a passing run has a mutant: a plausible bug in one mapped
definition that makes TLC find the property violated under the same
configuration. The mutants' definitions stand beside the ones they replace,
marked `Mutant`.

## What is proved

The theorems assume the `ASSUME`s of the modules: constants are numbers where the
code has numbers, sentinels differ from values, runs are ordered, sizes are
natural numbers, every key has a rank of its own (`KeysAreRanked`,
`KeysAreDistinct`), every sweep a scope (`SweepsHaveScopes`), a published list
names a dataset once (`ServedOnce`), entities are finitely many
(`EntitiesAreFinite`), and a build reads finitely many rows of numbered districts,
candidacies for two positions, and events and clauses on days of the calendar, a
clause's window in order and, as a month, a year or an election day, in one biennium;
an identity the edition mints is no member the archive names (`InputAssumption`).
What a theorem needs beyond these is a hypothesis in its statement and is named below.

* **RawStore** (first part of `StoreCare_proofs`), for any runs, resources, bodies, TTL:
  `TypeCorrect`; `IndexIsBacked`; `IndexAdvances`; `ClosedRunsAreIndexed`;
  `TamperStays`.
  `IndexBacked` is not inductive: a flock holder writes a copy it read before.
  `AllBacked` adds that such a copy is backed too; `ManifestIsBuffer` says a
  manifest is its run's buffer, and `Flock` that only the holder merges. That the
  index never regresses needs `Current`: a closing run holds the current index,
  and a rebuild has replayed, or has still queued, the manifest behind every row.
  That a damaged object is never laundered rests on `ObjectWriters`: the one step
  that writes an object writes it where there is none.
* **StoreCare** (its second part), the store with backups, a restore and sweeps
  beside it. `CareIsStore`: every step is a step of `RawStore` or a stutter, so the
  theorems above hold of the composition and are used here.
  `OkIsShipped` and `RestoresAreWhole` need `MirrorInv`, what a backup has listed,
  copied and still owes at every stage, and that a bucket never loses a key;
  `RestoreInv` says the same of a restore that no backup overlaps. `AlarmsAreReal`
  needs `SweepInv`: a sweep holds bytes it read from the store.
  `DamageIsHeard`, that a damaged object is reported within as many timer runs as
  there are keys, has two hypotheses: `TimerApart`, no other sweep has the timer's
  scope (a by-hand sweep of that scope moves the same cursor past the key), and
  `PatienceCovers`, the run count it allows is the number of keys. `TimerInv` is its
  invariant: cursors stay in the ring (`CursorsKept`), a pass under way has read what
  lies between its start and its position (`TimerPass`), and a key not reported
  yet has waited at most the `Distance` the cursor has come round (`WaitsBounded`).
* **Publisher** (`Publisher_proofs`), for any datasets, builds, releases and
  number of kills: `TypeCorrect` (with `RunShape`: a minting run has gated every
  listed dataset), `CatalogNeverPartial` (with `DirsWrittenOnce`: a run mints under
  a stamp no directory bears), `VersionsPinContracts` (with `LogEndsWithCatalog`:
  the log ends with the catalog's entry and what a run is about to list succeeds
  it, so pairs of the log follow by transitivity), `RunsDescribeTheirBuild`
  (with `EntriesDescribeBuild`: the entries a minting run holds describe the build
  of every dataset it has `Reached`, which the build cannot leave under it) and
  `VersionsNeverChurn` (two successive entries of the log differ in what they
  contain, because an unchanged dataset carries its entry forward).
  `ShrinksNeverSilent` is about the recursive replay of the gate. Its invariant,
  `GateInv`, says that listed versions stand on disk in the order they were listed
  (`ListedStand`), that a run's builds passed the gate of its day (`VolumeGated`),
  and that so did every listing without an override, over the history of its time
  (`GatedThen`). The rest is an argument about histories (`PairGated`): without
  orphans the listings are the last places of the history (`RankNext`), an earlier
  history is a prefix of a later one (`HistoryPrefix`), a version that passed does
  not restart the count (`PassedStays`), so the window reaches back to the older
  listing (`WindowReachesBack`) and the gate of the younger one bounds it.
  `PublisherImplementsTree` maps each step to a step of `PublishedTree` or a
  stutter: a mint to an `Add`, the catalog's rename to a `FlipTo` the accumulated
  entries, and a kill to nothing.
* **ServingLoad** (`ServingLoad_proofs`), for any loaders, datasets, catalogs and
  deploys: `TypeCorrect`, `LoadsOneCatalog`, `TablesHoldTheirContract`,
  `StateNeverOutlivesRows`, `LoadersMeetEveryTreeStep`. A load that holds the tables
  has read one catalog and written whole tables up to its position, and what it has
  dropped is empty until it is filled. `StateNeverOutlivesRows` has the hypothesis
  `Roots = {"published"}`: a loader pointed at a directory with no catalog deletes the
  rows and keeps the state, which is the finding of `serving_bare`.
* **Registry** (`Registry_proofs`), for any keys, entities, proposals and any
  number of operators at once: `BindingsAreExplained` (`TrailInv`: decisions in
  flight have ids of their own, two written decisions hold different rows, the
  registrar inserts only unbound keys), `ClustersAreWhole` (`ClustersInv`) and
  `IdentityIsSticky`. With the hypothesis `OneOperator`: `EveryoneSurvives`, that
  tombstones never form a cycle, and `TrailReplays`, that the ledger replays to the
  tombstones. With two operators both are false, which is what
  `registry_two` shows. `Resolve` is a recursive function: that it exists
  and what it returns is proved by `SetInduction` (a set of numbers that holds 0 and
  the successor of each of its members is `Nat`; the least number outside it says
  so), from which come `WalkExists` and the walk's unfolding. `MergeInv` then says
  that every walk ends at a live entity and that an open merge, checked before it
  wrote, still joins two walks that end apart.
* **OperatorEvents** (`OperatorEvents_proofs`), for any keys, facts and number of
  commands under way at once: `TypeCorrect`, `NeverBoth` and `ArchiveNeverAhead`.
  `ArchiveFollowsRows` needs that no update loses a retraction: `LocksExclusive`
  (one command at most holds a row), `MineCurrent` (what it holds was taken from
  the committed row and keeps its retraction), and `CommandShape`, which carries
  the buffered body's claim from the write through the commit to the flush.
  While no two commands have overlapped (`~overlapped`, a condition the three
  properties state themselves): `RecoveryWorks`, `RetractionStays`, `LinksStay`.
  Their invariant adds `Books`, what archive and rows say of each other between
  commands, and `OneAtATime`, what the one command under way may have changed:
  its locks and writes fit the rows it read, and the body it is to flush is the
  committed row's.
* **ConformedSpans** (`ConformedSpans_proofs`). Of the clip alone,
  for any spans, calendar and periods of several holders: `ClipTypeCorrect` (a clip
  never empties a span or turns it round, so its constructor never refuses one) and
  `ClipNarrowsOnly`: every step of `ClipSpec` is a step of `SpanNarrowing` or a
  stutter. The argument goes from one edge (`ClosedAtNarrows`, `OpenedAtNarrows`)
  over the kinds of evidence (`OnExitNarrows`, `OnStartNarrows`, `HandoffNarrows`,
  `MoveNarrows`) to the pair (`ResolvePairNarrows`) and the step (`ClipStep`), with
  `Held`: every pending pair names two positions of the list, both of a seat with
  one holder.
  Of the whole build, for any rows, ballots, events, clauses, curations, calendar,
  map and number of hops: `BuildTypeCorrect`, `TenuresFitTheirKeys` (which states
  `BoundariesAgree`) and `BuildNarrowsOnly`. The invariant is `BuildInv`: at every
  stage the lists hold `FineSpan`s, spans the constructor accepts whose edges fit
  their keys, and `BareSpan`s before any edge is dated. `BoundariesAgree` alone is
  not inductive: that a clip, a departure or a move keeps a start within its key's
  biennium needs the order of the edges and what each basis says of them. Each stage
  keeps it: the merging of biennia (`BuildStays`), the operator overlay, event by event
  (`OverlayStays`), the moves (`CarriedStay`, `MoverCommitteesStay`), the dating
  clauses (`WindowStays`) and the clip (`NarrowedIsFine`, from `ClipNarrowsOnly`).
  The sorts are shown to permute what they are given by ranks that cover the list
  (`RanksCover`, `SortedStays`, `InKeyOrderStays`), and the builders' recursive
  functions to exist and to keep a set they start in (`RecursionExists`,
  `RunStays`).
  `OverlapsAreReported`: two principals of a seat who certainly held it at once when
  the clip ends are in its report. The property alone is not inductive, for a pair is
  visited once and both its spans may be narrowed for other pairs later. `PassInv` says
  of every two `Rivals` that the pass has still to visit them, has reported them, or
  they are `Cleared`: one of them may have started as late as the day it ends
  (`Blank`), or ends no later than the other may have started (`Yields`). A handoff that is not declined clears its pair (`HandoffClears`), and no
  later narrowing brings it back together (`NarrowedStaysCleared`), because a narrowing
  cuts what is known of the other edge and never extends it. That every pair of rivals
  is visited is `SeatPairsCover`: their positions break the ties of the sort. This is
  where a window within one biennium is needed: an exit's far edge then lies in the
  biennium of its near edge.
  Of the House seats, for any rows, ballots, maps and number of hops:
  `SeatsAreNotGuessed`, a theorem of the build's own `Spec`. It rests on two
  recursions, each shown to have a solution and followed by `SetInduction`: the
  seeds of a district take positions nobody has (`SeedDistrictApart`), so with the
  one elimination (`InferredSeatsApart`) a projection names two members for a
  position only on two ballots (`ProjectionApart`); and `ChainInv` holds of the
  chain once the bienniums from b on are placed (`ChainBackKeeps`): every seed it
  hands on has hops left and has crossed no map of the bienniums it came from.
  `DeparturesStand` (in `Departures_proofs`, which extends `ConformedSpans_proofs`): a
  tenure that runs across a departure of its member is one that `DeparturesHold`
  excuses. The property alone is not inductive: a tenure built today is dated, curated
  and clipped later, and an overlay reads spans that no list holds yet. The events of
  a member are applied in order, the seatings first. Until the first departure,
  `SeatInv` says of the overlay's spans which listing or seating each start is of, and
  that of two tenures of a seat the earlier ends before the later starts. During the
  departures, `SweptFrom` says that the sweep only shortens the spans it began with
  and adds rests that a return opened, and `Heeded` that every departure applied so
  far ended what it should; `EventKeeps` takes both through one event and
  `OverlayLeaves` draws the conclusion about the overlay's result. A builder's spans
  join those of the other builders (`BuilderJoins`). After the overlay no step
  lengthens a tenure: in one that `Follows` another, the end is no later, and the
  start is the same, moves later within its key's biennium, or, for a Senate start
  read off the rows, is brought by a clause into the biennium before. A departure kept
  by the spans is kept by their followers (`KeptByFollowers`), and the departure step
  of each stage is an instance of that. `DepartInv` adds to the departures kept by the
  built, the dated and the clipped lists which lists are still empty at a stage
  (`BuiltInTurn`) and whose tenures each builder makes: its own kinds, and none of a
  member minted from the roster (`BuiltApart`). TLC found no violation of it on the
  bounds of the run before it was proved.
* **NightlyChain** (second part of `Operations_proofs`, which extends both it and
  `Migrations`), for any number of harvests, probes, accepted outages and nights:
  `ChainTypeCorrect`, `QuietNightsAreFresh`, `PartialBuildsContained`, `OkRowsLanded`
  and `RehearsalsApart`. That a quiet night is fresh is a statement about its end; the
  inductive `NightSoFar` says it at every stage: unless a stage was counted, each
  stage behind has done its work on what the one before it made. `JobFits` and
  `TurnFits` tie the running job to its stage, `WorkFits` says when a job has landed,
  `LandedShows` that it shows in `made` (so that writing again changes nothing), and
  `EnvFits` that a rehearsal has roots of its own, no writer and no ledger. A partial
  build is followed by no stage of its night, and the next night's build replaces it,
  which is what `WholeBuildsOnly` rests on.
* **Migrations** (its first part), for any tables with rows, any of them with odd
  ones, and any number of transactions: `MigrationsTypeCorrect`, `RevisionsAlwaysFit`,
  `SchemaIsOfRevision`, `AttestedRowsSurvive` and `ApplicationAlwaysServed`.
  The chain of fifty revisions is data. What it does to databases without rows TLC
  computes, as the assumptions `RevisionsFit` and `UpgradesKeepTables`, which name no
  constant; a slip in a revision makes one of them false, and TLC stops there. The
  proof says that this decides every other database. Neither rows nor grants
  change what a step does to the catalog or whether the catalog can take it
  (`MisfitsAlike`, `EffectAlike`), rows can only have a step refused, and a step
  takes rows only with their table. `RevisionFollows` carries this through the steps
  of a revision (`AppliedExists` shows that their recursion has a solution), beside
  the database without rows that takes the same steps. The invariant,
  `MigrationInv`, then says of the committed database that its schema is that of its
  revision, and of the open transaction that it is too or has been refused, that it
  goes up with all that was attested, or down and, still at its start, unchanged.

Type invariants of the proved modules are theorems and are not repeated in the
runs.

Only model-checked: liveness. `ManifestReachesIndex` needs fairness, which is out of
the prover's reach.

## Not modelled

* **Read API.** Each request is a statement or two over tables a load replaces in
  one transaction. What remains is a client paging across a reload (a hazard in
  `PROJECT.json`).
* **Transports and rate limits.** A fetch is one step of `RawStore`: a body, an
  unchanged one or an error after its retries. Spacing is wall-clock sleeping.
* **Dump, restore and the restore drill.** Wrappers of `pg_dump` and `pg_restore`.
* **A `--file` batch of operator events** and **the committee-link twin**.
* **Entities, the roster match, committee succession, coverage reconcile, probe
  queries.** Deterministic lookups over one build; here they are inputs or outcomes.
* **Staging readers, PDF extraction, names.** String processing, outside TLC's
  reach; a source of arbitrary inputs for the modules here.
* **Units, timers, guards.** Of these only the timeout, the failure mail and the
  migrate unit are behaviour the models follow.

## Plan

1. A second clip of its own result may move an end when a seat has three holders,
   although `seat_clipping.py:32` calls it idempotent; no caller clips twice. A run of
   the clip alone on three holders would show when.
2. `OperatorEvents`, the rest: a `--file` batch under one commit and the
   committee-link twin.
3. A reader that pages across a reload, over `ServingLoad`; the dump beside the raw
   half of a backup, and the drill.
4. A by-hand load or a rehearsal that overlaps the nightly, with the locks of
   `ServingLoad`.
