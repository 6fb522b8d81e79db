--------------------------- MODULE OperatorEvents ---------------------------
(***************************************************************************)
(* Operator succession events: registry.operator_events and the archive of *)
(* attestations kept beside it in the raw store.                           *)
(*                                                                         *)
(* One CLI command is one process and one READ COMMITTED transaction.  It  *)
(* selects rows into its ORM session, checks what it saw, buffers the      *)
(* attested body with the time, and writes: an UPDATE of the columns whose *)
(* value differs from what it saw, or an INSERT.  A written row stays      *)
(* locked until the transaction ends.  Only after the commit is the body   *)
(* archived, by a step that may be lost.                                   *)
(*                                                                         *)
(* The rows are those of one member and one seat, so an event's natural    *)
(* key is its kind and date, and a row is named by its key: rows are never *)
(* deleted.  A fact stands for the reason and evidence of an attestation.  *)
(***************************************************************************)
EXTENDS Naturals, FiniteSets

CONSTANTS
    Commands,   \* invocations of the CLI, numbered as they are begun
    Keys,       \* natural keys (event_source_id)
    KindOf,     \* key -> its kind
    Facts,      \* what an attestation says besides its key
    NoCommand, NoKey, NoRow, NoBody,
    AtOnce      \* bound: commands under way at the same time

Kinds == {"departed", "vacated", "seated"}
ENDING_KINDS == {"departed", "vacated"}

ASSUME CommandsAreNumbered == Commands \subseteq Nat
ASSUME KeysHaveKinds == KindOf \in [Keys -> Kinds]
ASSUME NoKeyIsNew == NoKey \notin Keys

Rows == [fact : Facts, superseded : Keys \cup {NoKey}, retracted : BOOLEAN]
Bodies == [fact : Facts, retracted : BOOLEAN]

ASSUME NoRowIsNew == NoRow \notin Rows
ASSUME NoBodyIsNew == NoBody \notin Bodies

VARIABLES
    row,        \* key -> the committed row
    pc,         \* command -> where it stands
    cmd,        \* command -> what it was asked to do
    seen,       \* command -> the rows its session holds, as it selected them
    mine,       \* command -> key -> its uncommitted version of a locked row
    pending,    \* command -> the buffered body and its fetched_at
    clock,      \* fetched_at of the last buffered body
    latest,     \* key -> its newest archived body (latest.json)
    archived,   \* every archived body (the manifests)
    writer,     \* history: key -> the last command to commit it
    overlapped  \* history: two commands were under way at once

vars == <<row, pc, cmd, seen, mine, pending, clock, latest, archived, writer,
          overlapped>>
database == <<row, mine, writer>>
archive == <<latest, archived>>

NoCmd == [op |-> "none", prior |-> NoKey, key |-> NoKey, fact |-> NoBody]
Asks == [op : {"record"}, prior : {NoKey}, key : Keys, fact : Facts]
        \cup [op : {"supersede"}, prior : Keys, key : Keys, fact : Facts]
        \cup {[op |-> "retract", prior |-> k, key |-> k, fact |-> NoBody] :
                 k \in Keys}

NotSeen == [prior |-> NoRow, key |-> NoRow]
NothingPending == [body |-> NoBody, at |-> 0]
NeverArchived == [body |-> NoBody, at |-> 0]

Ended == {"done", "lost", "failed"}
InTransaction == {"loading", "checking", "writing", "stamping", "retracting",
                  "committing"}
Active(c) == pc[c] \notin Ended \cup {"idle"}

TypeOK ==
    /\ row \in [Keys -> Rows \cup {NoRow}]
    /\ pc \in [Commands -> InTransaction \cup Ended
                           \cup {"idle", "committed", "closing"}]
    /\ cmd \in [Commands -> Asks \cup {NoCmd}]
    /\ \A c \in Commands : cmd[c] # NoCmd <=> Active(c)
    /\ seen \in [Commands -> [prior : Rows \cup {NoRow},
                              key : Rows \cup {NoRow}]]
    /\ mine \in [Commands -> [Keys -> Rows \cup {NoRow}]]
    /\ pending \in [Commands -> {NothingPending} \cup [body : Bodies, at : Nat]]
    /\ \A c \in Commands :
          pc[c] \in {"writing", "stamping", "committing", "committed", "closing"}
             => pending[c] # NothingPending
    /\ clock \in Nat
    /\ latest \in [Keys -> {NeverArchived} \cup [body : Bodies, at : Nat]]
    /\ archived \subseteq [key : Keys, body : Bodies, at : Nat]
    /\ writer \in [Keys -> Commands \cup {NoCommand}]
    /\ overlapped \in BOOLEAN

Init ==
    /\ row = [k \in Keys |-> NoRow]
    /\ pc = [c \in Commands |-> "idle"]
    /\ cmd = [c \in Commands |-> NoCmd]
    /\ seen = [c \in Commands |-> NotSeen]
    /\ mine = [c \in Commands |-> [k \in Keys |-> NoRow]]
    /\ pending = [c \in Commands |-> NothingPending]
    /\ clock = 0
    /\ latest = [k \in Keys |-> NeverArchived]
    /\ archived = {}
    /\ writer = [k \in Keys |-> NoCommand]
    /\ overlapped = FALSE

Goto(c, label) == pc' = [pc EXCEPT ![c] = label]

\* The process ends: nothing it held in memory is left.
Exit(c, label) ==
    /\ Goto(c, label)
    /\ cmd' = [cmd EXCEPT ![c] = NoCmd]
    /\ seen' = [seen EXCEPT ![c] = NotSeen]
    /\ pending' = [pending EXCEPT ![c] = NothingPending]

-----------------------------------------------------------------------------
(* The command: what it selects, checks and buffers.                        *)

\* The operator runs a command.
Begin(c, ask) ==
    /\ pc[c] = "idle"
    /\ \A d \in Commands : d < c => pc[d] # "idle"
    /\ Cardinality({d \in Commands : Active(d)}) < AtOnce
    /\ Goto(c, IF ask.op = "record" THEN "checking" ELSE "loading")
    /\ cmd' = [cmd EXCEPT ![c] = ask]
    /\ overlapped' = (overlapped \/ \E d \in Commands : Active(d))
    /\ UNCHANGED <<seen, pending, clock, database, archive>>

\* supersede restates when a boundary was or, within endings, which ending.
MayCorrect(prior, key) ==
    \/ KindOf[prior] = KindOf[key]
    \/ {KindOf[prior], KindOf[key]} \subseteq ENDING_KINDS

\* Mutant: a superseded row is corrected again.
CorrectableTwice(r) == ~r.retracted

\* supersede_event: the prior row must stand.
Correctable(r) == r.superseded = NoKey /\ ~r.retracted

\* retract_event refuses a superseded row; a retracted one is retracted again.
Retractable(r) == r.superseded = NoKey

\* The named row is selected and accepted.
Load(c) ==
    /\ pc[c] = "loading"
    /\ LET r == row[cmd[c].prior]
       IN /\ r # NoRow
          /\ \/ /\ cmd[c].op = "supersede"
                /\ MayCorrect(cmd[c].prior, cmd[c].key)
                /\ Correctable(r)
                /\ Goto(c, "checking")
             \/ /\ cmd[c].op = "retract"
                /\ Retractable(r)
                /\ Goto(c, "retracting")
          /\ seen' = [seen EXCEPT ![c].prior = r]
    /\ UNCHANGED <<cmd, pending, clock, database, archive, overlapped>>

\* Mutant: a retracted key is recorded again.
RevivesRetracted(r) == TRUE

\* record_operator_event refuses a retracted key, and nothing else.
Recordable(r) == r # NoRow => ~r.retracted

Buffer(c, body) ==
    /\ clock' = clock + 1
    /\ pending' = [pending EXCEPT ![c] = [body |-> body, at |-> clock + 1]]

\* The row of the event's own key is selected.  It may be the prior's, which
\* the session already holds; a row superseded by another is no obstacle.
Check(c) ==
    /\ pc[c] = "checking"
    /\ LET r == IF cmd[c].prior = cmd[c].key THEN seen[c].prior
                                             ELSE row[cmd[c].key]
       IN Recordable(r) /\ seen' = [seen EXCEPT ![c].key = r]
    /\ Buffer(c, [fact |-> cmd[c].fact, retracted |-> FALSE])
    /\ Goto(c, "writing")
    /\ UNCHANGED <<cmd, database, archive, overlapped>>

-----------------------------------------------------------------------------
(* The writes.                                                              *)

Locks(d, k) == mine[d][k] # NoRow
Free(c, k) == \A d \in Commands \ {c} : ~Locks(d, k)

Write(c, k, r) == mine' = [mine EXCEPT ![c][k] = r]

\* After its own row a correction stamps the prior one, if they differ.
AfterWrite(c) ==
    IF cmd[c].op = "supersede" /\ cmd[c].prior # cmd[c].key
    THEN "stamping" ELSE "committing"

\* A new row.  The unique key makes the insert wait for another's insert of it.
Insert(c) ==
    /\ pc[c] = "writing"
    /\ seen[c].key = NoRow
    /\ row[cmd[c].key] = NoRow
    /\ Free(c, cmd[c].key)
    /\ Write(c, cmd[c].key, [fact |-> cmd[c].fact, superseded |-> NoKey,
                             retracted |-> FALSE])
    /\ Goto(c, AfterWrite(c))
    /\ UNCHANGED <<row, writer, cmd, seen, pending, clock, archive, overlapped>>

\* The row's fact differs from what was selected: that column is updated.
Update(c) ==
    /\ pc[c] = "writing"
    /\ seen[c].key # NoRow
    /\ seen[c].key.fact # cmd[c].fact
    /\ Free(c, cmd[c].key)
    /\ Write(c, cmd[c].key, [row[cmd[c].key] EXCEPT !.fact = cmd[c].fact])
    /\ Goto(c, AfterWrite(c))
    /\ UNCHANGED <<row, writer, cmd, seen, pending, clock, archive, overlapped>>

\* Nothing differs from what was selected: no statement is sent.
UpdateNothing(c) ==
    /\ pc[c] = "writing"
    /\ seen[c].key # NoRow
    /\ seen[c].key.fact = cmd[c].fact
    /\ Goto(c, AfterWrite(c))
    /\ UNCHANGED <<cmd, seen, pending, clock, database, archive, overlapped>>

\* Mutant: no check constraint.
NoConstraint(r) == TRUE

\* ck_operator_events_superseded_or_retracted
CheckConstraint(r) == r.superseded # NoKey => ~r.retracted

Superseded(c) == [row[cmd[c].prior] EXCEPT !.superseded = cmd[c].key]
Retracted(c) == [row[cmd[c].prior] EXCEPT !.retracted = TRUE]

\* superseded_by_id is set on the prior row as it stands by now.
Stamp(c) ==
    /\ pc[c] = "stamping"
    /\ Free(c, cmd[c].prior)
    /\ CheckConstraint(Superseded(c))
    /\ Write(c, cmd[c].prior, Superseded(c))
    /\ Goto(c, "committing")
    /\ UNCHANGED <<row, writer, cmd, seen, pending, clock, archive, overlapped>>

\* retract_event buffers its body as the row was selected...
Retract(c) ==
    /\ pc[c] = "retracting"
    /\ pending[c] = NothingPending
    /\ Buffer(c, [fact |-> seen[c].prior.fact, retracted |-> TRUE])
    /\ UNCHANGED <<pc, cmd, seen, database, archive, overlapped>>

\* ...and stamps retracted_at, unless it was stamped when it was selected.
StampRetraction(c) ==
    /\ pc[c] = "retracting"
    /\ pending[c] # NothingPending
    /\ \/ seen[c].prior.retracted /\ mine' = mine
       \/ /\ ~seen[c].prior.retracted
          /\ Free(c, cmd[c].key)
          /\ CheckConstraint(Retracted(c))
          /\ Write(c, cmd[c].key, Retracted(c))
    /\ Goto(c, "committing")
    /\ UNCHANGED <<row, writer, cmd, seen, pending, clock, archive, overlapped>>

-----------------------------------------------------------------------------
(* How the transaction ends.                                                *)

Release(c) == mine' = [mine EXCEPT ![c] = [k \in Keys |-> NoRow]]

\* A refusal, a unique or check violation, a deadlock that Postgres breaks,
\* --dry-run, a kill: rolled back.
Rollback(c) ==
    /\ pc[c] \in InTransaction
    /\ Release(c)
    /\ Exit(c, "failed")
    /\ UNCHANGED <<row, writer, clock, archive, overlapped>>

Commit(c) ==
    /\ pc[c] = "committing"
    /\ row' = [k \in Keys |-> IF Locks(c, k) THEN mine[c][k] ELSE row[k]]
    /\ writer' = [writer EXCEPT ![cmd[c].key] = c]
    /\ Release(c)
    /\ Goto(c, "committed")
    /\ seen' = [seen EXCEPT ![c] = NotSeen]
    /\ UNCHANGED <<cmd, pending, clock, archive, overlapped>>

-----------------------------------------------------------------------------
(* PendingAttestations.flush, after the commit.                             *)

\* Mutants: flushed before the commit; deduplicated against any earlier body.
BeforeCommit == {"committing", "committed"}
EverArchived(k, body) == \E a \in archived : a.key = k /\ a.body = body

AfterCommit == {"committed"}
IsNewest(k, body) == latest[k].body = body

\* latest() is read: a body that is its key's newest already is not recorded.
Dedup(c) ==
    /\ pc[c] \in AfterCommit
    /\ IF IsNewest(cmd[c].key, pending[c].body)
       THEN Exit(c, "done")
       ELSE Goto(c, "closing") /\ UNCHANGED <<cmd, seen, pending>>
    /\ UNCHANGED <<clock, database, archive, overlapped>>

Archive(c) == archived' = archived \cup
                 {[key |-> cmd[c].key, body |-> pending[c].body,
                   at |-> pending[c].at]}

\* The run closes: its manifest, then the index if the body is newer.
CloseRun(c) ==
    /\ pc[c] = "closing"
    /\ Archive(c)
    /\ latest' = IF latest[cmd[c].key].at < pending[c].at
                 THEN [latest EXCEPT ![cmd[c].key] = pending[c]] ELSE latest
    /\ Exit(c, "done")
    /\ UNCHANGED <<clock, database, overlapped>>

\* A kill or a disk error after the commit, before or after the manifest.
LoseArchive(c) ==
    /\ pc[c] \in {"committed", "closing"}
    /\ Exit(c, "lost")
    /\ \/ archived' = archived
       \/ pc[c] = "closing" /\ Archive(c)
    /\ UNCHANGED <<latest, clock, database, overlapped>>

Step(c) ==
    \/ \E ask \in Asks : Begin(c, ask)
    \/ Load(c)
    \/ Check(c)
    \/ Insert(c)
    \/ Update(c)
    \/ UpdateNothing(c)
    \/ Stamp(c)
    \/ Retract(c)
    \/ StampRetraction(c)
    \/ Rollback(c)
    \/ Commit(c)
    \/ Dedup(c)
    \/ CloseRun(c)
    \/ LoseArchive(c)

Next == \E c \in Commands : Step(c)

Spec == Init /\ [][Next]_vars

-----------------------------------------------------------------------------
(* Properties.                                                              *)

\* A row is superseded or retracted, never both (operator_events.py:30), even
\* when the two commands each saw it standing.
SupersededOrRetracted ==
    \A k \in Keys : row[k] # NoRow =>
        row[k].superseded = NoKey \/ ~row[k].retracted

\* A rolled-back write leaves nothing behind (raw.py:19): whatever the archive
\* holds has a row, and an archived retraction a retracted one.
ArchiveFollowsRows ==
    \A a \in archived : /\ row[a.key] # NoRow
                        /\ a.body.retracted => row[a.key].retracted

\* While commands do not overlap, a command whose archive landed leaves its
\* key's newest body naming the row, whatever earlier flushes lost: recording
\* the event again is the recovery (raw.py:109), and a fact restated as X,
\* then Y, then X is archived a third time (raw.py:25).
NewestNamesRow ==
    \A k \in Keys :
        ~overlapped /\ writer[k] # NoCommand /\ pc[writer[k]] = "done" =>
            latest[k].body = [fact |-> row[k].fact,
                              retracted |-> row[k].retracted]

\* While commands do not overlap, a retraction stays its key's newest body.
RetractionStands ==
    [][~overlapped' => \A k \in Keys :
          latest[k].body # NoBody /\ latest[k].body.retracted =>
              latest'[k].body.retracted]_vars

\* While commands do not overlap, a chain link is never re-stamped: that would
\* orphan the correction it points at (store.py:199).
LinksNeverRestamped ==
    [][~overlapped' => \A k \in Keys :
          row[k] # NoRow /\ row[k].superseded # NoKey =>
              row'[k].superseded = row[k].superseded]_vars

\* Every superseded row leads to a row that stands or was retracted, so that a
\* corrected boundary never drops out of the overlay: a correction appends a
\* row, it is never written into one that no reader sees.
ChainsEnd ==
    \A S \in SUBSET Keys \ {{}} :
        \E k \in S : row[k] # NoRow => row[k].superseded \notin S
=============================================================================
