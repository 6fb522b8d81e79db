----------------------------- MODULE Migrations -----------------------------
(***************************************************************************)
(* The migrate unit: alembic brings the database to the latest revision in *)
(* one transaction, then psql grants the application its rights; either    *)
(* may be killed.  An operator may take the chain back by hand, and jobs   *)
(* write rows between the runs.                                            *)
(***************************************************************************)
EXTENDS RevisionChain, Naturals

CONSTANTS Held,      \* the tables whose rows the model follows
          Odd,       \* those of them that may hold a row a stricter rule refuses
          MaxMoves   \* how many transactions are begun

ASSUME MovesAssumption == MaxMoves \in Nat

VARIABLES at,        \* the committed revision: how many of the chain
          db,        \* the committed database
          tx,        \* the open transaction, or NoTx
          unit,      \* the migrate unit: "off", "upgrading", "granting", "done", "failed"
          moves      \* transactions begun so far

vars == <<at, db, tx, unit, moves>>

NoTx == [way |-> "none"]

(* grants.sql names two schemas; a missing one stops it with nothing kept. *)
GrantedSchemas == {"clearinghouse_core", "registry"}

Grantable(d) == GrantedSchemas \subseteq d.schemas

(* Mutant of WithGrants: default privileges alone, nothing for the tables there. *)
DefaultsOnly(d) ==
  [d EXCEPT !.usage = @ \cup GrantedSchemas, !.defaults = @ \cup GrantedSchemas]

WithGrants(d) ==
  [d EXCEPT !.usage = @ \cup GrantedSchemas, !.defaults = @ \cup GrantedSchemas,
            !.granted = @ \cup {t \in Tables(d) : d.home[t] \in GrantedSchemas}]

Init ==
  /\ at \in {n \in 0..Latest : Straight[n + 1].error = "none"}
  /\ \/ db = Straight[at + 1]
     \/ Grantable(Straight[at + 1]) /\ db = WithGrants(Straight[at + 1])
  /\ tx = NoTx /\ unit = "off" /\ moves = 0

Begin(way) ==
  /\ tx = NoTx /\ moves < MaxMoves
  /\ tx' = [way |-> way, at |-> at, db |-> db]
  /\ moves' = moves + 1 /\ UNCHANGED <<at, db>>

(* migrate.sh: alembic upgrade head. *)
BeginUpgrade ==
  /\ unit \notin {"upgrading", "granting"}
  /\ Begin("up") /\ unit' = "upgrading"

(* An operator: alembic downgrade, as far as the operator asks. *)
BeginDowngrade ==
  /\ unit \notin {"upgrading", "granting"} /\ at > 0
  /\ Begin("down") /\ unit' = "off"

(* One revision; all of them run in the transaction env.py opens. *)
UpgradeOne ==
  /\ tx.way = "up" /\ tx.at < Latest /\ tx.db.error = "none"
  /\ tx' = [tx EXCEPT !.at = @ + 1, !.db = ApplyAll(@, Chain[tx.at + 1].up)]
  /\ UNCHANGED <<at, db, unit, moves>>

DowngradeOne ==
  /\ tx.way = "down" /\ tx.at > 0 /\ tx.db.error = "none"
  /\ tx' = [tx EXCEPT !.at = @ - 1, !.db = ApplyAll(@, Chain[tx.at].down)]
  /\ UNCHANGED <<at, db, unit, moves>>

(* Mutant of Commit: the tables change and the stamp does not. *)
CommitUnstamped ==
  /\ tx # NoTx /\ tx.db.error = "none"
  /\ tx.way = "up" => tx.at = Latest
  /\ db' = tx.db /\ tx' = NoTx
  /\ unit' = IF tx.way = "up" THEN "granting" ELSE unit
  /\ UNCHANGED <<at, moves>>

Commit ==
  /\ tx # NoTx /\ tx.db.error = "none"
  /\ tx.way = "up" => tx.at = Latest
  /\ at' = tx.at /\ db' = tx.db /\ tx' = NoTx
  /\ unit' = IF tx.way = "up" THEN "granting" ELSE unit
  /\ UNCHANGED moves

(* Mutant of Abort: each statement is committed as it runs. *)
AbortHalfway ==
  /\ tx # NoTx
  /\ db' = [tx.db EXCEPT !.error = "none"] /\ tx' = NoTx
  /\ unit' = IF unit = "upgrading" THEN "failed" ELSE unit
  /\ UNCHANGED <<at, moves>>

(* A refused step, or a kill: the transaction leaves nothing behind, and   *)
(* set -e keeps the grants from running.                                   *)
Abort ==
  /\ tx # NoTx
  /\ tx' = NoTx
  /\ unit' = IF unit = "upgrading" THEN "failed" ELSE unit
  /\ UNCHANGED <<at, db, moves>>

Grant ==
  /\ unit = "granting"
  /\ IF Grantable(db)
     THEN db' = WithGrants(db) /\ unit' = "done"
     ELSE UNCHANGED db /\ unit' = "failed"
  /\ UNCHANGED <<at, tx, moves>>

KilledBeforeGrants ==
  /\ unit = "granting"
  /\ unit' = "failed" /\ UNCHANGED <<at, db, tx, moves>>

(* Rows a job or an operator commits while no migration runs. *)
Write(t) ==
  /\ tx = NoTx /\ unit # "granting"
  /\ t \in Tables(db)
  /\ \E odd \in {{}} \cup (IF t \in Odd THEN {{t}} ELSE {}) :
       db' = [db EXCEPT !.held = @ \cup {t}, !.odd = @ \cup odd]
  /\ UNCHANGED <<at, tx, unit, moves>>

Next ==
  \/ BeginUpgrade \/ BeginDowngrade \/ UpgradeOne \/ DowngradeOne
  \/ Commit \/ Abort \/ Grant \/ KilledBeforeGrants
  \/ \E t \in Held : Write(t)

Spec == Init /\ [][Next]_vars

-----------------------------------------------------------------------------
(* What stands in the database now, committed or not.                      *)
Standing == IF tx = NoTx THEN [at |-> at, db |-> db] ELSE [at |-> tx.at, db |-> tx.db]

TypeOK ==
  /\ at \in 0..Latest /\ moves \in 0..MaxMoves
  /\ tx # NoTx => tx.way \in {"up", "down"} /\ tx.at \in 0..Latest
  /\ unit \in {"off", "upgrading", "granting", "done", "failed"}
  /\ db.error = "none" /\ db.odd \subseteq db.held /\ db.held \subseteq Held

(* No revision, up or down and from wherever the chain was taken, asks the *)
(* catalog for what it cannot do: a table or key that is not there, one    *)
(* that is there already, a table another still refers to.                 *)
MigrationsFit == Standing.db.error # "schema"

(* The chain is reversible: at a revision the schema is the same whatever  *)
(* way it was reached, upward, back down, or down and up again.            *)
ChainReversible ==
  Standing.db.error = "none" => Shape(Standing.db) = Shape(Straight[Standing.at + 1])

(* What operators and the registry have attested is rewritten by no        *)
(* upgrade: an upgrade that commits keeps the rows of these tables, though *)
(* they have moved to another schema and the one they left was dropped.    *)
Attested == {"operator_events", "committee_succession_events", "adjudications",
             "entities", "entity_keys"}

AttestedRowsKept ==
  [][at' >= at => db.held \cap Attested \subseteq db'.held]_<<at, db>>

(* What evaluating the chain shows: no step of an upgrade removes one of   *)
(* these tables, and at the end every table is in a schema the grants name. *)
ASSUME UpgradesKeepTables ==
  /\ \A n \in 1..Latest : \A i \in 1..Len(Chain[n].up) :
       LET dbs == Applied(Straight[n], Chain[n].up)
       IN  Attested \cap Tables(dbs[i - 1]) \subseteq Tables(dbs[i])
  /\ \A t \in Tables(Straight[Latest + 1]) : Straight[Latest + 1].home[t] \in GrantedSchemas

(* When the unit has finished, the application reads and writes every      *)
(* table of the latest revision, those the upgrade made among them.        *)
ApplicationServed ==
  unit = "done" /\ tx = NoTx =>
    \A t \in Tables(db) : t \in db.granted /\ db.home[t] \in db.usage
=============================================================================
