----------------------------- MODULE SchemaOps -----------------------------
(***************************************************************************)
(* The database as the migrations see it, and the operations of Alembic    *)
(* they are written in, with the conditions under which PostgreSQL refuses *)
(* each of them.  Of a table the model keeps its schema, the columns some  *)
(* revision adds, drops or renames, the foreign keys, and the keys, checks *)
(* and indexes some revision changes apart from the table they are on.     *)
(*                                                                         *)
(* A step is a record; a revision is a pair of sequences of steps.  The    *)
(* steps of a loop over tables are one step over a set of pairs.           *)
(***************************************************************************)
EXTENDS Integers, Sequences, FiniteSets, SequencesExt

(* What a column that is a foreign key refers to, by its name. *)
Target ==
  [acting_organization_id |-> "organizations", amendment_id |-> "amendments",
   author_organization_id |-> "organizations", bill_action_id |-> "bill_actions",
   bill_id |-> "bills", bill_type_id |-> "bill_types",
   bill_version_id |-> "bill_versions", chamber_id |-> "organizations",
   context_organization_id |-> "organizations",
   contributor_organization_id |-> "organizations",
   contributor_person_id |-> "persons", current_chamber_id |-> "organizations",
   current_version_id |-> "bill_versions", employer_organization_id |-> "organizations",
   entity_id |-> "entities", evidence_citation_id |-> "citations",
   fetch_event_id |-> "fetch_events", from_bill_id |-> "bills",
   jurisdiction_id |-> "jurisdictions", legislative_session_id |-> "legislative_sessions",
   lobbying_activity_id |-> "lobbying_activities", merged_into |-> "entities",
   object_jurisdiction_id |-> "jurisdictions", organization_id |-> "organizations",
   originating_bill_action_id |-> "bill_actions",
   originating_chamber_id |-> "organizations",
   parent_legislative_session_id |-> "legislative_sessions",
   parent_organization_id |-> "organizations", person_id |-> "persons",
   recipient_organization_id |-> "organizations",
   relationship_type_id |-> "relationship types", role_id |-> "roles",
   source_id |-> "sources", sponsor_organization_id |-> "organizations",
   sponsor_person_id |-> "persons", statute_chapter_id |-> "statute_chapters",
   statute_code_id |-> "statute_codes", statute_section_id |-> "statute_sections",
   statute_title_id |-> "statute_titles", subject_entity_id |-> "entities",
   subject_jurisdiction_id |-> "jurisdictions", supplement_id |-> "bill_supplements",
   target_entity_id |-> "entities", to_bill_id |-> "bills",
   type_id |-> "jurisdiction_types", vote_event_id |-> "vote_events"]

TargetOf(t, c) ==
  CASE c = "superseded_by_id" -> t
    [] c = "relationship_type_id" /\ t = "bill_relationships" -> "bill_relationship_types"
    [] c = "relationship_type_id" -> "jurisdiction_relationship_types"
    [] OTHER -> Target[c]

(* The steps. *)
On(t, names) == {t} \X names
CreateSchema(s) == [do |-> "create schema", schema |-> s]
DropSchema(s) == [do |-> "drop schema", schema |-> s]
NothingOutside(s) == [do |-> "nothing outside", schema |-> s]
SetSchema(t, s) == [do |-> "set schema", table |-> t, schema |-> s]
Create(s, t, columns, refs, keys) ==
  [do |-> "create", schema |-> s, table |-> t, columns |-> columns, refs |-> refs,
   keys |-> keys]
Drop(t) == [do |-> "drop", table |-> t]
DropEach(tables) == [i \in DOMAIN tables |-> Drop(tables[i])]
AddColumns(on) == [do |-> "add columns", on |-> on]
Require(on) == [do |-> "require", on |-> on]
DropColumns(on) == [do |-> "drop columns", on |-> on]
Rename(on, new) == [do |-> "rename", on |-> on, new |-> new]
AddRefs(on) == [do |-> "add refs", on |-> on]
DropRefs(on) == [do |-> "drop refs", on |-> on]
AddKeys(on, columns) == [do |-> "add keys", on |-> on, columns |-> columns]
DropKeys(on) == [do |-> "drop keys", on |-> on]
Narrow(tables) == [do |-> "narrow", tables |-> tables]
Rewrite(t) == [do |-> "rewrite", table |-> t]
Unheld(t) == [do |-> "unheld", table |-> t]

(* A table of the named schema.                                            *)
Table(t, columns, refs, keys) == Create("canonical", t, columns, refs, keys)
CoreTable(t, columns, refs, keys) == Create("clearinghouse_core", t, columns, refs, keys)
SyncTable(t, columns, refs, keys) == Create("sync", t, columns, refs, keys)
RegistryTable(t, columns, refs, keys) == Create("registry", t, columns, refs, keys)

(* The key by (jurisdiction, source, source_id), and by (source, source_id). *)
NaturalKey == <<"natural_key", {"jurisdiction_id"}>>
SourceKey == <<"natural_key", {}>>

EmptyDatabase ==
  [schemas |-> {}, home |-> <<>>, columns |-> {}, refs |-> {}, keys |-> {},
   held |-> {}, odd |-> {}, granted |-> {}, usage |-> {}, defaults |-> {},
   error |-> "none"]

(* What a reader of the catalog sees, apart from rows and grants. *)
Shape(db) == [schemas |-> db.schemas, home |-> db.home, columns |-> db.columns,
              refs |-> db.refs, keys |-> db.keys]

Tables(db) == DOMAIN db.home
InSchema(db, s) == {t \in Tables(db) : db.home[t] = s}
Keyed(db) == {<<key[1], key[2]>> : key \in db.keys}

(* The tables that hold a foreign key into one of tables, not of them. *)
Dependants(db, tables) ==
  {ref[1] : ref \in {r \in db.refs : TargetOf(r[1], r[2]) \in tables /\ r[1] \notin tables}}

(* PostgreSQL refuses a step the catalog cannot take ...                   *)
Misfits(db, step) ==
  CASE step.do \in {"create schema", "drop schema"} -> FALSE
    [] step.do = "nothing outside" ->
         Dependants(db, InSchema(db, step.schema)) # {}
    [] step.do = "set schema" ->
         step.table \notin Tables(db) \/ step.schema \notin db.schemas
    [] step.do = "create" ->
         \/ step.table \in Tables(db) \/ step.schema \notin db.schemas
         \/ \E c \in step.refs :
              TargetOf(step.table, c) \notin Tables(db) \cup {step.table}
    [] step.do = "drop" ->
         step.table \notin Tables(db) \/ Dependants(db, {step.table}) # {}
    [] step.do \in {"add columns", "require"} ->
         \E at \in step.on : at[1] \notin Tables(db) \/ at \in db.columns
    [] step.do \in {"drop columns", "rename"} -> ~ step.on \subseteq db.columns
    [] step.do = "add refs" ->
         \/ ~ step.on \subseteq db.columns
         \/ \E at \in step.on : TargetOf(at[1], at[2]) \notin Tables(db) \/ at \in db.refs
    [] step.do = "drop refs" -> ~ step.on \subseteq db.refs
    [] step.do = "add keys" ->
         \/ \E at \in step.on : at[1] \notin Tables(db) \/ at \in Keyed(db)
         \/ \E at \in step.on : \E c \in step.columns : <<at[1], c>> \notin db.columns
    [] step.do = "drop keys" -> ~ step.on \subseteq Keyed(db)
    [] step.do = "narrow" -> ~ step.tables \subseteq Tables(db)
    [] step.do \in {"rewrite", "unheld"} -> step.table \notin Tables(db)

(* ... and one the rows in the tables stand against: a column that must    *)
(* have a value and gets none, a stricter rule that a row breaks.          *)
RowsRefuse(db, step) ==
  \/ step.do = "require" /\ \E at \in step.on : at[1] \in db.held
  \/ step.do = "unheld" /\ step.table \in db.held
  \/ step.do = "narrow" /\ step.tables \cap db.odd # {}

(* Dropping tables takes their columns, keys, rows and grants, and the     *)
(* foreign keys on them and, under CASCADE, into them.                     *)
Without(db, tables) ==
  [db EXCEPT !.home = [t \in Tables(db) \ tables |-> db.home[t]],
             !.columns = {at \in @ : at[1] \notin tables},
             !.refs = {at \in @ : at[1] \notin tables /\ TargetOf(at[1], at[2]) \notin tables},
             !.keys = {key \in @ : key[1] \notin tables},
             !.held = @ \ tables, !.odd = @ \ tables, !.granted = @ \ tables]

(* A table of a schema with default privileges is granted as it is made.   *)
With(db, step) ==
  [db EXCEPT !.home = [t \in Tables(db) \cup {step.table} |->
                         IF t = step.table THEN step.schema ELSE db.home[t]],
             !.columns = @ \cup On(step.table, step.columns \cup step.refs),
             !.refs = @ \cup On(step.table, step.refs),
             !.keys = @ \cup {<<step.table, key[1], key[2]>> : key \in step.keys},
             !.granted = IF step.schema \in db.defaults THEN @ \cup {step.table} ELSE @]

Renamed(names, on, new) == {IF at \in on THEN <<at[1], new>> ELSE at : at \in names}

Effect(db, step) ==
  CASE step.do = "create schema" -> [db EXCEPT !.schemas = @ \cup {step.schema}]
    [] step.do = "drop schema" ->
         LET left == Without(db, InSchema(db, step.schema))
         IN  [left EXCEPT !.schemas = @ \ {step.schema}, !.usage = @ \ {step.schema},
                          !.defaults = @ \ {step.schema}]
    [] step.do = "set schema" -> [db EXCEPT !.home[step.table] = step.schema]
    [] step.do = "create" -> With(db, step)
    [] step.do = "drop" -> Without(db, {step.table})
    [] step.do \in {"add columns", "require"} -> [db EXCEPT !.columns = @ \cup step.on]
    [] step.do = "drop columns" ->
         [db EXCEPT !.columns = @ \ step.on, !.refs = @ \ step.on,
                    !.keys = {key \in @ : \A c \in key[3] : <<key[1], c>> \notin step.on}]
    [] step.do = "rename" ->
         [db EXCEPT !.columns = Renamed(@, step.on, step.new)]
    [] step.do = "add refs" -> [db EXCEPT !.refs = @ \cup step.on]
    [] step.do = "drop refs" -> [db EXCEPT !.refs = @ \ step.on]
    [] step.do = "add keys" ->
         [db EXCEPT !.keys = @ \cup {<<at[1], at[2], step.columns>> : at \in step.on}]
    [] step.do = "drop keys" ->
         [db EXCEPT !.keys = {key \in @ : <<key[1], key[2]>> \notin step.on}]
    [] step.do = "rewrite" -> [db EXCEPT !.odd = @ \ {step.table}]
    [] OTHER -> db

(* The first step that is refused ends the transaction.                    *)
Apply(db, step) ==
  CASE db.error # "none" -> db
    [] db.error = "none" /\ Misfits(db, step) -> [db EXCEPT !.error = "schema"]
    [] db.error = "none" /\ ~ Misfits(db, step) /\ RowsRefuse(db, step) ->
         [db EXCEPT !.error = "rows"]
    [] OTHER -> Effect(db, step)

(* The databases a list of steps leaves one after the other, and the last. *)
Applied(db, steps) ==
  LET f[n \in 0..Len(steps)] == IF n = 0 THEN db ELSE Apply(f[n - 1], steps[n])
  IN  f

ApplyAll(db, steps) == Applied(db, steps)[Len(steps)]
=============================================================================
