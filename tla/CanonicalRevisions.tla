------------------------- MODULE CanonicalRevisions -------------------------
(***************************************************************************)
(* The revisions that built the canonical tier: the spine, the tables of the *)
(* legislature, and the jurisdictions as foreign keys.                     *)
(***************************************************************************)
EXTENDS SchemaOps

(* 20260526_chcore_init: the provenance spine.                              *)
ClearinghouseCoreInitUp ==
  <<CreateSchema("clearinghouse_core"),
    CoreTable("jurisdictions", {"level"}, {}, {}),
    CoreTable("sources", {}, {"jurisdiction_id"}, {}),
    CoreTable("fetch_events", {}, {"source_id"}, {}),
    AddKeys(On("fetch_events", {"source_id"}), {}),
    CoreTable("raw_payloads", {}, {"fetch_event_id"}, {}),
    CoreTable("citations", {}, {"fetch_event_id"}, {})>>

ClearinghouseCoreInitDown ==
  DropEach(<<"citations", "raw_payloads", "fetch_events", "sources",
     "jurisdictions">>)
\o <<DropSchema("clearinghouse_core")>>

ClearinghouseCoreInit == [up |-> ClearinghouseCoreInitUp, down |-> ClearinghouseCoreInitDown]

(* 20260527_canonical_init: the canonical tier: 27 tables, parents first.   *)
CanonicalInit1 ==
  <<CreateSchema("canonical"),
    Table("legislative_sessions", {"jurisdiction_id"}, {}, {<<"slug",
       {"jurisdiction_id"}>>, NaturalKey}),
    Table("organizations", {"jurisdiction_id", "powermap_organization_id"},
       {"parent_organization_id"}, {NaturalKey}),
    Table("persons", {"birth_year", "jurisdiction_id", "powermap_person_id"},
       {}, {NaturalKey}),
    Table("statute_codes", {"jurisdiction_id"}, {}, {NaturalKey}),
    Table("bills", {"bill_type", "current_chamber", "current_text",
       "jurisdiction_id", "originating_chamber", "short_description"},
       {"legislative_session_id"}, {NaturalKey}),
    Table("contributions", {"jurisdiction_id"},
       {"contributor_organization_id", "contributor_person_id",
       "recipient_organization_id"}, {NaturalKey}),
    Table("lobbying_activities", {"jurisdiction_id"},
       {"employer_organization_id", "organization_id", "person_id"},
       {NaturalKey})>>

CanonicalInit2 ==
  <<Table("organization_identifiers", {"jurisdiction_id"},
       {"organization_id"}, {<<"jurisdiction_scheme_value",
       {"jurisdiction_id"}>>, NaturalKey}),
    Table("person_identifiers", {"jurisdiction_id"}, {"person_id"},
       {<<"jurisdiction_scheme_value", {"jurisdiction_id"}>>, NaturalKey}),
    Table("roles", {"district", "jurisdiction_id"}, {"organization_id"},
       {<<"org_name_district", {"jurisdiction_id", "district"}>>, NaturalKey}),
    Table("statute_titles", {"jurisdiction_id"}, {"statute_code_id"}, {}),
    Table("amendments", {"amendment_text", "jurisdiction_id"}, {"bill_id",
       "sponsor_organization_id", "sponsor_person_id"}, {NaturalKey}),
    Table("assignments", {"jurisdiction_id"}, {"person_id", "role_id"},
       {NaturalKey})>>

CanonicalInit3 ==
  <<Table("bill_actions", {"chamber", "jurisdiction_id"},
       {"acting_organization_id", "bill_id"}, {NaturalKey}),
    Table("bill_events", {"jurisdiction_id"}, {"bill_id", "organization_id"},
       {NaturalKey}),
    Table("bill_relationships", {"jurisdiction_id", "relationship_type"},
       {"from_bill_id", "to_bill_id"}, {<<"pair_type",
       {"relationship_type"}>>, NaturalKey}),
    Table("bill_sponsorships", {"jurisdiction_id"}, {"bill_id",
       "organization_id", "person_id"}, {NaturalKey}),
    Table("bill_subjects", {"jurisdiction_id"}, {"bill_id"}, {NaturalKey}),
    Table("bill_versions", {"jurisdiction_id"}, {"bill_id"}, {NaturalKey})>>

CanonicalInit4 ==
  <<Table("lobbying_positions", {"jurisdiction_id"}, {"bill_id",
       "lobbying_activity_id"}, {NaturalKey}),
    Table("statute_chapters", {"jurisdiction_id"}, {"statute_title_id"}, {}),
    Table("bill_action_classifications", {"jurisdiction_id"},
       {"bill_action_id"}, {NaturalKey}),
    Table("statute_sections", {"jurisdiction_id"}, {"statute_chapter_id"}, {}),
    Table("vote_events", {"jurisdiction_id"}, {"amendment_id", "bill_id",
       "context_organization_id"}, {NaturalKey}),
    Table("bill_statute_changes", {"jurisdiction_id"}, {"bill_id",
       "statute_section_id"}, {}),
    Table("person_votes", {"jurisdiction_id"}, {"person_id", "vote_event_id"},
       {NaturalKey}),
    Table("vote_counts", {"jurisdiction_id"}, {"vote_event_id"}, {NaturalKey})>>

CanonicalInitDown ==
  DropEach(<<"vote_counts", "person_votes", "bill_statute_changes",
        "vote_events", "statute_sections", "bill_action_classifications",
        "statute_chapters", "lobbying_positions", "bill_versions",
        "bill_subjects", "bill_sponsorships", "bill_relationships",
        "bill_events", "bill_actions", "assignments", "amendments",
        "statute_titles", "roles", "person_identifiers",
        "organization_identifiers", "lobbying_activities", "contributions",
        "bills", "statute_codes", "persons", "organizations",
        "legislative_sessions">>)
  \o <<DropSchema("canonical")>>

CanonicalInit == [up |-> CanonicalInit1 \o CanonicalInit2 \o CanonicalInit3 \o CanonicalInit4, down |-> CanonicalInitDown]

(* 20260528_v1_1_titles: titles of a bill on a table of their own.          *)
BillTitles ==
  [up |-> <<DropColumns(On("persons", {"birth_year"})),
            Table("bill_titles", {"chamber", "jurisdiction_id"},
               {"amendment_id", "bill_id"}, {NaturalKey})>>,
   down |-> <<Drop("bill_titles"),
              AddColumns(On("persons", {"birth_year"}))>>]

(* 20260528_v1_2_review: texts move from bills to versions; links, citations and notes.*)
ReviewRevisionsUp ==
  <<DropColumns(On("bills", {"short_description", "current_text"})),
    AddColumns(On("bills", {"current_version_id"}) \cup On("bill_versions",
       {"short_description", "text", "amendment_id"})),
    AddRefs(On("bill_versions", {"amendment_id"}) \cup On("bills",
       {"current_version_id"})),
    AddColumns(On("amendments", {"amendment_kind"}) \cup
       On("legislative_sessions", {"adjourned_sine_die_at"})),
    Table("bill_version_links", {"jurisdiction_id"}, {"bill_version_id"},
       {NaturalKey}),
    Table("bill_statutory_citations", {"jurisdiction_id"}, {"bill_version_id",
       "statute_section_id"}, {NaturalKey}),
    CoreTable("notes", {}, {}, {})>>

ReviewRevisionsDown ==
  <<Drop("notes"),
    Drop("bill_statutory_citations"),
    Drop("bill_version_links"),
    DropColumns(On("legislative_sessions", {"adjourned_sine_die_at"}) \cup
       On("amendments", {"amendment_kind"})),
    DropRefs(On("bills", {"current_version_id"}) \cup On("bill_versions",
       {"amendment_id"})),
    DropColumns(On("bill_versions", {"amendment_id", "text",
       "short_description"}) \cup On("bills", {"current_version_id"})),
    AddColumns(On("bills", {"current_text", "short_description"}))>>

ReviewRevisions == [up |-> ReviewRevisionsUp, down |-> ReviewRevisionsDown]

(* 20260529_vote_action_link: a vote names the action it was taken in.      *)
VoteActionLink ==
  [up |-> <<AddColumns(On("vote_events", {"originating_bill_action_id"})),
            AddRefs(On("vote_events", {"originating_bill_action_id"}))>>,
   down |-> <<DropRefs(On("vote_events", {"originating_bill_action_id"})),
              DropColumns(On("vote_events", {"originating_bill_action_id"}))>>]

(* 20260530_doc_identifiers: identifiers of documents.                      *)
DocumentIdentifiers ==
  [up |-> <<CoreTable("document_identifiers", {"jurisdiction_id"}, {},
               {NaturalKey, <<"jurisdiction_scheme_value",
               {"jurisdiction_id"}>>})>>,
   down |-> <<Drop("document_identifiers")>>]

(* 20260530_bill_supplements: supplements of a bill.                        *)
BillSupplements ==
  [up |-> <<Table("bill_supplements", {"jurisdiction_id"},
               {"author_organization_id", "bill_id", "bill_version_id"},
               {NaturalKey}),
            AddColumns(On("bill_actions", {"supplement_id"})),
            AddRefs(On("bill_actions", {"supplement_id"}))>>,
   down |-> <<DropRefs(On("bill_actions", {"supplement_id"})),
              DropColumns(On("bill_actions", {"supplement_id"})),
              Drop("bill_supplements")>>]

(* 20260531_bill_chamber_fk: chambers become organizations.                 *)
BillChambers ==
  [up |-> <<Require(On("bills", {"originating_chamber_id"})),
            AddColumns(On("bills", {"current_chamber_id"})),
            AddRefs(On("bills", {"originating_chamber_id",
               "current_chamber_id"})),
            DropColumns(On("bills", {"current_chamber",
               "originating_chamber"}))>>,
   down |-> <<Require(On("bills", {"originating_chamber"})),
              AddColumns(On("bills", {"current_chamber"})),
              DropRefs(On("bills", {"current_chamber_id",
                 "originating_chamber_id"})),
              DropColumns(On("bills", {"current_chamber_id",
                 "originating_chamber_id"}))>>]

(* 20260601_bill_class_sponsored_at: columns taken back by the next revision.*)
BillClassification ==
  [up |-> <<AddColumns(On("bills", {"classification"}) \cup
               On("bill_sponsorships", {"sponsored_at"}))>>,
   down |-> <<DropColumns(On("bill_sponsorships", {"sponsored_at"}) \cup
                 On("bills", {"classification"}))>>]

(* 20260602_seven_item_batch: type tables, and amendments hang from versions.*)
SevenItemBatchUp ==
  <<Table("bill_relationship_types", {"jurisdiction_id"}, {},
       {<<"jurisdiction_code", {"jurisdiction_id"}>>}),
    Table("bill_types", {"jurisdiction_id"}, {}, {<<"jurisdiction_code",
       {"jurisdiction_id"}>>}),
    AddColumns(On("bills", {"bill_type_id"})),
    AddRefs(On("bills", {"bill_type_id"})),
    DropColumns(On("bills", {"bill_type", "classification"}) \cup
       On("legislative_sessions", {"adjourned_sine_die_at"}) \cup
       On("bill_actions", {"chamber"})),
    AddColumns(On("bill_titles", {"chamber_id"})),
    AddRefs(On("bill_titles", {"chamber_id"})),
    DropColumns(On("bill_titles", {"chamber"})),
    Require(On("bill_relationships", {"relationship_type_id"})),
    DropKeys(On("bill_relationships", {"pair_type"})),
    AddKeys(On("bill_relationships", {"pair_type"}), {"relationship_type_id"}),
    AddRefs(On("bill_relationships", {"relationship_type_id"})),
    DropColumns(On("bill_relationships", {"relationship_type"})),
    DropRefs(On("bill_versions", {"amendment_id"})),
    DropColumns(On("bill_versions", {"amendment_id"})),
    Require(On("amendments", {"bill_version_id"})),
    DropRefs(On("amendments", {"bill_id"})),
    AddRefs(On("amendments", {"bill_version_id"})),
    DropColumns(On("amendments", {"bill_id", "amendment_text"})),
    DropKeys(On("document_identifiers", {"jurisdiction_scheme_value"})),
    AddKeys(On("document_identifiers", {"jurisdiction_entity_scheme_value"}),
       {"jurisdiction_id"})>>

SevenItemBatchDown ==
  <<DropKeys(On("document_identifiers", {"jurisdiction_entity_scheme_value"})),
    Narrow({"document_identifiers"}),
    AddKeys(On("document_identifiers", {"jurisdiction_scheme_value"}),
       {"jurisdiction_id"}),
    AddColumns(On("amendments", {"amendment_text"})),
    Require(On("amendments", {"bill_id"})),
    DropRefs(On("amendments", {"bill_version_id"})),
    AddRefs(On("amendments", {"bill_id"})),
    DropColumns(On("amendments", {"bill_version_id"})),
    AddColumns(On("bill_versions", {"amendment_id"})),
    AddRefs(On("bill_versions", {"amendment_id"})),
    Require(On("bill_relationships", {"relationship_type"})),
    DropRefs(On("bill_relationships", {"relationship_type_id"})),
    DropKeys(On("bill_relationships", {"pair_type"})),
    AddKeys(On("bill_relationships", {"pair_type"}), {"relationship_type"}),
    DropColumns(On("bill_relationships", {"relationship_type_id"})),
    AddColumns(On("bill_titles", {"chamber"})),
    DropRefs(On("bill_titles", {"chamber_id"})),
    DropColumns(On("bill_titles", {"chamber_id"})),
    AddColumns(On("bill_actions", {"chamber"}) \cup On("legislative_sessions",
       {"adjourned_sine_die_at"}) \cup On("bills", {"classification",
       "bill_type"})),
    DropRefs(On("bills", {"bill_type_id"})),
    DropColumns(On("bills", {"bill_type_id"})),
    Drop("bill_types"),
    Drop("bill_relationship_types")>>

SevenItemBatch == [up |-> SevenItemBatchUp, down |-> SevenItemBatchDown]

(* 20260603_jurisdictional_ia: jurisdiction_id becomes a foreign key everywhere.*)
JurisdictionKeys ==
  ({"amendments", "assignments", "bill_action_classifications", "bill_actions",
    "bill_events", "bill_relationships", "bill_sponsorships",
    "bill_statutory_citations", "bill_subjects", "bill_supplements", "bill_titles",
    "bill_version_links", "bill_versions", "bills", "contributions",
    "document_identifiers", "legislative_sessions", "lobbying_activities",
    "lobbying_positions", "organization_identifiers", "organizations",
    "person_identifiers", "person_votes", "persons", "statute_codes", "vote_counts",
    "vote_events"} \X {"natural_key"})
  \cup ({"bill_relationship_types", "bill_types"} \X {"jurisdiction_code"})
  \cup ({"organization_identifiers", "person_identifiers"}
          \X {"jurisdiction_scheme_value"})
  \cup On("document_identifiers", {"jurisdiction_entity_scheme_value"})
  \cup On("legislative_sessions", {"slug"})

KeylessTables ==
  {"bill_statute_changes", "statute_chapters", "statute_sections", "statute_titles"}

(* A temporary column is filled by slug, takes the old one's name and the  *)
(* keys that went with the old one.                                        *)
Refactor(tables, keys) ==
  <<AddColumns(tables \X {"_jurisdiction_id_new"}), Narrow(tables), DropKeys(keys),
    DropColumns(tables \X {"jurisdiction_id"}),
    Rename(tables \X {"_jurisdiction_id_new"}, "jurisdiction_id"),
    AddRefs(tables \X {"jurisdiction_id"}), AddKeys(keys, {"jurisdiction_id"})>>

Revert(tables, keys) ==
  <<DropKeys(keys), DropRefs(tables \X {"jurisdiction_id"}),
    AddColumns(tables \X {"_jurisdiction_id_old"}),
    DropColumns(tables \X {"jurisdiction_id"}),
    Rename(tables \X {"_jurisdiction_id_old"}, "jurisdiction_id"),
    AddKeys(keys, {"jurisdiction_id"})>>

JurisdictionFkTables == {key[1] : key \in JurisdictionKeys} \cup KeylessTables

JurisdictionTables ==
  <<CoreTable("jurisdiction_types", {}, {}, {}),
    CoreTable("jurisdiction_relationship_types", {}, {}, {}),
    AddColumns(On("jurisdictions", {"pm_jurisdiction_id", "type_id", "valid_from",
       "valid_until", "recorded_at", "superseded_at"})),
    DropColumns(On("jurisdictions", {"level"})),
    AddRefs(On("jurisdictions", {"type_id"}))>>

JurisdictionalIaUp ==
  JurisdictionTables
  \o <<CoreTable("jurisdiction_relationships", {}, {"subject_jurisdiction_id",
          "object_jurisdiction_id", "relationship_type_id"}, {})>>
  \o Refactor(JurisdictionFkTables, JurisdictionKeys)
  \o <<DropKeys(On("roles", {"org_name_district"}))>>
  \o Refactor({"roles"}, On("roles", {"natural_key"}))
  \o <<DropColumns(On("roles", {"district"})), Narrow({"roles"}),
       AddKeys(On("roles", {"org_name"}), {"jurisdiction_id"})>>

JurisdictionalIaDown ==
  <<AddColumns(On("roles", {"district"})), DropKeys(On("roles", {"org_name"}))>>
  \o Revert({"roles"}, On("roles", {"natural_key"}))
  \o <<AddKeys(On("roles", {"org_name_district"}), {"jurisdiction_id", "district"})>>
  \o Revert(JurisdictionFkTables, JurisdictionKeys)
  \o <<Drop("jurisdiction_relationships"), DropRefs(On("jurisdictions", {"type_id"})),
       AddColumns(On("jurisdictions", {"level"})),
       DropColumns(On("jurisdictions", {"superseded_at", "recorded_at", "valid_until",
          "valid_from", "type_id", "pm_jurisdiction_id"})),
       Drop("jurisdiction_relationship_types"), Drop("jurisdiction_types")>>

JurisdictionalIa == [up |-> JurisdictionalIaUp, down |-> JurisdictionalIaDown]
=============================================================================
