-------------------------- MODULE RegistryRevisions -------------------------
(***************************************************************************)
(* The revisions that move what is attested into the registry and drop the *)
(* canonical tier, the mirrors and the spine.                              *)
(***************************************************************************)
EXTENDS SchemaOps

(* f1a2b3c4d5e6: attested operator events.                                  *)
OperatorEventsTable ==
  [up |-> <<Table("operator_events", {}, {"superseded_by_id"}, {})>>,
   down |-> <<Drop("operator_events")>>]

(* 73256e626f42: anchors that do not converge.                              *)
NonconvergenceState ==
  [up |-> <<SyncTable("powermap_nonconvergence_state", {}, {}, {})>>,
   down |-> <<Drop("powermap_nonconvergence_state")>>]

(* 2365a8eceb9e: attested committee successions.                            *)
CommitteeSuccession ==
  [up |-> <<Table("committee_succession_events", {}, {"superseded_by_id"}, {})>>,
   down |-> <<Drop("committee_succession_events")>>]

(* e4a1c9b7d2f3: a retraction on the mirrored events.                       *)
EventsRetractedAt ==
  [up |-> <<AddColumns(On("entity_events", {"retracted_at"}))>>,
   down |-> <<DropColumns(On("entity_events", {"retracted_at"}))>>]

(* 890c046c6e58: state of conditional requests.                             *)
ConditionalGetState ==
  [up |-> <<SyncTable("powermap_conditional_get_state", {}, {}, {})>>,
   down |-> <<Drop("powermap_conditional_get_state")>>]

(* 1347c49fd6bf: the ledger of job runs.                                    *)
JobRunLedger ==
  [up |-> <<CoreTable("job_runs", {}, {}, {})>>,
   down |-> <<Drop("job_runs")>>]

(* 02bb603b7702: what each source covers.                                   *)
SourceCoverageTable ==
  [up |-> <<CoreTable("source_coverage", {}, {"evidence_citation_id",
               "source_id"}, {})>>,
   down |-> <<Drop("source_coverage")>>]

(* 0598c2e839ef: an index on the kind of a span.                            *)
SpanKindIndex ==
  [up |-> <<AddKeys(On("assignments", {"span_kind"}), {})>>,
   down |-> <<DropKeys(On("assignments", {"span_kind"}))>>]

(* 27c8373439a4: a watermark of the conditional requests.                   *)
RowWatermark ==
  [up |-> <<AddColumns(On("powermap_conditional_get_state",
               {"row_updated_at"}))>>,
   down |-> <<DropColumns(On("powermap_conditional_get_state",
                 {"row_updated_at"}))>>]

(* a1b2c3d4e5f6: SUPERSEDED joins the statuses of the outbox.               *)
OutboxSuperseded ==
  [up |-> <<DropKeys(On("powermap_outbox", {"status"})),
            AddKeys(On("powermap_outbox", {"status"}), {})>>,
   down |-> <<Rewrite("powermap_outbox"),
              DropKeys(On("powermap_outbox", {"status"})),
              AddKeys(On("powermap_outbox", {"status"}), {})>>]

(* 97e40a1f61ab: the identity registry.                                     *)
IdentityRegistry ==
  [up |-> <<CreateSchema("registry"),
            RegistryTable("adjudications", {"subject_entity_id", "target_entity_id"}, {}, {}),
            RegistryTable("entities", {}, {"merged_into"}, {}),
            RegistryTable("entity_keys", {}, {"entity_id"}, {})>>,
   down |-> <<Drop("entity_keys"),
              Drop("entities"),
              Drop("adjudications"),
              DropSchema("registry")>>]

(* 3c9d1e7f42ab: a decision names entities that exist.                      *)
AdjudicationFks ==
  [up |-> <<Narrow({"adjudications"}),
            AddRefs(On("adjudications", {"subject_entity_id",
               "target_entity_id"}))>>,
   down |-> <<DropRefs(On("adjudications", {"subject_entity_id",
                 "target_entity_id"}))>>]

(* 5079afab4030: the mirrors and the sync schema go.                        *)
DropMirrorsUp ==
  <<Drop("role_types"),
       Drop("organization_names"),
       Drop("powermap_conditional_get_state"),
       DropKeys(On("powermap_outbox", {"open"}))>>
  \o DropEach(<<"powermap_outbox", "entity_events",
        "powermap_anchor_reanchor", "organization_acronyms",
        "powermap_nonconvergence_state", "powermap_sync_state",
        "powermap_enrich_fingerprint">>)
  \o <<DropSchema("sync")>>

DropMirrorsDown ==
  <<CreateSchema("sync"),
    SyncTable("powermap_enrich_fingerprint", {}, {}, {}),
    SyncTable("powermap_sync_state", {}, {}, {}),
    SyncTable("powermap_nonconvergence_state", {}, {}, {}),
    Table("organization_acronyms", {}, {"organization_id"}, {}),
    SyncTable("powermap_anchor_reanchor", {}, {}, {}),
    Table("entity_events", {"event_day", "event_hour", "event_minute",
       "event_month", "event_place_address", "event_place_text",
       "event_second", "event_type_id", "event_type_slug", "event_year",
       "linked_entity_id", "linked_entity_kind", "notes", "pm_created_at",
       "retracted_at", "verified_at", "visibility"}, {},
       {<<"linked_entity_kind", {}>>, <<"visibility", {}>>,
       <<"event_type_xor", {}>>, <<"linked_entity_together", {}>>, SourceKey}),
    SyncTable("powermap_outbox", {"payload_hash"}, {}, {<<"op", {}>>,
       <<"status", {}>>}),
    AddKeys(On("powermap_outbox", {"open"}), {}),
    SyncTable("powermap_conditional_get_state", {"row_updated_at"}, {}, {}),
    Table("organization_names", {}, {"organization_id"}, {}),
    Table("role_types", {"expects_jurisdiction", "requires_qualifier"}, {},
       {})>>

DropMirrors == [up |-> DropMirrorsUp, down |-> DropMirrorsDown]

(* 746b53a33587: the attested tables move to the registry.                  *)
MoveEvents ==
  [up |-> <<SetSchema("operator_events", "registry"),
            SetSchema("committee_succession_events", "registry")>>,
   down |-> <<SetSchema("operator_events", "canonical"),
              SetSchema("committee_succession_events", "canonical")>>]

(* f9efb48842d6: the canonical tier and the spine go.                       *)
DropCanonicalUp ==
  <<DropRefs(On("source_coverage", {"evidence_citation_id"})),
       DropColumns(On("source_coverage", {"evidence_citation_id"})),
       NothingOutside("canonical"),
       DropSchema("canonical")>>
  \o DropEach(<<"citations", "raw_payloads", "fetch_events", "notes",
        "document_identifiers", "integrity_sweep_state",
        "jurisdiction_relationships", "jurisdiction_relationship_types">>)
  \o <<DropColumns(On("jurisdictions", {"pm_jurisdiction_id"}))>>

CanonicalAgain1 ==
  <<CreateSchema("canonical"),
    Table("bill_types", {}, {"jurisdiction_id"}, {<<"jurisdiction_code",
       {"jurisdiction_id"}>>}),
    Table("organizations", {"acronym", "active", "archived_at", "deleted_at",
       "phone", "pm_organization_id"}, {"jurisdiction_id",
       "parent_organization_id"}, {SourceKey}),
    AddKeys(On("organizations", {"pm_organization_id"}),
       {"pm_organization_id"}),
    Table("legislative_sessions", {}, {"organization_id",
       "parent_legislative_session_id"}, {<<"slug", {"organization_id"}>>,
       SourceKey}),
    Table("bills", {"current_version_id"}, {"bill_type_id",
       "current_chamber_id", "legislative_session_id",
       "originating_chamber_id"}, {SourceKey}),
    Table("bill_versions", {"short_description", "text"}, {"bill_id"},
       {SourceKey}),
    Table("persons", {"archived_at", "deleted_at", "pm_person_id"}, {},
       {SourceKey}),
    AddKeys(On("persons", {"pm_person_id"}), {"pm_person_id"})>>

CanonicalAgain2 ==
  <<Table("amendments", {"amendment_kind"}, {"bill_version_id",
       "sponsor_organization_id", "sponsor_person_id"}, {SourceKey}),
    Table("bill_supplements", {}, {"author_organization_id", "bill_id",
       "bill_version_id"}, {SourceKey}),
    Table("bill_actions", {}, {"acting_organization_id", "bill_id",
       "supplement_id"}, {SourceKey}),
    Table("vote_events", {}, {"amendment_id", "bill_id",
       "context_organization_id", "originating_bill_action_id"}, {SourceKey}),
    CoreTable("fetch_events", {}, {"source_id"}, {}),
    AddKeys(On("fetch_events", {"dedup"}), {}),
    CoreTable("raw_payloads", {}, {"fetch_event_id"}, {})>>

CanonicalAgain3 ==
  <<Table("statute_codes", {}, {"jurisdiction_id"}, {NaturalKey}),
    Table("statute_titles", {}, {"jurisdiction_id", "statute_code_id"}, {}),
    Table("statute_chapters", {}, {"jurisdiction_id", "statute_title_id"}, {}),
    Table("statute_sections", {}, {"jurisdiction_id", "statute_chapter_id"},
       {}),
    Table("contributions", {}, {"contributor_organization_id",
       "contributor_person_id", "jurisdiction_id",
       "recipient_organization_id"}, {NaturalKey}),
    Table("person_identifiers", {}, {"person_id"}, {<<"scheme_value", {}>>,
       SourceKey}),
    CoreTable("jurisdiction_relationship_types", {}, {}, {}),
    Table("vote_counts", {}, {"vote_event_id"}, {SourceKey})>>

CanonicalAgain4 ==
  <<Table("roles", {"archived_at", "deleted_at", "pm_role_id", "qualifier"},
       {"jurisdiction_id", "organization_id"}, {SourceKey}),
    AddKeys(On("roles", {"seat"}), {"jurisdiction_id", "qualifier"}),
    AddKeys(On("roles", {"pm_role_id"}), {"pm_role_id"}),
    AddKeys(On("roles", {"org_name"}), {}),
    Table("assignments", {"archived_at", "deleted_at", "pm_assignment_id"},
       {"person_id", "role_id"}, {SourceKey}),
    AddKeys(On("assignments", {"pm_assignment_id"}), {"pm_assignment_id"}),
    AddKeys(On("assignments", {"span_kind"}), {}),
    Table("person_votes", {}, {"person_id", "vote_event_id"}, {SourceKey}),
    Table("organization_identifiers", {}, {"organization_id"},
       {<<"scheme_value", {}>>, SourceKey}),
    CoreTable("jurisdiction_relationships", {}, {"object_jurisdiction_id",
       "relationship_type_id", "subject_jurisdiction_id"}, {})>>

CanonicalAgain5 ==
  <<CoreTable("notes", {}, {}, {}),
    Table("lobbying_activities", {}, {"employer_organization_id",
       "jurisdiction_id", "organization_id", "person_id"}, {NaturalKey}),
    Table("bill_statute_changes", {}, {"bill_id", "jurisdiction_id",
       "statute_section_id"}, {}),
    Table("bill_sponsorships", {"sponsored_at"}, {"bill_id",
       "organization_id", "person_id"}, {SourceKey}),
    Table("bill_titles", {}, {"amendment_id", "bill_id", "chamber_id"},
       {SourceKey}),
    Table("bill_version_links", {}, {"bill_version_id"}, {SourceKey})>>

CanonicalAgain6 ==
  <<Table("bill_relationship_types", {}, {"jurisdiction_id"},
       {<<"jurisdiction_code", {"jurisdiction_id"}>>}),
    Table("bill_relationships", {}, {"from_bill_id", "relationship_type_id",
       "to_bill_id"}, {<<"pair_type", {"relationship_type_id"}>>, SourceKey}),
    Table("bill_events", {}, {"bill_id", "organization_id"}, {SourceKey}),
    Table("bill_action_classifications", {}, {"bill_action_id"}, {SourceKey}),
    Table("bill_subjects", {}, {"bill_id"}, {SourceKey}),
    Table("lobbying_positions", {}, {"bill_id", "jurisdiction_id",
       "lobbying_activity_id"}, {NaturalKey}),
    CoreTable("integrity_sweep_state", {}, {}, {}),
    Table("bill_statutory_citations", {}, {"bill_version_id",
       "statute_section_id"}, {SourceKey}),
    CoreTable("citations", {}, {"fetch_event_id"}, {}),
    CoreTable("document_identifiers", {}, {"jurisdiction_id"},
       {<<"jurisdiction_entity_scheme_value", {"jurisdiction_id"}>>,
       NaturalKey}),
    AddRefs(On("bills", {"current_version_id"})),
    AddColumns(On("source_coverage", {"evidence_citation_id"})),
    AddRefs(On("source_coverage", {"evidence_citation_id"})),
    AddColumns(On("jurisdictions", {"pm_jurisdiction_id"}))>>

DropCanonical ==
  [up |-> DropCanonicalUp,
   down |-> CanonicalAgain1 \o CanonicalAgain2 \o CanonicalAgain3 \o CanonicalAgain4
            \o CanonicalAgain5 \o CanonicalAgain6]

(* f9213b85b417: an operator event may be retracted.                        *)
OperatorRetraction ==
  [up |-> <<AddColumns(On("operator_events", {"retracted_at"})),
            AddKeys(On("operator_events", {"superseded_or_retracted"}), {})>>,
   down |-> <<DropKeys(On("operator_events", {"superseded_or_retracted"})),
              DropColumns(On("operator_events", {"retracted_at"}))>>]
=============================================================================
