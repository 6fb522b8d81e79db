--------------------------- MODULE MirrorRevisions --------------------------
(***************************************************************************)
(* The revisions of the years the database mirrored another registry: the sync *)
(* schema and its anchors, and what they added to the canonical tables.    *)
(***************************************************************************)
EXTENDS SchemaOps

(* bd90e2ab379a: the outbox, entity events and anchors of the sync sidecar. *)
PowermapSyncSidecarUp ==
  <<CreateSchema("sync"),
    SyncTable("powermap_outbox", {}, {}, {<<"op", {}>>, <<"status", {}>>}),
    AddKeys(On("powermap_outbox", {"open"}), {}),
    SyncTable("powermap_sync_state", {}, {}, {}),
    Table("entity_events", {"date", "event_type"}, {"jurisdiction_id"},
       {NaturalKey}),
    AddColumns(On("assignments", {"pm_assignment_id"}) \cup On("roles",
       {"pm_role_id"})),
    Rename(On("organizations", {"powermap_organization_id"}),
       "pm_organization_id"),
    Rename(On("persons", {"powermap_person_id"}), "pm_person_id")>>

PowermapSyncSidecarDown ==
  <<Rename(On("persons", {"pm_person_id"}), "powermap_person_id"),
    Rename(On("organizations", {"pm_organization_id"}),
       "powermap_organization_id"),
    DropColumns(On("roles", {"pm_role_id"}) \cup On("assignments",
       {"pm_assignment_id"})),
    Drop("entity_events"),
    Drop("powermap_sync_state"),
    DropKeys(On("powermap_outbox", {"open"})),
    Drop("powermap_outbox"),
    DropSchema("sync")>>

PowermapSyncSidecar == [up |-> PowermapSyncSidecarUp, down |-> PowermapSyncSidecarDown]

(* 8d3f5cb3248f: identity no longer depends on the jurisdiction.            *)
SourceKeyed ==
  {"amendments", "assignments", "bill_action_classifications", "bill_actions",
   "bill_events", "bill_relationships", "bill_sponsorships",
   "bill_statutory_citations", "bill_subjects", "bill_supplements", "bill_titles",
   "bill_version_links", "bill_versions", "bills", "entity_events",
   "legislative_sessions", "organization_identifiers", "person_identifiers",
   "person_votes", "persons", "roles", "vote_counts", "vote_events"}

(* Organizations keep the column, as an attribute that may be empty.       *)
DecoupleUp ==
  <<Require(On("legislative_sessions", {"organization_id"})),
    DropKeys((SourceKeyed \cup {"organizations"}) \X {"natural_key"}),
    DropKeys(On("legislative_sessions", {"slug"})
       \cup ({"organization_identifiers", "person_identifiers"}
               \X {"jurisdiction_scheme_value"})),
    DropKeys(On("roles", {"org_name"})),
    Narrow(SourceKeyed \cup {"organizations"}),
    AddKeys((SourceKeyed \cup {"organizations"}) \X {"natural_key"}, {}),
    AddKeys(On("legislative_sessions", {"slug"}), {"organization_id"}),
    AddKeys({"organization_identifiers", "person_identifiers"} \X {"scheme_value"}, {}),
    AddKeys(On("roles", {"org_name"}), {}),
    DropRefs(SourceKeyed \X {"jurisdiction_id"}),
    AddRefs(On("legislative_sessions", {"organization_id"})),
    DropColumns(SourceKeyed \X {"jurisdiction_id"})>>

DecoupleDown ==
  <<Require(SourceKeyed \X {"jurisdiction_id"}), Narrow({"organizations"}),
    DropRefs(On("legislative_sessions", {"organization_id"})),
    AddRefs(SourceKeyed \X {"jurisdiction_id"}),
    DropKeys(On("legislative_sessions", {"slug"}) \cup On("roles", {"org_name"})
       \cup ({"organization_identifiers", "person_identifiers"} \X {"scheme_value"})),
    DropKeys((SourceKeyed \cup {"organizations"}) \X {"natural_key"}),
    AddKeys((SourceKeyed \cup {"organizations"}) \X {"natural_key"}, {"jurisdiction_id"}),
    AddKeys(On("legislative_sessions", {"slug"}) \cup On("roles", {"org_name"})
       \cup ({"organization_identifiers", "person_identifiers"}
               \X {"jurisdiction_scheme_value"}), {"jurisdiction_id"}),
    DropColumns(On("legislative_sessions", {"organization_id"}))>>

DecoupleJurisdiction == [up |-> DecoupleUp, down |-> DecoupleDown]

(* c1f2a3b4d5e6: ENRICH joins the operations of the outbox.                 *)
OutboxOpEnrich ==
  [up |-> <<DropKeys(On("powermap_outbox", {"op"})),
            AddKeys(On("powermap_outbox", {"op"}), {})>>,
   down |-> <<DropKeys(On("powermap_outbox", {"op"})),
              Narrow({"powermap_outbox"}),
              AddKeys(On("powermap_outbox", {"op"}), {})>>]

(* d2e3f4a5b6c7: UNAVAILABLE joins the statuses of the outbox.              *)
OutboxUnavailable ==
  [up |-> <<DropKeys(On("powermap_outbox", {"status"})),
            AddKeys(On("powermap_outbox", {"status"}), {})>>,
   down |-> <<DropKeys(On("powermap_outbox", {"status"})),
              Narrow({"powermap_outbox"}),
              AddKeys(On("powermap_outbox", {"status"}), {})>>]

(* b96aac248962: event dates in parts, a type by slug or by id.             *)
RefineEntityEvents ==
  [up |-> <<AddColumns(On("entity_events", {"event_type_slug",
               "event_type_id", "event_year", "event_month", "event_day",
               "event_hour", "event_minute", "event_second",
               "event_place_text", "visibility", "linked_entity_kind",
               "linked_entity_id"})),
            DropColumns(On("entity_events", {"date", "event_type"})),
            Unheld("entity_events"),
            AddKeys(On("entity_events", {"event_type_xor", "visibility",
               "linked_entity_kind", "linked_entity_together"}), {})>>,
   down |-> <<DropKeys(On("entity_events", {"linked_entity_together",
                 "linked_entity_kind", "visibility", "event_type_xor"})),
              Require(On("entity_events", {"event_type"})),
              AddColumns(On("entity_events", {"date"})),
              DropColumns(On("entity_events", {"linked_entity_id",
                 "linked_entity_kind", "visibility", "event_place_text",
                 "event_second", "event_minute", "event_hour", "event_day",
                 "event_month", "event_year", "event_type_id",
                 "event_type_slug"}))>>]

(* f5f1bd9f84ae: fields of the mirrored events.                             *)
EntityEventFields ==
  [up |-> <<AddColumns(On("entity_events", {"event_place_address", "notes",
               "verified_at", "pm_created_at"}))>>,
   down |-> <<DropColumns(On("entity_events", {"pm_created_at", "verified_at",
                 "notes", "event_place_address"}))>>]

(* b88a5888e2ba: biennium and session; acronym and phone.                   *)
ParentSession ==
  [up |-> <<AddColumns(On("legislative_sessions",
               {"parent_legislative_session_id"})),
            AddRefs(On("legislative_sessions",
               {"parent_legislative_session_id"})),
            AddColumns(On("organizations", {"acronym", "phone"}))>>,
   down |-> <<DropColumns(On("organizations", {"phone", "acronym"})),
              DropRefs(On("legislative_sessions",
                 {"parent_legislative_session_id"})),
              DropColumns(On("legislative_sessions",
                 {"parent_legislative_session_id"}))>>]

(* a1c7e9d2f3b4: the enrichment fingerprint.                                *)
EnrichFingerprint ==
  [up |-> <<AddColumns(On("powermap_outbox", {"payload_hash"})),
            SyncTable("powermap_enrich_fingerprint", {}, {}, {})>>,
   down |-> <<Drop("powermap_enrich_fingerprint"),
              DropColumns(On("powermap_outbox", {"payload_hash"}))>>]

(* 136d33aa41b8: a tombstone on the identity tables.                        *)
RetiredAt ==
  [up |-> <<AddColumns(({"assignments", "organizations", "persons", "roles"}
               \X {"retired_at"}))>>,
   down |-> <<DropColumns(({"roles", "persons", "organizations",
                 "assignments"} \X {"retired_at"}))>>]

(* d552d384b788: archived and deleted are two axes.                         *)
SplitLifecycle ==
  [up |-> <<Rename(On("assignments", {"retired_at"}), "archived_at"),
            AddColumns(On("assignments", {"deleted_at"})),
            Rename(On("organizations", {"retired_at"}), "archived_at"),
            AddColumns(On("organizations", {"deleted_at"})),
            Rename(On("persons", {"retired_at"}), "archived_at"),
            AddColumns(On("persons", {"deleted_at"})),
            Rename(On("roles", {"retired_at"}), "archived_at"),
            AddColumns(On("roles", {"deleted_at"}))>>,
   down |-> <<DropColumns(On("assignments", {"deleted_at"})),
              Rename(On("assignments", {"archived_at"}), "retired_at"),
              DropColumns(On("organizations", {"deleted_at"})),
              Rename(On("organizations", {"archived_at"}), "retired_at"),
              DropColumns(On("persons", {"deleted_at"})),
              Rename(On("persons", {"archived_at"}), "retired_at"),
              DropColumns(On("roles", {"deleted_at"})),
              Rename(On("roles", {"archived_at"}), "retired_at")>>]

(* 4aa429d354a1: the active axis of an organization.                        *)
OrgActiveAxis ==
  [up |-> <<AddColumns(On("organizations", {"active"}))>>,
   down |-> <<DropColumns(On("organizations", {"active"}))>>]

(* a1c4f7e2b9d0: names of organizations.                                    *)
OrganizationNames ==
  [up |-> <<Table("organization_names", {}, {"organization_id"}, {})>>,
   down |-> <<Drop("organization_names")>>]

(* b2d5a8f3c0e1: acronyms of organizations.                                 *)
OrganizationAcronyms ==
  [up |-> <<Table("organization_acronyms", {}, {"organization_id"}, {})>>,
   down |-> <<Drop("organization_acronyms")>>]

(* c3f1a9e6d2b4: the retention policy of a source.                          *)
RetentionPolicy ==
  [up |-> <<AddColumns(On("sources", {"retention_policy"}))>>,
   down |-> <<DropColumns(On("sources", {"retention_policy"}))>>]

(* d4e2b8c1f5a7: the index the fetch deduplication reads.                   *)
DedupIndex ==
  [up |-> <<AddKeys(On("fetch_events", {"dedup"}), {})>>,
   down |-> <<DropKeys(On("fetch_events", {"dedup"}))>>]

(* e5f3c9d2a6b8: an index the composite one covers.                         *)
RedundantIndex ==
  [up |-> <<DropKeys(On("fetch_events", {"source_id"}))>>,
   down |-> <<AddKeys(On("fetch_events", {"source_id"}), {})>>]

(* f6a4d1c3e7b9: where the sweep stands.                                    *)
IntegritySweepStateTable ==
  [up |-> <<CoreTable("integrity_sweep_state", {}, {}, {})>>,
   down |-> <<Drop("integrity_sweep_state")>>]

(* c7d9e1f3a5b7: a seat is named by district and qualifier.                 *)
SeatRoles ==
  [up |-> <<AddColumns(On("roles", {"jurisdiction_id", "qualifier"})),
            AddRefs(On("roles", {"jurisdiction_id"})),
            DropKeys(On("roles", {"org_name"})),
            AddKeys(On("roles", {"org_name"}), {}),
            AddKeys(On("roles", {"seat"}), {"jurisdiction_id", "qualifier"})>>,
   down |-> <<DropKeys(On("roles", {"seat", "org_name"})),
              Narrow({"roles"}),
              AddKeys(On("roles", {"org_name"}), {}),
              DropRefs(On("roles", {"jurisdiction_id"})),
              DropColumns(On("roles", {"qualifier", "jurisdiction_id"}))>>]

(* e1a7c4b9d2f6: the mirrored catalog of role types.                        *)
RoleTypes ==
  [up |-> <<Table("role_types", {"is_seat"}, {}, {})>>,
   down |-> <<Drop("role_types")>>]

(* f2b8d5c0e3a9: a column renamed.                                          *)
ExpectsJurisdiction ==
  [up |-> <<Rename(On("role_types", {"is_seat"}), "expects_jurisdiction")>>,
   down |-> <<Rename(On("role_types", {"expects_jurisdiction"}), "is_seat")>>]

(* a7e1d9551f31: a column added.                                            *)
RequiresQualifier ==
  [up |-> <<AddColumns(On("role_types", {"requires_qualifier"}))>>,
   down |-> <<DropColumns(On("role_types", {"requires_qualifier"}))>>]

(* b3f7c2a9d4e1: one row for each anchor.                                   *)
AnchorIndexes ==
  [up |-> <<Narrow({"persons", "organizations", "roles", "assignments"}),
            AddKeys(On("persons", {"pm_person_id"}), {"pm_person_id"}),
            AddKeys(On("organizations", {"pm_organization_id"}),
               {"pm_organization_id"}),
            AddKeys(On("roles", {"pm_role_id"}), {"pm_role_id"}),
            AddKeys(On("assignments", {"pm_assignment_id"}),
               {"pm_assignment_id"})>>,
   down |-> <<DropKeys(On("persons", {"pm_person_id"}) \cup
                 On("organizations", {"pm_organization_id"}) \cup On("roles",
                 {"pm_role_id"}) \cup On("assignments", {"pm_assignment_id"}))>>]

(* b3669b3ef3be: the ledger of re-anchoring.                                *)
AnchorReanchor ==
  [up |-> <<SyncTable("powermap_anchor_reanchor", {}, {}, {})>>,
   down |-> <<Drop("powermap_anchor_reanchor")>>]
=============================================================================
