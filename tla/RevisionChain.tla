--------------------------- MODULE RevisionChain ---------------------------
(***************************************************************************)
(* The chain of revisions, oldest first, as down_revision links it.        *)
(***************************************************************************)
EXTENDS CanonicalRevisions, MirrorRevisions, RegistryRevisions

Chain ==
  <<ClearinghouseCoreInit, CanonicalInit, BillTitles, ReviewRevisions, VoteActionLink,
    DocumentIdentifiers, BillSupplements, BillChambers, BillClassification,
    SevenItemBatch, JurisdictionalIa, PowermapSyncSidecar, DecoupleJurisdiction,
    OutboxOpEnrich, OutboxUnavailable, RefineEntityEvents, EntityEventFields,
    ParentSession, EnrichFingerprint, RetiredAt, SplitLifecycle, OrgActiveAxis,
    OrganizationNames, OrganizationAcronyms, RetentionPolicy, DedupIndex,
    RedundantIndex, IntegritySweepStateTable, SeatRoles, RoleTypes, ExpectsJurisdiction,
    RequiresQualifier, AnchorIndexes, AnchorReanchor, OperatorEventsTable,
    NonconvergenceState, CommitteeSuccession, EventsRetractedAt, ConditionalGetState,
    JobRunLedger, SourceCoverageTable, SpanKindIndex, RowWatermark, OutboxSuperseded,
    IdentityRegistry, AdjudicationFks, DropMirrors, MoveEvents, DropCanonical,
    OperatorRetraction>>

Latest == Len(Chain)

(* The database each revision leaves when the chain is applied to an empty *)
(* one: Straight[n + 1] after the first n revisions.                       *)
Straight ==
  FoldLeft(LAMBDA dbs, revision : Append(dbs, ApplyAll(dbs[Len(dbs)], revision.up)),
           <<EmptyDatabase>>, Chain)

(* A record with the parts of a database. *)
IsDatabase(d) == d = [part \in DOMAIN EmptyDatabase |-> d[part]]

(* One without rows that no step has refused. *)
Blank(d) == IsDatabase(d) /\ d.error = "none" /\ d.held = {} /\ d.odd = {}

(* What evaluating the chain shows of such databases: each revision fits   *)
(* the one before it leaves, and its downgrade fits what it leaves and     *)
(* restores the schema it met.                                             *)
ASSUME RevisionsFit ==
  /\ Latest \in Nat /\ \A n \in 0..Latest : Blank(Straight[n + 1])
  /\ \A n \in 1..Latest :
       /\ Len(Chain[n].up) \in Nat /\ Len(Chain[n].down) \in Nat
       /\ ApplyAll(Straight[n], Chain[n].up) = Straight[n + 1]
       /\ LET back == ApplyAll(Straight[n + 1], Chain[n].down)
          IN  back.error = "none" /\ Shape(back) = Shape(Straight[n])
=============================================================================
