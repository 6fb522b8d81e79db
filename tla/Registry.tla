------------------------------ MODULE Registry ------------------------------
(***************************************************************************)
(* The identity registry: which natural keys name which person, written by *)
(* the nightly registrar (proposed clusters of keys, through the decision  *)
(* table) and by operators (merge, unmerge, move, register, each with a    *)
(* ledger row).                                                            *)
(*                                                                         *)
(* Each run is one READ COMMITTED transaction: a read sees what is         *)
(* committed at that statement, a check is not repeated before the write,  *)
(* a row lock only makes the second writer wait. One kind is modelled: the *)
(* kinds (person, org, role) share nothing but the tables.                 *)
(***************************************************************************)
EXTENDS Integers, FiniteSets

CONSTANTS
    Keys,          \* natural keys
    RosterKeys,    \* those built from a name, which only an operator mints
    Entities,      \* ULIDs
    Adjudicators,  \* operators' processes
    None,
    MaxDecisions   \* bound: adjudications that reach the ledger

ASSUME RosterAreKeys == RosterKeys \subseteq Keys
ASSUME EntitiesAreFinite == IsFiniteSet(Entities)
ASSUME DecisionsAreNat == MaxDecisions \in Nat
ASSUME NoneIsNew == None \notin Keys \cup Entities

VARIABLES
    minted,    \* rows of registry.entities
    merged,    \* entity -> merged_into
    bound,     \* key -> entity: registry.entity_keys
    by,        \* key -> the adjudication its registered_by names, 0 if none
    ledger,    \* the rows of registry.adjudications
    issued,    \* the last adjudication id
    rpc,       \* the registrar
    proposals, \* the clusters it has not decided yet
    proposed,  \* all clusters of this run
    view,      \* its view: key -> entity, resolved through merges
    fresh,     \* key -> entity: its uncommitted key rows
    apc,       \* adjudicator -> where it stands
    job        \* adjudicator -> the decision it is taking

tableVars == <<minted, merged, bound, by, ledger>>
registrarVars == <<rpc, proposals, proposed, view, fresh>>
operatorVars == <<apc, job, issued>>
vars == <<tableVars, registrarVars, operatorVars>>

Ids == 1..MaxDecisions
NoKeys == [k \in Keys |-> None]
Bindings == [Keys -> Entities \cup {None}]
Decision(verb, subject, target, key) ==
    [verb |-> verb, subject |-> subject, target |-> target, key |-> key, id |-> 0]
NoJob == Decision("merge", None, None, None)
Jobs == [verb : {"merge", "unmerge", "move", "register"},
         subject : Entities \cup {None}, target : Entities \cup {None},
         key : Keys \cup {None}, id : 0..MaxDecisions]

\* Every person key is a WSL member's or rides in a pair with one.
Clusters == {c \in SUBSET Keys : c \ RosterKeys # {}}
Partitions == {P \in SUBSET Clusters : \A c, d \in P : c # d => c \cap d = {}}

TypeOK ==
    /\ minted \in SUBSET Entities
    /\ merged \in [Entities -> minted \cup {None}]
    /\ \A e \in Entities \ minted : merged[e] = None
    /\ bound \in [Keys -> minted \cup {None}]
    /\ by \in [Keys -> 0..MaxDecisions]
    /\ ledger \in SUBSET Jobs
    /\ \A r, q \in ledger : r.id = q.id => r = q
    /\ issued \in 0..MaxDecisions
    /\ rpc \in {"idle", "reading", "applying"}
    /\ proposals \subseteq proposed
    /\ proposed \in SUBSET Clusters
    /\ view \in [Keys -> minted \cup {None}]
    /\ fresh \in Bindings
    /\ apc \in [Adjudicators -> {"idle", "checking", "writing", "recorded",
                              "written"}]
    /\ job \in [Adjudicators -> Jobs]

Init ==
    /\ minted = {}
    /\ merged = [e \in Entities |-> None]
    /\ bound = NoKeys
    /\ by = [k \in Keys |-> 0]
    /\ ledger = {}
    /\ issued = 0
    /\ rpc = "idle"
    /\ proposals = {}
    /\ proposed = {}
    /\ view = NoKeys
    /\ fresh = NoKeys
    /\ apc = [a \in Adjudicators |-> "idle"]
    /\ job = [a \in Adjudicators |-> NoJob]

-----------------------------------------------------------------------------
(* Reading the registry.                                                    *)

\* resolve_merged: follow the tombstones, stopping where the walk comes back to
\* an entity it has left.
Resolve(merges, entity) ==
    LET walk[n \in 0..Cardinality(Entities)] ==
            IF n = 0 THEN [at |-> entity, left |-> {}]
            ELSE LET w == walk[n - 1]
                 IN IF merges[w.at] = None \/ w.at \in w.left THEN w
                    ELSE [at |-> merges[w.at], left |-> w.left \cup {w.at}]
    IN walk[Cardinality(Entities)].at

Named(binding, merges, key) ==
    IF binding[key] = None THEN None ELSE Resolve(merges, binding[key])

\* Mutant of Live: any registered entity will do.
Registered(e) == e \in minted

\* _require_live_entity
Live(e) == e \in minted /\ merged[e] = None

-----------------------------------------------------------------------------
(* The registrar.                                                           *)

\* The ULIDs of transactions that have not committed.
Reserved == {fresh[k] : k \in Keys} \cup
            {job[a].target : a \in {b \in Adjudicators : apc[b] \in {"recorded", "written"}}}
Unused == Entities \ (minted \cup Reserved)

\* The proposals of the build and, with one statement, the key rows...
ReadKeys(P) ==
    /\ rpc = "idle"
    /\ rpc' = "reading"
    /\ proposals' = P
    /\ proposed' = P
    /\ view' = bound
    /\ UNCHANGED <<tableVars, fresh, operatorVars>>

\* ...with another, the tombstones.
ReadMerges ==
    /\ rpc = "reading"
    /\ rpc' = "applying"
    /\ view' = [k \in Keys |-> Named(view, merged, k)]
    /\ UNCHANGED <<tableVars, proposals, proposed, fresh, operatorVars>>

\* decide: the entities the known keys of a cluster map to, and the new keys.
Touched(c) == {view[k] : k \in c} \ {None}
New(c) == {k \in c : view[k] = None}

\* Mutant: a cluster that touches two entities is appended to one of them.
NeverConflicts(c) == FALSE

Conflicts(c) == \E e, f \in Touched(c) : e # f

\* Mutant: no unique constraint on (kind, natural_key).
NotUnique(k) == TRUE

\* The key row may be inserted: nobody has committed one since the view.
Insertable(k) == bound[k] = None

\* Nobody else's uncommitted row has the key: an insert waits for it.
Uncontended(k) ==
    \A a \in Adjudicators :
        ~(apc[a] = "written" /\ job[a].verb = "register" /\ job[a].key = k)

\* A conflict is counted and writes nothing; known keys are left as they are.
LeaveCluster(c) ==
    /\ rpc = "applying"
    /\ c \in proposals
    /\ Conflicts(c) \/ (Touched(c) # {} /\ New(c) = {})
    /\ proposals' = proposals \ {c}
    /\ UNCHANGED <<tableVars, rpc, proposed, view, fresh, operatorVars>>

\* The new keys go to the one entity the cluster touches, or to a new one.
Destinations(c) == IF Touched(c) = {} THEN Unused ELSE Touched(c)

BindCluster(c) ==
    /\ rpc = "applying"
    /\ c \in proposals
    /\ ~Conflicts(c)
    /\ New(c) # {}
    /\ \A k \in New(c) : Uncontended(k) /\ Insertable(k)
    /\ \E e \in Destinations(c) :
          fresh' = [k \in Keys |-> IF k \in New(c) THEN e ELSE fresh[k]]
    /\ proposals' = proposals \ {c}
    /\ UNCHANGED <<tableVars, rpc, proposed, view, operatorVars>>

RegistrarEnds ==
    /\ rpc' = "idle"
    /\ proposals' = {}
    /\ proposed' = {}
    /\ view' = NoKeys
    /\ fresh' = NoKeys

\* The entities of the new key rows.
NewEntities == {fresh[k] : k \in Keys} \ {None}

\* Every cluster is decided; a run with conflicts is degraded, and commits too.
RegistrarCommits ==
    /\ rpc = "applying"
    /\ proposals = {}
    /\ minted' = minted \cup NewEntities
    /\ bound' = [k \in Keys |-> IF fresh[k] = None THEN bound[k] ELSE fresh[k]]
    /\ by' = [k \in Keys |-> IF fresh[k] = None THEN by[k] ELSE 0]
    /\ RegistrarEnds
    /\ UNCHANGED <<merged, ledger, operatorVars>>

\* A taken key, a lost connection, a kill, --dry-run.
RegistrarRollsBack ==
    /\ rpc # "idle"
    /\ RegistrarEnds
    /\ UNCHANGED <<tableVars, operatorVars>>

-----------------------------------------------------------------------------
(* The adjudication verbs.                                                  *)

Take(a, where, decision) ==
    /\ apc' = [apc EXCEPT ![a] = where]
    /\ job' = [job EXCEPT ![a] = decision]
    /\ UNCHANGED <<tableVars, registrarVars, issued>>

\* merge: the loser is registered and not merged yet...
ReadLoser(a, loser, survivor) ==
    /\ apc[a] = "idle"
    /\ loser # survivor
    /\ loser \in minted /\ merged[loser] = None
    /\ Take(a, "checking", Decision("merge", loser, survivor, None))

\* ...and the survivor is live.
CheckSurvivor(a) ==
    /\ apc[a] = "checking"
    /\ job[a].verb = "merge"
    /\ Live(job[a].target)
    /\ Take(a, "writing", job[a])

\* unmerge: the entity is merged.
ReadTombstone(a, e) ==
    /\ apc[a] = "idle"
    /\ merged[e] # None
    /\ Take(a, "writing", Decision("unmerge", e, merged[e], None))

\* move: the destination is live...
CheckDestination(a, k, e) ==
    /\ apc[a] = "idle"
    /\ Live(e)
    /\ Take(a, "checking", Decision("move", None, e, k))

\* ...and the key is bound.
ReadKey(a) ==
    /\ apc[a] = "checking"
    /\ job[a].verb = "move"
    /\ bound[job[a].key] # None
    /\ Take(a, "writing", [job[a] EXCEPT !.subject = bound[job[a].key]])

\* register: a roster key that is not bound. (A namesake's key is refused unless
\* the operator says --distinct-person, which he may.)
CheckUnbound(a, k) ==
    /\ apc[a] = "idle"
    /\ k \in RosterKeys
    /\ bound[k] = None
    /\ Take(a, "writing", Decision("register", None, None, k))

\* The row a decision writes beside its ledger row.
Row(j) == CASE j.verb \in {"merge", "unmerge"} -> j.subject
            [] j.verb \in {"move", "register"} -> j.key

Issued(j, e) == [verb |-> j.verb, subject |-> j.subject, target |-> e,
                 key |-> j.key, id |-> issued + 1]

\* The ledger row is inserted first, with its id (and, for a register, the new
\* entity)...
Record(a) ==
    /\ apc[a] = "writing"
    /\ issued < MaxDecisions
    /\ issued' = issued + 1
    /\ apc' = [apc EXCEPT ![a] = "recorded"]
    /\ \E e \in IF job[a].verb = "register" THEN Unused ELSE {job[a].target} :
          job' = [job EXCEPT ![a] = Issued(@, e)]
    /\ UNCHANGED <<tableVars, registrarVars>>

\* ...then the row it decides: that waits for whoever holds the row and repeats
\* no check; only a second row for a key fails.
Write(a) ==
    /\ apc[a] = "recorded"
    /\ \A b \in Adjudicators : apc[b] = "written" => Row(job[b]) # Row(job[a])
    /\ job[a].verb = "register" =>
          fresh[job[a].key] = None /\ Insertable(job[a].key)
    /\ apc' = [apc EXCEPT ![a] = "written"]
    /\ UNCHANGED <<tableVars, registrarVars, job, issued>>

\* Mutant: a merge is recorded under its survivor.
RecordedUnderTarget(j) == [j EXCEPT !.subject = j.target, !.target = j.subject]

\* The ledger row of a decision is the decision.
LedgerRow(j) == j

\* Mutant: the key row names the decision before.
NamesPrevious(j) == j.id - 1

\* registered_by of the key row.
RegisteredBy(j) == j.id

AdjudicatorEnds(a) ==
    /\ apc' = [apc EXCEPT ![a] = "idle"]
    /\ job' = [job EXCEPT ![a] = NoJob]

AdjudicatorCommits(a) ==
    LET j == job[a]
    IN /\ apc[a] = "written"
       /\ minted' = IF j.verb = "register" THEN minted \cup {j.target} ELSE minted
       /\ merged' = CASE j.verb = "merge" -> [merged EXCEPT ![j.subject] = j.target]
                      [] j.verb = "unmerge" -> [merged EXCEPT ![j.subject] = None]
                      [] OTHER -> merged
       /\ IF j.verb \in {"move", "register"}
          THEN /\ bound' = [bound EXCEPT ![j.key] = j.target]
               /\ by' = [by EXCEPT ![j.key] = RegisteredBy(j)]
          ELSE UNCHANGED <<bound, by>>
       /\ ledger' = ledger \cup {LedgerRow(j)}
       /\ AdjudicatorEnds(a)
       /\ UNCHANGED <<registrarVars, issued>>

\* A check refuses, the harness rolls back, or the process dies.
AdjudicatorRollsBack(a) ==
    /\ apc[a] # "idle"
    /\ AdjudicatorEnds(a)
    /\ UNCHANGED <<tableVars, registrarVars, issued>>

RegistrarStep ==
    \/ \E P \in Partitions : ReadKeys(P)
    \/ ReadMerges
    \/ \E c \in Clusters : LeaveCluster(c) \/ BindCluster(c)
    \/ RegistrarCommits
    \/ RegistrarRollsBack

Adjudicate(a) ==
    \/ \E e, f \in Entities : ReadLoser(a, e, f)
    \/ CheckSurvivor(a)
    \/ \E e \in Entities : ReadTombstone(a, e)
    \/ \E k \in Keys, e \in Entities : CheckDestination(a, k, e)
    \/ ReadKey(a)
    \/ \E k \in Keys : CheckUnbound(a, k)
    \/ Record(a)
    \/ Write(a)
    \/ AdjudicatorCommits(a)
    \/ AdjudicatorRollsBack(a)

Next == RegistrarStep \/ \E a \in Adjudicators : Adjudicate(a)

Spec == Init /\ [][Next]_vars

-----------------------------------------------------------------------------
(* Properties.                                                              *)

\* No tombstone cycle: every entity ever published resolves to a live survivor,
\* so no person drops out of the conformed tier or loops the crosswalk.
EverySurvives == \A e \in minted : merged[Resolve(merged, e)] = None

\* The trail stays whole: replaying the ledger gives the tombstones.
OfTombstone(e) == {r \in ledger : r.verb \in {"merge", "unmerge"} /\ r.subject = e}
LastOn(e) == {r \in OfTombstone(e) : \A q \in OfTombstone(e) : q.id <= r.id}
TombstonesReplay ==
    \A e \in minted :
        merged[e] = IF \E r \in LastOn(e) : r.verb = "merge"
                    THEN (CHOOSE r \in LastOn(e) : TRUE).target
                    ELSE None

\* It names every binding too: the adjudication a key row comes from binds that
\* key to that entity, and a key no adjudication bound is in no ledger row.
BindingsReplay ==
    \A k \in Keys :
        IF by[k] \in Ids
        THEN \E r \in ledger : r.id = by[k] /\ r.key = k /\ r.target = bound[k]
        ELSE \A r \in ledger : r.key # k

\* Sticky: whether two registered keys name one person changes only in a step
\* that adds a ledger row, whatever the matching rules propose meanwhile.
Persons == [k \in Keys |-> Named(bound, merged, k)]
SamePersonsStay ==
    LET was == Persons  is == Persons'
    IN \A k, q \in Keys : was[k] # None /\ was[q] # None =>
          (was[k] = was[q] <=> is[k] = is[q])
IdentityIsAdjudicated ==
    [][UNCHANGED <<bound, merged>> \/ ledger' # ledger \/ SamePersonsStay]_vars

\* The registrar never joins what it saw as two persons, nor splits a cluster:
\* the keys it registers for a cluster go to one entity, the one that every key
\* of the cluster it knew resolves to.
ClustersStayWhole ==
    \A c \in proposed : \A k, q \in c :
        fresh[k] # None => /\ fresh[q] # None => fresh[q] = fresh[k]
                           /\ view[q] # None => view[q] = fresh[k]
=============================================================================
