-------------------------- MODULE Registry_proofs --------------------------
(***************************************************************************)
(* Proofs about Registry, for any keys, entities and proposals: the ledger *)
(* accounts for every binding, identity changes only with a ledger row and *)
(* the registrar never joins or splits persons, whatever the number of     *)
(* adjudicators at once. With one at a time tombstones are acyclic and are *)
(* what the ledger says.                                                   *)
(***************************************************************************)
EXTENDS Registry, FiniteSetTheorems, WellFoundedInduction, TLAPS

USE RosterAreKeys, DecisionsAreNat, NoneIsNew

IsTable(f, D) == f = [x \in D |-> f[x]]

IsJob(j) == j = [verb |-> j.verb, subject |-> j.subject, target |-> j.target,
                 key |-> j.key, id |-> j.id]

InFlight(a) == apc[a] \in {"recorded", "written"}

\* The tables, and the counter of decisions.
Tables ==
    /\ IsTable(bound, Keys) /\ IsTable(by, Keys) /\ IsTable(fresh, Keys)
    /\ IsTable(apc, Adjudicators) /\ IsTable(job, Adjudicators)
    /\ \A a \in Adjudicators : IsJob(job[a])
    /\ issued \in 0..MaxDecisions

\* The ledger is ahead of no decision, and a key in it is bound for good.
LedgerShape ==
    \A r \in ledger :
        /\ r.id \in Ids /\ r.id <= issued
        /\ \A k \in Keys : r.key = k => bound[k] # None

\* Decisions in flight have ids of their own, that are not in the ledger.
IdsShape ==
    \A a \in Adjudicators : InFlight(a) =>
        /\ job[a].id \in Ids /\ job[a].id <= issued
        /\ \A r \in ledger : r.id # job[a].id
        /\ \A b \in Adjudicators : InFlight(b) /\ b # a => job[b].id # job[a].id

\* What an adjudicator's checks leave true until it commits.
JobShape(a) ==
    LET j == job[a]
    IN apc[a] # "idle" =>
        /\ j.verb \in {"merge", "unmerge", "move", "register"}
        /\ j.verb \in {"merge", "unmerge"} => j.key = None
        /\ j.verb \in {"move", "register"} => j.key \in Keys
        /\ j.verb = "move" => j.target \in Entities
        /\ j.verb = "move" /\ apc[a] # "checking" => bound[j.key] # None
        /\ j.verb = "register" /\ InFlight(a) => j.target \in Entities
        /\ j.verb = "register" /\ apc[a] = "written" =>
              bound[j.key] = None /\ fresh[j.key] = None

\* Two decisions that are written hold different rows.
LocksShape ==
    \A a, b \in Adjudicators :
        a # b /\ apc[a] = "written" /\ apc[b] = "written" => Row(job[a]) # Row(job[b])

\* The registrar inserts only keys that are not bound.
FreshShape == \A k \in Keys : fresh[k] # None => bound[k] = None

TrailInv ==
    /\ Tables /\ LedgerShape /\ IdsShape /\ LocksShape /\ FreshShape
    /\ \A a \in Adjudicators : JobShape(a)
    /\ BindingsReplay

-----------------------------------------------------------------------------

\* The registrar never writes over a binding.
LEMMA RegistrarKeepsTrail ==
    ASSUME TrailInv, RegistrarStep PROVE TrailInv'
<1>a. UNCHANGED <<ledger, issued, apc, job>>
  BY DEF RegistrarStep, ReadKeys, ReadMerges, LeaveCluster, BindCluster,
     RegistrarCommits, RegistrarRollsBack, tableVars, operatorVars
<1>b. /\ IsTable(bound, Keys)' /\ IsTable(by, Keys)' /\ IsTable(fresh, Keys)'
      /\ \A k \in Keys : bound[k] # None => bound'[k] = bound[k] /\ by'[k] = by[k]
      /\ \A k \in Keys : bound'[k] # bound[k] =>
            bound[k] = None /\ by'[k] = 0 /\ fresh[k] # None
      /\ \A k \in Keys : by'[k] # by[k] => bound'[k] # bound[k]
      /\ \A k \in Keys : fresh'[k] # None =>
            /\ bound'[k] = None
            /\ fresh[k] # None \/ (Uncontended(k) /\ bound'[k] = bound[k])
  <2>1. ASSUME NEW P \in Partitions, ReadKeys(P) PROVE <1>b!:
    BY <2>1 DEF ReadKeys, tableVars, TrailInv, Tables, FreshShape, IsTable
  <2>2. CASE ReadMerges
    BY <2>2 DEF ReadMerges, tableVars, TrailInv, Tables, FreshShape, IsTable
  <2>3. ASSUME NEW c \in Clusters, LeaveCluster(c) PROVE <1>b!:
    BY <2>3 DEF LeaveCluster, tableVars, TrailInv, Tables, FreshShape, IsTable
  <2>4. ASSUME NEW c \in Clusters, BindCluster(c) PROVE <1>b!:
    BY <2>4 DEF BindCluster, tableVars, TrailInv, Tables, FreshShape, IsTable,
       New, Insertable
  <2>5. CASE RegistrarCommits
    BY <2>5 DEF RegistrarCommits, RegistrarEnds, NoKeys, TrailInv, Tables,
       FreshShape, IsTable
  <2>6. CASE RegistrarRollsBack
    BY <2>6 DEF RegistrarRollsBack, RegistrarEnds, NoKeys, tableVars, TrailInv,
       Tables, FreshShape, IsTable
  <2>7. QED BY <2>1, <2>2, <2>3, <2>4, <2>5, <2>6 DEF RegistrarStep
<1>1. Tables'
  BY <1>a, <1>b DEF TrailInv, Tables, IsTable
<1>2. LedgerShape'
  BY <1>a, <1>b DEF TrailInv, LedgerShape
<1>3. IdsShape' /\ LocksShape'
  BY <1>a DEF TrailInv, IdsShape, LocksShape, InFlight
<1>4. FreshShape'
  BY <1>b DEF FreshShape
<1>5. ASSUME NEW a \in Adjudicators PROVE JobShape(a)'
  <2>1. JobShape(a)
    BY DEF TrailInv
  <2>2. QED BY <2>1, <1>a, <1>b DEF JobShape, InFlight, Uncontended
<1>6. BindingsReplay'
  <2> SUFFICES ASSUME NEW k \in Keys
               PROVE  IF by'[k] \in Ids
                      THEN \E r \in ledger' : r.id = by'[k] /\ r.key = k
                                                          /\ r.target = bound'[k]
                      ELSE \A r \in ledger' : r.key # k
    BY DEF BindingsReplay
  <2>1. CASE bound'[k] = bound[k]
    BY <2>1, <1>a, <1>b DEF TrailInv, BindingsReplay
  <2>2. CASE bound'[k] # bound[k]
    BY <2>2, <1>a, <1>b DEF TrailInv, LedgerShape, Ids
  <2>3. QED BY <2>1, <2>2
<1>7. QED BY <1>1, <1>2, <1>3, <1>4, <1>5, <1>6 DEF TrailInv

\* A check takes or advances a's decision, with no id yet, and writes nothing.
LEMMA ChecksKeepTrail ==
    ASSUME TrailInv, NEW a \in Adjudicators,
           UNCHANGED <<tableVars, registrarVars, issued>>,
           IsTable(apc, Adjudicators)', IsTable(job, Adjudicators)',
           ~InFlight(a)', JobShape(a)', IsJob(job[a])',
           \A b \in Adjudicators : b # a => apc'[b] = apc[b] /\ job'[b] = job[b]
    PROVE  TrailInv'
<1>1. Tables' /\ LedgerShape' /\ FreshShape' /\ BindingsReplay'
  BY DEF TrailInv, Tables, LedgerShape, FreshShape, BindingsReplay, IsTable,
     tableVars, registrarVars
<1>2. IdsShape'
  BY DEF TrailInv, IdsShape, InFlight, tableVars
<1>2a. LocksShape'
  BY DEF TrailInv, LocksShape, InFlight
<1>3. ASSUME NEW b \in Adjudicators PROVE JobShape(b)'
  BY DEF TrailInv, JobShape, InFlight, tableVars, registrarVars
<1>4. QED BY <1>1, <1>2, <1>2a, <1>3 DEF TrailInv

LEMMA RecordKeepsTrail ==
    ASSUME TrailInv, NEW a \in Adjudicators, Record(a) PROVE TrailInv'
<1>1. PICK e \in IF job[a].verb = "register" THEN Unused ELSE {job[a].target} :
          job' = [job EXCEPT ![a] = Issued(@, e)]
  BY DEF Record
<1>2. /\ job'[a].verb = job[a].verb /\ job'[a].key = job[a].key
      /\ job'[a].id = issued + 1 /\ job'[a].target = e
      /\ \A b \in Adjudicators : b # a => job'[b] = job[b]
  BY <1>1 DEF TrailInv, Tables, IsTable, Issued
<1>3. issued' = issued + 1 /\ issued + 1 \in Ids /\ UNCHANGED <<tableVars, registrarVars>>
  BY DEF Record, TrailInv, Tables, Ids
<1>4. apc'[a] = "recorded" /\ \A b \in Adjudicators : b # a => apc'[b] = apc[b]
  BY DEF Record, TrailInv, Tables, IsTable
<1>5. Tables' /\ LedgerShape' /\ FreshShape' /\ BindingsReplay'
  <2>1. IsTable(job, Adjudicators)' /\ \A b \in Adjudicators : IsJob(job'[b])
    BY <1>1 DEF TrailInv, Tables, IsTable, IsJob, Issued
  <2>2. Tables'
    <3>1. IsTable(apc, Adjudicators)'
      BY DEF Record, TrailInv, Tables, IsTable
    <3>2. issued' \in 0..MaxDecisions
      BY <1>3 DEF Ids
    <3>3. UNCHANGED <<bound, by, fresh>>
      BY <1>3 DEF tableVars, registrarVars
    <3>4. QED BY <2>1, <3>1, <3>2, <3>3 DEF TrailInv, Tables, IsTable
  <2>3. LedgerShape'
    BY <1>3 DEF TrailInv, Tables, LedgerShape, Ids, tableVars
  <2>4. FreshShape' /\ BindingsReplay'
    BY <1>3 DEF TrailInv, FreshShape, BindingsReplay, tableVars, registrarVars
  <2>5. QED BY <2>2, <2>3, <2>4
<1>6. IdsShape'
  <2>1. \A r \in ledger : r.id # issued + 1
    BY <1>3 DEF TrailInv, LedgerShape, Tables, Ids
  <2>2. \A b \in Adjudicators : InFlight(b)' /\ b # a => InFlight(b) /\ job'[b].id <= issued
    BY <1>2, <1>4 DEF TrailInv, IdsShape, InFlight
  <2>3. QED
    BY <2>1, <2>2, <1>2, <1>3, <1>4 DEF TrailInv, IdsShape, InFlight, Ids, Tables, tableVars
<1>7. LocksShape'
  BY <1>4, <1>2 DEF TrailInv, LocksShape
<1>8. ASSUME NEW b \in Adjudicators PROVE JobShape(b)'
  <2>1. CASE b = a
    <3>1. job[a].verb = "register" => e \in Entities
      BY <1>1 DEF Unused
    <3>2. apc[a] = "writing"
      BY DEF Record
    <3>3. QED
      BY <2>1, <3>1, <3>2, <1>1, <1>2, <1>3, <1>4 DEF TrailInv, JobShape, InFlight,
         tableVars, registrarVars
  <2>2. CASE b # a
    BY <2>2, <1>2, <1>3, <1>4 DEF TrailInv, JobShape, InFlight, tableVars, registrarVars
  <2>3. QED BY <2>1, <2>2
<1>9. QED BY <1>5, <1>6, <1>7, <1>8 DEF TrailInv

LEMMA WriteKeepsTrail ==
    ASSUME TrailInv, NEW a \in Adjudicators, Write(a) PROVE TrailInv'
<1>1. /\ UNCHANGED <<tableVars, registrarVars, job, issued>>
      /\ apc[a] = "recorded" /\ apc'[a] = "written"
      /\ \A b \in Adjudicators : b # a => apc'[b] = apc[b]
      /\ IsTable(apc, Adjudicators)'
  BY DEF Write, TrailInv, Tables, IsTable
<1>2. Tables' /\ LedgerShape' /\ FreshShape' /\ BindingsReplay'
  BY <1>1 DEF TrailInv, Tables, LedgerShape, FreshShape, BindingsReplay, IsTable,
     tableVars, registrarVars
<1>3. IdsShape'
  BY <1>1 DEF TrailInv, IdsShape, InFlight, tableVars
<1>4. LocksShape'
  BY <1>1 DEF TrailInv, LocksShape, Write
<1>5. ASSUME NEW b \in Adjudicators PROVE JobShape(b)'
  <2>1. CASE b = a
    BY <2>1, <1>1 DEF TrailInv, JobShape, InFlight, Write, Insertable, tableVars,
       registrarVars
  <2>2. CASE b # a
    BY <2>2, <1>1 DEF TrailInv, JobShape, InFlight, tableVars, registrarVars
  <2>3. QED BY <2>1, <2>2
<1>6. QED BY <1>2, <1>3, <1>4, <1>5 DEF TrailInv

LEMMA CommitKeepsTrail ==
    ASSUME TrailInv, NEW a \in Adjudicators, AdjudicatorCommits(a) PROVE TrailInv'
<1> DEFINE j == job[a]
<1>1. /\ apc[a] = "written" /\ apc'[a] = "idle"
      /\ UNCHANGED <<registrarVars, issued>>
      /\ \A b \in Adjudicators : b # a => apc'[b] = apc[b] /\ job'[b] = job[b]
      /\ IsTable(apc, Adjudicators)' /\ IsTable(job, Adjudicators)'
  BY DEF AdjudicatorCommits, AdjudicatorEnds, TrailInv, Tables, IsTable
<1>2. JobShape(a) /\ j.id \in Ids /\ j.id <= issued /\ \A r \in ledger : r.id # j.id
  BY <1>1 DEF TrailInv, IdsShape, InFlight
<1>3. ledger' = ledger \cup {j}
  BY DEF AdjudicatorCommits, LedgerRow
<1>4. /\ IsTable(bound, Keys)' /\ IsTable(by, Keys)'
      /\ IF j.verb \in {"move", "register"}
         THEN /\ j.key \in Keys /\ bound'[j.key] = j.target /\ by'[j.key] = j.id
              /\ \A k \in Keys : k # j.key => bound'[k] = bound[k] /\ by'[k] = by[k]
         ELSE j.key = None /\ bound' = bound /\ by' = by
  <2>1. CASE j.verb \in {"move", "register"}
    BY <2>1, <1>1, <1>2 DEF AdjudicatorCommits, RegisteredBy, TrailInv, Tables,
       IsTable, JobShape
  <2>2. CASE j.verb \notin {"move", "register"}
    BY <2>2, <1>1, <1>2 DEF AdjudicatorCommits, TrailInv, Tables, IsTable, JobShape
  <2>3. QED BY <2>1, <2>2
<1>5. \A k \in Keys : bound[k] # None \/ j.key = k => bound'[k] # None
  BY <1>1, <1>2, <1>4 DEF JobShape, InFlight
<1>6. Tables'
  <2>1. \A b \in Adjudicators : IsJob(job'[b])
    BY DEF AdjudicatorCommits, AdjudicatorEnds, NoJob, Decision, IsJob, TrailInv, Tables, IsTable
  <2>2. QED
    BY <2>1, <1>1, <1>4 DEF TrailInv, Tables, IsTable, registrarVars
<1>7. LedgerShape'
  BY <1>1, <1>2, <1>3, <1>5 DEF TrailInv, LedgerShape
<1>8. IdsShape'
  BY <1>1, <1>2, <1>3 DEF TrailInv, IdsShape, InFlight
<1>9. LocksShape'
  BY <1>1 DEF TrailInv, LocksShape
<1>10. FreshShape'
  BY <1>1, <1>2, <1>4 DEF TrailInv, FreshShape, JobShape, registrarVars
<1>11. ASSUME NEW b \in Adjudicators PROVE JobShape(b)'
  <2>1. CASE b = a
    BY <2>1, <1>1 DEF JobShape
  <2>2. CASE b # a
    <3>1. JobShape(b) /\ job'[b] = job[b] /\ apc'[b] = apc[b] /\ fresh' = fresh
      BY <2>2, <1>1 DEF TrailInv, registrarVars
    <3>2. apc[b] = "written" /\ job[b].verb = "register"
            => bound'[job[b].key] = bound[job[b].key]
      <4>1. ASSUME apc[b] = "written", job[b].verb = "register",
                   j.verb \in {"move", "register"}
            PROVE  job[b].key # j.key
        <5>1. Row(job[a]) # Row(job[b])
          BY <4>1, <2>2, <1>1 DEF TrailInv, LocksShape
        <5>2. Row(job[b]) = job[b].key /\ Row(job[a]) = j.key
          BY <4>1 DEF Row
        <5>3. QED BY <5>1, <5>2
      <4>2. QED BY <3>1, <4>1, <1>4 DEF JobShape
    <3>3. job[b].key \in Keys /\ bound[job[b].key] # None => bound'[job[b].key] # None
      BY <1>5
    <3>4. QED BY <3>1, <3>2, <3>3 DEF JobShape, InFlight
  <2>3. QED BY <2>1, <2>2
<1>12. BindingsReplay'
  <2> SUFFICES ASSUME NEW k \in Keys
               PROVE  IF by'[k] \in Ids
                      THEN \E r \in ledger' : r.id = by'[k] /\ r.key = k
                                                          /\ r.target = bound'[k]
                      ELSE \A r \in ledger' : r.key # k
    BY DEF BindingsReplay
  <2>1. CASE j.key = k
    BY <2>1, <1>1, <1>2, <1>3, <1>4
  <2>2. CASE j.key # k
    BY <2>2, <1>3, <1>4 DEF TrailInv, BindingsReplay
  <2>3. QED BY <2>1, <2>2
<1>13. QED
  BY <1>6, <1>7, <1>8, <1>9, <1>10, <1>11, <1>12 DEF TrailInv

LEMMA AdjudicatorKeepsTrail ==
    ASSUME TrailInv, NEW a \in Adjudicators, Adjudicate(a) PROVE TrailInv'
<1>a. /\ JobShape(a) /\ IsJob(job[a]) /\ IsTable(apc, Adjudicators)
      /\ IsTable(job, Adjudicators)
  BY DEF TrailInv, Tables
<1>b. ASSUME NEW where, NEW decision, Take(a, where, decision)
      PROVE  /\ apc'[a] = where /\ job'[a] = decision
             /\ UNCHANGED <<tableVars, registrarVars, issued>>
             /\ IsTable(apc, Adjudicators)' /\ IsTable(job, Adjudicators)'
             /\ \A b \in Adjudicators :
                   b # a => apc'[b] = apc[b] /\ job'[b] = job[b]
  BY <1>a, <1>b DEF Take, IsTable
<1>1. ASSUME NEW e \in Entities, NEW f \in Entities, ReadLoser(a, e, f)
      PROVE  TrailInv'
  <2> DEFINE j == Decision("merge", e, f, None)
  <2>1. Take(a, "checking", j)
    BY <1>1 DEF ReadLoser
  <2>2. IsJob(j) /\ j.verb = "merge" /\ j.key = None
    BY DEF IsJob, Decision
  <2> HIDE DEF j
  <2>3. JobShape(a)' /\ IsJob(job[a])' /\ ~InFlight(a)'
    BY <2>1, <2>2, <1>b DEF JobShape, InFlight
  <2>4. QED BY <2>1, <2>3, <1>b, ChecksKeepTrail
<1>2. ASSUME CheckSurvivor(a) PROVE TrailInv'
  <2>1. Take(a, "writing", job[a]) /\ apc[a] = "checking" /\ job[a].verb = "merge"
    BY <1>2 DEF CheckSurvivor
  <2>3. JobShape(a)' /\ IsJob(job[a])' /\ ~InFlight(a)'
    BY <2>1, <1>a, <1>b DEF JobShape, InFlight
  <2>4. QED BY <2>1, <2>3, <1>b, ChecksKeepTrail
<1>3. ASSUME NEW e \in Entities, ReadTombstone(a, e) PROVE TrailInv'
  <2> DEFINE j == Decision("unmerge", e, merged[e], None)
  <2>1. Take(a, "writing", j)
    BY <1>3 DEF ReadTombstone
  <2>2. IsJob(j) /\ j.verb = "unmerge" /\ j.key = None
    BY DEF IsJob, Decision
  <2> HIDE DEF j
  <2>3. JobShape(a)' /\ IsJob(job[a])' /\ ~InFlight(a)'
    BY <2>1, <2>2, <1>b DEF JobShape, InFlight
  <2>4. QED BY <2>1, <2>3, <1>b, ChecksKeepTrail
<1>4. ASSUME NEW k \in Keys, NEW e \in Entities, CheckDestination(a, k, e)
      PROVE  TrailInv'
  <2> DEFINE j == Decision("move", None, e, k)
  <2>1. Take(a, "checking", j)
    BY <1>4 DEF CheckDestination
  <2>2. IsJob(j) /\ j.verb = "move" /\ j.key = k /\ j.target = e
    BY DEF IsJob, Decision
  <2> HIDE DEF j
  <2>3. JobShape(a)' /\ IsJob(job[a])' /\ ~InFlight(a)'
    BY <2>1, <2>2, <1>b DEF JobShape, InFlight
  <2>4. QED BY <2>1, <2>3, <1>b, ChecksKeepTrail
<1>5. ASSUME ReadKey(a) PROVE TrailInv'
  <2> DEFINE j == [job[a] EXCEPT !.subject = bound[job[a].key]]
  <2>1. /\ Take(a, "writing", j) /\ apc[a] = "checking" /\ job[a].verb = "move"
        /\ bound[job[a].key] # None
    BY <1>5 DEF ReadKey
  <2>2. /\ IsJob(j) /\ j.verb = job[a].verb /\ j.key = job[a].key
        /\ j.target = job[a].target
    BY <1>a DEF IsJob
  <2> HIDE DEF j
  <2>3. bound' = bound
    BY <2>1, <1>b DEF tableVars
  <2>4. JobShape(a)' /\ IsJob(job[a])' /\ ~InFlight(a)'
    BY <2>1, <2>2, <2>3, <1>a, <1>b DEF JobShape, InFlight
  <2>5. QED BY <2>1, <2>4, <1>b, ChecksKeepTrail
<1>6. ASSUME NEW k \in Keys, CheckUnbound(a, k) PROVE TrailInv'
  <2> DEFINE j == Decision("register", None, None, k)
  <2>1. Take(a, "writing", j)
    BY <1>6 DEF CheckUnbound
  <2>2. IsJob(j) /\ j.verb = "register" /\ j.key = k
    BY DEF IsJob, Decision
  <2> HIDE DEF j
  <2>3. JobShape(a)' /\ IsJob(job[a])' /\ ~InFlight(a)'
    BY <2>1, <2>2, <1>b DEF JobShape, InFlight
  <2>4. QED BY <2>1, <2>3, <1>b, ChecksKeepTrail
<1>7. ASSUME AdjudicatorRollsBack(a) PROVE TrailInv'
  <2>1. /\ UNCHANGED <<tableVars, registrarVars, issued>>
        /\ apc'[a] = "idle" /\ job'[a] = NoJob
        /\ IsTable(apc, Adjudicators)' /\ IsTable(job, Adjudicators)'
        /\ \A b \in Adjudicators : b # a => apc'[b] = apc[b] /\ job'[b] = job[b]
    BY <1>7, <1>a DEF AdjudicatorRollsBack, AdjudicatorEnds, IsTable
  <2>2. JobShape(a)' /\ IsJob(job[a])' /\ ~InFlight(a)'
    BY <2>1 DEF JobShape, InFlight, IsJob, NoJob, Decision
  <2>3. QED BY <2>1, <2>2, ChecksKeepTrail
<1>8. QED
  BY <1>1, <1>2, <1>3, <1>4, <1>5, <1>6, <1>7, RecordKeepsTrail, WriteKeepsTrail,
     CommitKeepsTrail DEF Adjudicate

LEMMA TrailHolds == Spec => []TrailInv
<1>1. Init => TrailInv
  <2> SUFFICES ASSUME Init PROVE TrailInv
    OBVIOUS
  <2>1. Tables
    BY DEF Init, Tables, IsTable, IsJob, NoKeys, NoJob, Decision
  <2>2. LedgerShape /\ IdsShape /\ LocksShape /\ FreshShape /\ BindingsReplay
    BY DEF Init, LedgerShape, IdsShape, LocksShape, FreshShape, BindingsReplay,
       InFlight, NoKeys, Ids
  <2>3. \A a \in Adjudicators : JobShape(a)
    BY DEF Init, JobShape
  <2>4. QED BY <2>1, <2>2, <2>3 DEF TrailInv
<1>2. TrailInv /\ [Next]_vars => TrailInv'
  <2> SUFFICES ASSUME TrailInv, [Next]_vars PROVE TrailInv'
    OBVIOUS
  <2>1. CASE UNCHANGED vars
    BY <2>1 DEF TrailInv, Tables, LedgerShape, IdsShape, LocksShape, FreshShape,
       JobShape, BindingsReplay, InFlight, IsTable, vars, tableVars, registrarVars,
       operatorVars
  <2>2. QED
    BY <2>1, RegistrarKeepsTrail, AdjudicatorKeepsTrail DEF Next
<1>3. QED BY <1>1, <1>2, PTL DEF Spec

\* Whatever the registrar and any number of operators do at once, every binding
\* is the registrar's or is explained by the adjudication it names.
THEOREM BindingsAreExplained == Spec => []BindingsReplay
<1>1. TrailInv => BindingsReplay
  BY DEF TrailInv
<1>2. QED BY TrailHolds, <1>1, PTL

-----------------------------------------------------------------------------

\* The clusters of a run are disjoint, none of those left is bound, and nothing
\* is bound before the view is complete.
ClustersInv ==
    /\ proposals \subseteq proposed /\ proposed \subseteq SUBSET Keys
    /\ \A c, d \in proposed : c # d => c \cap d = {}
    /\ \A c \in proposals : \A k \in c : fresh[k] = None
    /\ rpc # "applying" => fresh = NoKeys
    /\ fresh = [k \in Keys |-> fresh[k]]
    /\ ClustersStayWhole

\* The registrar never joins two persons it knew, and never splits a cluster.
THEOREM ClustersAreWhole == Spec => []ClustersStayWhole
<1>1. Init => ClustersInv
  BY DEF Init, ClustersInv, ClustersStayWhole, NoKeys
<1>2. ClustersInv /\ [Next]_vars => ClustersInv'
  <2> SUFFICES ASSUME ClustersInv, [Next]_vars PROVE ClustersInv'
    OBVIOUS
  <2>1. ASSUME NEW P \in Partitions, ReadKeys(P) PROVE ClustersInv'
    BY <2>1 DEF ReadKeys, ClustersInv, ClustersStayWhole, Partitions, Clusters, NoKeys
  <2>2. CASE ReadMerges
    BY <2>2 DEF ReadMerges, ClustersInv, ClustersStayWhole, NoKeys
  <2>3. ASSUME NEW c \in Clusters, LeaveCluster(c) PROVE ClustersInv'
    BY <2>3 DEF LeaveCluster, ClustersInv, ClustersStayWhole
  <2>4. ASSUME NEW c \in Clusters, BindCluster(c) PROVE ClustersInv'
    <3>1. PICK e \in Destinations(c) :
            fresh' = [k \in Keys |-> IF k \in New(c) THEN e ELSE fresh[k]]
      BY <2>4 DEF BindCluster
    <3>2. /\ UNCHANGED <<rpc, proposed, view>> /\ rpc = "applying"
          /\ proposals' = proposals \ {c} /\ c \in proposals /\ c \subseteq Keys
          /\ \A k \in c : fresh[k] = None
      BY <2>4 DEF BindCluster, ClustersInv
    <3>3. \A q \in c : view[q] # None => view[q] = e
      BY <2>4, <3>1 DEF BindCluster, Conflicts, Destinations, Touched
    <3>4. \A k \in c : fresh'[k] = IF view[k] = None THEN e ELSE None
      BY <3>1, <3>2 DEF New
    <3>5. \A d \in proposed : d # c => \A k \in d : fresh'[k] = fresh[k]
      BY <3>1, <3>2 DEF New, ClustersInv
    <3>6. ClustersStayWhole'
      <4> SUFFICES ASSUME NEW d \in proposed, NEW k \in d, NEW q \in d,
                          fresh'[k] # None
                   PROVE  /\ fresh'[q] # None => fresh'[q] = fresh'[k]
                          /\ view[q] # None => view[q] = fresh'[k]
        BY <3>2 DEF ClustersStayWhole
      <4>1. CASE d = c
        BY <4>1, <3>3, <3>4
      <4>2. CASE d # c
        BY <4>2, <3>5 DEF ClustersInv, ClustersStayWhole
      <4>3. QED BY <4>1, <4>2
    <3>7. \A d \in proposals' : \A k \in d : fresh'[k] = None
      BY <3>2, <3>5 DEF ClustersInv
    <3>8. fresh' = [k \in Keys |-> fresh'[k]]
      BY <3>1
    <3>9. QED BY <3>2, <3>6, <3>7, <3>8 DEF ClustersInv
  <2>5. CASE RegistrarCommits \/ RegistrarRollsBack
    BY <2>5 DEF RegistrarCommits, RegistrarRollsBack, RegistrarEnds, ClustersInv,
       ClustersStayWhole, NoKeys
  <2>6. CASE UNCHANGED registrarVars
    BY <2>6 DEF registrarVars, ClustersInv, ClustersStayWhole
  <2>7. ASSUME NEW a \in Adjudicators, Adjudicate(a) PROVE UNCHANGED registrarVars
    BY <2>7 DEF Adjudicate, ReadLoser, CheckSurvivor, ReadTombstone,
       CheckDestination, ReadKey, CheckUnbound, Take, Record, Write,
       AdjudicatorCommits, AdjudicatorRollsBack
  <2>8. QED
    BY <2>1, <2>2, <2>3, <2>4, <2>5, <2>6, <2>7 DEF Next, RegistrarStep, vars
<1>3. ClustersInv => ClustersStayWhole
  BY DEF ClustersInv
<1>4. QED BY <1>1, <1>2, <1>3, PTL DEF Spec

-----------------------------------------------------------------------------
(* Identity is sticky.                                                      *)

\* The registrar adds keys: it changes no binding, no tombstone and no ledger
\* row.
LEMMA RegistrarKeepsBindings ==
    ASSUME FreshShape, RegistrarStep
    PROVE  /\ UNCHANGED <<merged, ledger>>
           /\ \A k \in Keys : bound[k] # None => bound'[k] = bound[k]
BY DEF RegistrarStep, ReadKeys, ReadMerges, LeaveCluster, BindCluster,
   RegistrarCommits, RegistrarRollsBack, tableVars, FreshShape

\* So two registered keys that name one person, or two, go on doing so until an
\* operator's decision commits, whatever the proposals of later runs.
THEOREM IdentityIsSticky == Spec => IdentityIsAdjudicated
<1> DEFINE Sticky == UNCHANGED <<bound, merged>> \/ ledger' # ledger \/ SamePersonsStay
<1>1. TrailInv /\ [Next]_vars => Sticky
  <2> SUFFICES ASSUME TrailInv, [Next]_vars PROVE Sticky
    OBVIOUS
  <2>1. CASE RegistrarStep
    <3>1. /\ merged' = merged
          /\ \A k \in Keys : bound[k] # None => bound'[k] = bound[k]
      BY <2>1, RegistrarKeepsBindings DEF TrailInv
    <3>2. ASSUME NEW k \in Keys, Persons[k] # None PROVE Persons'[k] = Persons[k]
      BY <3>1, <3>2 DEF Persons, Named
    <3>3. QED BY <3>2 DEF SamePersonsStay
  <2>2. ASSUME NEW a \in Adjudicators, Adjudicate(a)
        PROVE  UNCHANGED <<bound, merged>> \/ ledger' # ledger
    <3>1. CASE AdjudicatorCommits(a)
      <4>1. InFlight(a) /\ ledger' = ledger \cup {job[a]}
        BY <3>1 DEF AdjudicatorCommits, InFlight, LedgerRow
      <4>2. job[a] \notin ledger
        BY <4>1 DEF TrailInv, IdsShape
      <4>3. QED BY <4>1, <4>2
    <3>2. QED BY <2>2, <3>1 DEF Adjudicate, ReadLoser, CheckSurvivor, ReadTombstone,
         CheckDestination, ReadKey, CheckUnbound, Take, Record, Write,
         AdjudicatorRollsBack, tableVars
  <2>3. QED BY <2>1, <2>2 DEF Next, vars, tableVars
<1>2. QED BY <1>1, TrailHolds, PTL DEF Spec, IdentityIsAdjudicated

-----------------------------------------------------------------------------
(* Resolving tombstones.                                                    *)

\* The library's induction rules take a predicate; a set of numbers serves.
LEMMA SetInduction ==
    ASSUME NEW S, 0 \in S, \A n \in Nat : n \in S => n + 1 \in S
    PROVE  Nat \subseteq S
<1> DEFINE Smaller == OpToRel(<, Nat)
<1>1. IsWellFoundedOn(Smaller, Nat)
  BY NatLessThanWellFounded
<1>2. \A m, n \in Nat : <<n, m>> \in Smaller <=> n < m
  BY DEF OpToRel
<1> HIDE DEF Smaller
<1>3. SUFFICES ASSUME NEW S1 \in SUBSET Nat, S1 = Nat \ S, S1 # {} PROVE FALSE
  OBVIOUS
<1>4. PICK m \in S1 : \A n \in S1 : ~(<<n, m>> \in Smaller)
  BY <1>1, <1>3, WFMin
<1>5. m \in Nat /\ m \notin S /\ m # 0
  BY <1>3
<1>6. m - 1 \in Nat /\ m - 1 < m /\ (m - 1) + 1 = m
  BY <1>5
<1>7. m - 1 \in S
  BY <1>2, <1>3, <1>4, <1>5, <1>6
<1>8. QED BY <1>5, <1>6, <1>7

\* The walk of resolve_merged, from one entity.
Leave(merges, w) ==
    IF merges[w.at] = None \/ w.at \in w.left THEN w
    ELSE [at |-> merges[w.at], left |-> w.left \cup {w.at}]
WalkFrom(merges, entity, upto, walk) ==
    walk = [n \in 0..upto |-> IF n = 0 THEN [at |-> entity, left |-> {}]
                              ELSE Leave(merges, walk[n - 1])]

\* The recursion has a solution of any length.
LEMMA WalkExists ==
    ASSUME NEW merges, NEW entity, NEW N \in Nat
    PROVE  \E walk : WalkFrom(merges, entity, N, walk)
<1> DEFINE Solved == {n \in Nat : \E walk : WalkFrom(merges, entity, n, walk)}
<1>1. 0 \in Solved
  <2> DEFINE walk == [n \in 0..0 |-> [at |-> entity, left |-> {}]]
  <2>1. WalkFrom(merges, entity, 0, walk)
    BY DEF WalkFrom
  <2>2. QED BY <2>1
<1>2. ASSUME NEW n \in Nat, n \in Solved PROVE n + 1 \in Solved
  <2>1. PICK walk : WalkFrom(merges, entity, n, walk)
    BY <1>2
  <2> DEFINE longer == [m \in 0..(n + 1) |-> IF m = n + 1 THEN Leave(merges, walk[n])
                                                         ELSE walk[m]]
  <2>2. ASSUME NEW m \in 0..(n + 1)
        PROVE  longer[m] = IF m = 0 THEN [at |-> entity, left |-> {}]
                           ELSE Leave(merges, longer[m - 1])
    <3>1. CASE m = n + 1
      BY <3>1
    <3>2. CASE m # n + 1
      <4>1. m \in 0..n /\ (m # 0 => m - 1 \in 0..(n + 1) /\ m - 1 # n + 1)
        BY <3>2
      <4>2. walk[m] = IF m = 0 THEN [at |-> entity, left |-> {}]
                      ELSE Leave(merges, walk[m - 1])
        BY <2>1, <4>1 DEF WalkFrom
      <4>3. QED BY <3>2, <4>1, <4>2
    <3>3. QED BY <3>1, <3>2
  <2>3. WalkFrom(merges, entity, n + 1, longer)
    BY <2>2 DEF WalkFrom
  <2>4. QED BY <2>3
<1> HIDE DEF Solved
<1>3. Nat \subseteq Solved
  BY <1>1, <1>2, SetInduction
<1>4. QED BY <1>3 DEF Solved

\* So Resolve is where such a walk is after as many steps as there are entities.
LEMMA ResolveWalks ==
    ASSUME NEW merges, NEW entity
    PROVE  \E walk : /\ WalkFrom(merges, entity, Cardinality(Entities), walk)
                     /\ Resolve(merges, entity) = walk[Cardinality(Entities)].at
<1> DEFINE N == Cardinality(Entities)
           walk == CHOOSE f : WalkFrom(merges, entity, N, f)
<1>1. N \in Nat
  BY EntitiesAreFinite, FS_CardinalityType
<1>2. WalkFrom(merges, entity, N, walk)
  BY <1>1, WalkExists
<1>3. Resolve(merges, entity) = walk[N].at
  BY Zenon DEF Resolve, WalkFrom, Leave
<1>4. QED BY <1>2, <1>3

\* What the walk has left leads nowhere else.
Sound(merges, w) ==
    /\ w.at \in Entities
    /\ w.left \in SUBSET Entities
    /\ \A x \in w.left : merges[x] \in w.left \cup {w.at}

\* It ends at an entity that is not merged or that it had left: the number of
\* entities is enough.
LEMMA ResolveStops ==
    ASSUME NEW merges \in [Entities -> Entities \cup {None}], NEW entity \in Entities
    PROVE  \E w : /\ Sound(merges, w) /\ Resolve(merges, entity) = w.at
                  /\ merges[w.at] = None \/ w.at \in w.left
<1> DEFINE N == Cardinality(Entities)
<1>1. PICK walk : /\ WalkFrom(merges, entity, N, walk)
                  /\ Resolve(merges, entity) = walk[N].at
  BY ResolveWalks
<1>2. N \in Nat
  BY EntitiesAreFinite, FS_CardinalityType
<1> DEFINE Stopped(w) == merges[w.at] = None \/ w.at \in w.left
           Walked == {n \in Nat : n <= N =>
                        /\ Sound(merges, walk[n])
                        /\ Stopped(walk[n]) \/ Cardinality(walk[n].left) = n}
<1>3. 0 \in Walked
  <2>1. walk[0] = [at |-> entity, left |-> {}]
    BY <1>1, <1>2 DEF WalkFrom
  <2>2. QED BY <2>1, FS_EmptySet DEF Sound
<1>4. ASSUME NEW n \in Nat, n \in Walked PROVE n + 1 \in Walked
  <2> SUFFICES ASSUME n + 1 <= N
               PROVE  /\ Sound(merges, walk[n + 1])
                      /\ Stopped(walk[n + 1]) \/ Cardinality(walk[n + 1].left) = n + 1
    OBVIOUS
  <2>1. /\ Sound(merges, walk[n])
        /\ Stopped(walk[n]) \/ Cardinality(walk[n].left) = n
    BY <1>2, <1>4
  <2>2. walk[n + 1] = Leave(merges, walk[n])
    <3>1. n + 1 \in 0..N /\ n + 1 # 0 /\ (n + 1) - 1 = n
      BY <1>2
    <3> HIDE DEF N
    <3>2. QED BY <1>1, <3>1 DEF WalkFrom
  <2>3. CASE Stopped(walk[n])
    <3>1. walk[n + 1] = walk[n]
      BY <2>2, <2>3 DEF Leave
    <3>2. QED BY <2>1, <2>3, <3>1
  <2>4. CASE ~Stopped(walk[n])
    <3>1. walk[n + 1] = [at |-> merges[walk[n].at], left |-> walk[n].left \cup {walk[n].at}]
      BY <2>2, <2>4 DEF Leave
    <3>2. IsFiniteSet(walk[n].left)
      BY <2>1, EntitiesAreFinite, FS_Subset DEF Sound
    <3>3. Cardinality(walk[n].left \cup {walk[n].at}) = n + 1
      BY <2>1, <2>4, <3>2, FS_AddElement
    <3>4. Sound(merges, walk[n + 1])
      BY <2>1, <2>4, <3>1 DEF Sound
    <3>5. QED BY <3>1, <3>3, <3>4
  <2>5. QED BY <2>3, <2>4
<1>5. N \in Walked
  <2> HIDE DEF Walked
  <2>1. Nat \subseteq Walked
    BY <1>3, <1>4, SetInduction
  <2>2. QED BY <1>2, <2>1
<1>6. Sound(merges, walk[N]) /\ (Stopped(walk[N]) \/ Cardinality(walk[N].left) = N)
  BY <1>2, <1>5
<1>7. Cardinality(walk[N].left) = N => walk[N].left = Entities
  BY <1>6, EntitiesAreFinite, FS_Subset DEF Sound
<1>8. QED BY <1>1, <1>6, <1>7 DEF Sound

\* No cycle of tombstones: no set of entities is closed under merged_into.
Acyclic(merges) == \A S \in SUBSET Entities : S # {} => \E e \in S : merges[e] \notin S

\* Without a cycle every entity resolves to one that is not merged.
LEMMA ResolveEnds ==
    ASSUME NEW merges \in [Entities -> Entities \cup {None}], Acyclic(merges),
           NEW entity \in Entities
    PROVE  merges[Resolve(merges, entity)] = None
<1>1. PICK w : /\ Sound(merges, w) /\ Resolve(merges, entity) = w.at
               /\ merges[w.at] = None \/ w.at \in w.left
  BY ResolveStops
<1>2. w.at \notin w.left
  BY <1>1 DEF Sound, Acyclic
<1>3. QED BY <1>1, <1>2

-----------------------------------------------------------------------------
(* What the tables hold.                                                    *)

\* The entities that a's checks have found.
DecisionTyped(a) ==
    LET j == job[a]
    IN apc[a] # "idle" =>
        /\ j.verb \in {"merge", "unmerge"} => j.subject \in Entities
        /\ j.verb = "merge" => j.target \in Entities \ {j.subject}

TypeShape ==
    /\ minted \in SUBSET Entities
    /\ merged \in [Entities -> Entities \cup {None}]
    /\ bound \in Bindings /\ view \in Bindings /\ fresh \in Bindings
    /\ \A a \in Adjudicators : DecisionTyped(a)

\* What a commit does to the tombstones.
LEMMA CommitMerges ==
    ASSUME TrailInv, NEW a \in Adjudicators, AdjudicatorCommits(a)
    PROVE  /\ job[a].verb = "merge" =>
                merged' = [merged EXCEPT ![job[a].subject] = job[a].target]
           /\ job[a].verb = "unmerge" => merged' = [merged EXCEPT ![job[a].subject] = None]
           /\ job[a].verb \in {"move", "register"} => merged' = merged
           /\ job[a].verb \in {"merge", "unmerge", "move", "register"}
<1>1. apc[a] = "written" /\ JobShape(a)
  BY DEF AdjudicatorCommits, TrailInv
<1>2. job[a].verb \in {"merge", "unmerge", "move", "register"}
  BY <1>1 DEF JobShape
<1>3. CASE job[a].verb = "merge"
  BY <1>3 DEF AdjudicatorCommits
<1>4. CASE job[a].verb = "unmerge"
  BY <1>4 DEF AdjudicatorCommits
<1>5. CASE job[a].verb \in {"move", "register"}
  BY <1>5 DEF AdjudicatorCommits
<1>6. QED BY <1>2, <1>3, <1>4, <1>5

\* An adjudicator's step is its own, and only its commit writes.
LEMMA AdjudicatorAlone ==
    ASSUME TrailInv, NEW a \in Adjudicators, Adjudicate(a)
    PROVE  /\ UNCHANGED registrarVars
           /\ AdjudicatorCommits(a) \/ UNCHANGED tableVars
           /\ \A b \in Adjudicators : b # a => apc'[b] = apc[b] /\ job'[b] = job[b]
<1>1. IsTable(apc, Adjudicators) /\ IsTable(job, Adjudicators)
  BY DEF TrailInv, Tables
<1>2. ASSUME NEW where, NEW decision, Take(a, where, decision)
      PROVE  /\ UNCHANGED <<tableVars, registrarVars>>
             /\ \A b \in Adjudicators : b # a => apc'[b] = apc[b] /\ job'[b] = job[b]
  BY <1>1, <1>2 DEF Take, IsTable
<1>3. ASSUME AdjudicatorEnds(a)
      PROVE  \A b \in Adjudicators : b # a => apc'[b] = apc[b] /\ job'[b] = job[b]
  BY <1>1, <1>3 DEF AdjudicatorEnds, IsTable
<1>4. CASE AdjudicatorCommits(a) \/ AdjudicatorRollsBack(a)
  BY <1>3, <1>4 DEF AdjudicatorCommits, AdjudicatorRollsBack
<1>5. CASE Record(a) \/ Write(a)
  BY <1>1, <1>5 DEF Record, Write, IsTable
<1>6. \/ \E e, f \in Entities : ReadLoser(a, e, f)
      \/ \E e \in Entities : ReadTombstone(a, e)
      \/ \E k \in Keys, e \in Entities : CheckDestination(a, k, e)
      \/ \E k \in Keys : CheckUnbound(a, k)
      \/ CheckSurvivor(a) \/ ReadKey(a)
      => \E where, decision : Take(a, where, decision)
  BY Zenon DEF ReadLoser, CheckSurvivor, ReadTombstone, CheckDestination, ReadKey,
     CheckUnbound
<1>7. QED BY <1>2, <1>4, <1>5, <1>6 DEF Adjudicate

\* What is resolved is an entity.
LEMMA NamedIsEntity ==
    ASSUME NEW merges \in [Entities -> Entities \cup {None}], NEW binding \in Bindings,
           NEW k \in Keys
    PROVE  Named(binding, merges, k) \in Entities \cup {None}
<1>1. CASE binding[k] = None
  BY <1>1 DEF Named
<1>2. CASE binding[k] # None
  <2>1. binding[k] \in Entities
    BY <1>2 DEF Bindings
  <2>2. Resolve(merges, binding[k]) \in Entities
    BY <2>1, ResolveStops DEF Sound
  <2>3. QED BY <1>2, <2>2 DEF Named
<1>3. QED BY <1>1, <1>2

LEMMA RegistrarKeepsTypes ==
    ASSUME TrailInv, TypeShape, RegistrarStep PROVE TypeShape'
<1> USE DEF TypeShape, Bindings
<1>a. \A a \in Adjudicators : DecisionTyped(a)'
  BY DEF RegistrarStep, ReadKeys, ReadMerges, LeaveCluster, BindCluster,
     RegistrarCommits, RegistrarRollsBack, operatorVars, DecisionTyped
<1>1. ASSUME NEW P \in Partitions, ReadKeys(P) PROVE TypeShape'
  BY <1>1, <1>a DEF ReadKeys, tableVars
<1>2. CASE ReadMerges
  <2>1. \A k \in Keys : Named(view, merged, k) \in Entities \cup {None}
    BY NamedIsEntity
  <2>2. view' \in Bindings
    BY <1>2, <2>1 DEF ReadMerges
  <2>3. QED BY <1>2, <2>2, <1>a DEF ReadMerges, tableVars
<1>3. ASSUME NEW c \in Clusters, LeaveCluster(c) PROVE TypeShape'
  BY <1>3, <1>a DEF LeaveCluster, tableVars
<1>4. ASSUME NEW c \in Clusters, BindCluster(c) PROVE TypeShape'
  <2>1. PICK e \in Destinations(c) :
          fresh' = [k \in Keys |-> IF k \in New(c) THEN e ELSE fresh[k]]
    BY <1>4 DEF BindCluster
  <2>2. c \subseteq Keys
    BY DEF Clusters
  <2>3. e \in Entities
    BY <2>1, <2>2 DEF Destinations, Unused, Touched
  <2>4. fresh' \in Bindings
    BY <2>1, <2>3
  <2>5. QED BY <1>4, <2>4, <1>a DEF BindCluster, tableVars
<1>5. CASE RegistrarCommits
  <2>1. minted' \in SUBSET Entities
    BY <1>5 DEF RegistrarCommits, NewEntities
  <2>2. bound' \in Bindings /\ view' \in Bindings /\ fresh' \in Bindings /\ merged' = merged
    BY <1>5 DEF RegistrarCommits, RegistrarEnds, NoKeys
  <2>3. QED BY <2>1, <2>2, <1>a
<1>6. CASE RegistrarRollsBack
  BY <1>6, <1>a DEF RegistrarRollsBack, RegistrarEnds, NoKeys, tableVars
<1>7. QED BY <1>1, <1>2, <1>3, <1>4, <1>5, <1>6 DEF RegistrarStep

\* A check takes only entities, and the steps after it keep the decision.
LEMMA DecisionStaysTyped ==
    ASSUME TrailInv, TypeShape, NEW a \in Adjudicators, Adjudicate(a)
    PROVE  DecisionTyped(a)'
<1>a. IsTable(apc, Adjudicators) /\ IsTable(job, Adjudicators) /\ DecisionTyped(a)
  BY DEF TrailInv, Tables, TypeShape
<1>b. ASSUME NEW where, NEW decision, Take(a, where, decision)
      PROVE  apc'[a] = where /\ job'[a] = decision
  BY <1>a, <1>b DEF Take, IsTable
<1>1. ASSUME NEW e \in Entities, NEW f \in Entities, ReadLoser(a, e, f) PROVE DecisionTyped(a)'
  <2>1. job'[a] = Decision("merge", e, f, None) /\ e # f
    BY <1>1, <1>b DEF ReadLoser
  <2>2. QED BY <2>1 DEF DecisionTyped, Decision
<1>2. ASSUME NEW e \in Entities, ReadTombstone(a, e) PROVE DecisionTyped(a)'
  <2>1. job'[a] = Decision("unmerge", e, merged[e], None)
    BY <1>2, <1>b DEF ReadTombstone
  <2>2. QED BY <2>1 DEF DecisionTyped, Decision
<1>3. ASSUME NEW k, NEW e, CheckDestination(a, k, e) \/ CheckUnbound(a, k)
      PROVE  DecisionTyped(a)'
  <2>1. job'[a] \in {Decision("move", None, e, k), Decision("register", None, None, k)}
    BY <1>3, <1>b DEF CheckDestination, CheckUnbound
  <2>2. QED BY <2>1 DEF DecisionTyped, Decision
<1>4. CASE CheckSurvivor(a)
  <2>1. job'[a] = job[a] /\ apc[a] # "idle"
    BY <1>4, <1>b DEF CheckSurvivor
  <2>2. QED BY <1>a, <2>1 DEF DecisionTyped
<1>5. CASE ReadKey(a)
  <2>1. job'[a] = [job[a] EXCEPT !.subject = bound[job[a].key]] /\ job[a].verb = "move"
    BY <1>5, <1>b DEF ReadKey
  <2>2. job'[a].verb = "move"
    BY <2>1 DEF TrailInv, Tables, IsJob
  <2>3. QED BY <2>2 DEF DecisionTyped
<1>6. CASE Record(a)
  <2>1. PICK e \in IF job[a].verb = "register" THEN Unused ELSE {job[a].target} :
          job' = [job EXCEPT ![a] = Issued(@, e)]
    BY <1>6 DEF Record
  <2>2. job'[a] = Issued(job[a], e) /\ apc[a] # "idle"
    BY <1>a, <1>6, <2>1 DEF IsTable, Record
  <2>3. QED BY <1>a, <2>1, <2>2 DEF DecisionTyped, Issued
<1>7. CASE Write(a)
  BY <1>a, <1>7 DEF Write, DecisionTyped
<1>8. CASE AdjudicatorEnds(a)
  BY <1>a, <1>8 DEF AdjudicatorEnds, DecisionTyped, IsTable
<1>9. QED BY <1>1, <1>2, <1>3, <1>4, <1>5, <1>6, <1>7, <1>8
          DEF Adjudicate, AdjudicatorCommits, AdjudicatorRollsBack

LEMMA AdjudicatorKeepsTypes ==
    ASSUME TrailInv, TypeShape, NEW a \in Adjudicators, Adjudicate(a) PROVE TypeShape'
<1>1. ASSUME NEW b \in Adjudicators PROVE DecisionTyped(b)'
  <2>1. CASE b = a
    BY <2>1, DecisionStaysTyped
  <2>2. CASE b # a
    BY <2>2, AdjudicatorAlone DEF DecisionTyped, TypeShape
  <2>3. QED BY <2>1, <2>2
<1>2. CASE UNCHANGED tableVars
  BY <1>1, <1>2, AdjudicatorAlone DEF TypeShape, tableVars, registrarVars
<1>3. CASE AdjudicatorCommits(a)
  <2>1. /\ JobShape(a) /\ InFlight(a) /\ DecisionTyped(a) /\ apc[a] = "written"
    BY <1>3 DEF AdjudicatorCommits, InFlight, TrailInv, TypeShape
  <2>2. minted' \in SUBSET Entities
    BY <1>3, <2>1 DEF AdjudicatorCommits, JobShape, TypeShape
  <2>3. bound' \in Bindings
    BY <1>3, <2>1 DEF AdjudicatorCommits, JobShape, TypeShape, Bindings
  <2>4. merged' \in [Entities -> Entities \cup {None}]
    BY <1>3, <2>1, CommitMerges DEF DecisionTyped, TypeShape
  <2>5. view' \in Bindings /\ fresh' \in Bindings
    BY <1>3 DEF AdjudicatorCommits, registrarVars, TypeShape
  <2>6. QED BY <1>1, <2>2, <2>3, <2>4, <2>5 DEF TypeShape
<1>4. QED BY <1>2, <1>3, AdjudicatorAlone

LEMMA TypesHold == Spec => []TypeShape
<1>1. Init => TypeShape
  BY DEF Init, TypeShape, Bindings, NoKeys, DecisionTyped
<1>2. TrailInv /\ TypeShape /\ [Next]_vars => TypeShape'
  <2>1. TypeShape /\ UNCHANGED vars => TypeShape'
    BY DEF TypeShape, DecisionTyped, vars, tableVars, registrarVars, operatorVars
  <2>2. QED BY <2>1, RegistrarKeepsTypes, AdjudicatorKeepsTypes DEF Next
<1>3. QED BY <1>1, <1>2, TrailHolds, PTL DEF Spec

-----------------------------------------------------------------------------
(* One operator at a time.                                                  *)

OneOperator == \A a, b \in Adjudicators : a = b

\* The decision in flight has the last id, and no two ledger rows share one.
IdsInOrder ==
    /\ \A a \in Adjudicators : InFlight(a) => job[a].id = issued
    /\ \A r, q \in ledger : r.id = q.id => r = q

\* Nobody merges the survivor that was checked before the merge commits.
SurvivorsLive ==
    \A a \in Adjudicators :
        apc[a] \notin {"idle", "checking"} /\ job[a].verb = "merge" => merged[job[a].target] = None

\* What the last ledger row on an entity says of its tombstone.
Replayed(e) ==
    IF \E r \in LastOn(e) : r.verb = "merge"
    THEN \E r \in LastOn(e) : merged[e] = r.target
    ELSE merged[e] = None

MergeInv ==
    /\ IdsInOrder /\ SurvivorsLive /\ Acyclic(merged)
    /\ \A e \in Entities : Replayed(e)

LEMMA RegistrarKeepsMerges ==
    ASSUME TrailInv, MergeInv, RegistrarStep PROVE MergeInv'
<1>1. UNCHANGED <<merged, ledger>>
  BY RegistrarKeepsBindings DEF TrailInv
<1>2. UNCHANGED <<apc, job, issued>>
  BY DEF RegistrarStep, ReadKeys, ReadMerges, LeaveCluster, BindCluster,
     RegistrarCommits, RegistrarRollsBack, operatorVars
<1>3. IdsInOrder' /\ SurvivorsLive' /\ Acyclic(merged')
  BY <1>1, <1>2 DEF MergeInv, IdsInOrder, SurvivorsLive, InFlight
<1>4. \A e \in Entities : Replayed(e)'
  BY <1>1 DEF MergeInv, Replayed, LastOn, OfTombstone
<1>5. QED BY <1>3, <1>4 DEF MergeInv

\* Until it commits, a decision keeps its id and its survivor.
LEMMA DecisionsKeepMerges ==
    ASSUME OneOperator, TrailInv, TypeShape, MergeInv, NEW a \in Adjudicators, Adjudicate(a),
           UNCHANGED tableVars
    PROVE  MergeInv'
<1>a. /\ IsTable(apc, Adjudicators) /\ IsTable(job, Adjudicators) /\ JobShape(a)
      /\ \A b \in Adjudicators : b = a
  BY DEF TrailInv, Tables, OneOperator
<1>b. ASSUME NEW where, NEW decision, Take(a, where, decision)
      PROVE  apc'[a] = where /\ job'[a] = decision
  BY <1>a, <1>b DEF Take, IsTable
<1> DEFINE InOrder == InFlight(a)' => job'[a].id = issued'
           SurvivorLive == /\ apc'[a] \notin {"idle", "checking"}
                           /\ job'[a].verb = "merge"
                           => merged[job'[a].target] = None
<1>1. InOrder /\ SurvivorLive
  <2>1. CASE \/ \E e, f \in Entities : ReadLoser(a, e, f)
             \/ \E k \in Keys, e \in Entities : CheckDestination(a, k, e)
    <3>1. apc'[a] = "checking"
      BY <1>b, <2>1 DEF ReadLoser, CheckDestination
    <3>2. QED BY <3>1 DEF InFlight
  <2>2. CASE CheckSurvivor(a)
    <3>1. apc'[a] = "writing" /\ job'[a] = job[a] /\ merged[job[a].target] = None
      BY <1>b, <2>2 DEF CheckSurvivor, Live
    <3>2. QED BY <3>1 DEF InFlight
  <2>3. CASE \/ \E e \in Entities : ReadTombstone(a, e)
             \/ \E k \in Keys : CheckUnbound(a, k)
    <3>1. PICK decision : /\ Take(a, "writing", decision)
                          /\ decision.verb \in {"unmerge", "register"}
      <4>1. ASSUME NEW e, NEW k, NEW m
            PROVE  /\ Decision("unmerge", e, m, None).verb = "unmerge"
                   /\ Decision("register", None, None, k).verb = "register"
        BY DEF Decision
      <4>2. QED BY <2>3, <4>1 DEF ReadTombstone, CheckUnbound
    <3>2. apc'[a] = "writing" /\ job'[a].verb \in {"unmerge", "register"}
      BY <1>b, <3>1
    <3>3. QED BY <3>2 DEF InFlight
  <2>4. CASE ReadKey(a)
    <3>1. /\ apc'[a] = "writing" /\ job[a].verb = "move"
          /\ job'[a] = [job[a] EXCEPT !.subject = bound[job[a].key]]
      BY <1>b, <2>4 DEF ReadKey
    <3>2. job'[a].verb = "move"
      BY <3>1 DEF TrailInv, Tables, IsJob
    <3>3. QED BY <3>1, <3>2 DEF InFlight
  <2>5. CASE Record(a)
    <3>1. PICK e \in IF job[a].verb = "register" THEN Unused ELSE {job[a].target} :
            job' = [job EXCEPT ![a] = Issued(@, e)]
      BY <2>5 DEF Record
    <3>2. job'[a] = Issued(job[a], e) /\ apc[a] = "writing" /\ issued' = issued + 1
      BY <1>a, <2>5, <3>1 DEF IsTable, Record
    <3>3. /\ job'[a].id = issued' /\ job'[a].verb = job[a].verb
          /\ job[a].verb = "merge" => job'[a].target = job[a].target
      BY <3>1, <3>2 DEF Issued
    <3>4. QED BY <3>2, <3>3 DEF MergeInv, SurvivorsLive
  <2>6. CASE Write(a)
    <3>1. /\ apc[a] = "recorded" /\ job' = job /\ issued' = issued
      BY <2>6 DEF Write
    <3>2. QED BY <3>1 DEF MergeInv, SurvivorsLive, IdsInOrder, InFlight
  <2>7. CASE AdjudicatorEnds(a)
    BY <1>a, <2>7 DEF AdjudicatorEnds, IsTable, InFlight
  <2>8. QED BY <2>1, <2>2, <2>3, <2>4, <2>5, <2>6, <2>7
            DEF Adjudicate, AdjudicatorCommits, AdjudicatorRollsBack
<1>2. IdsInOrder'
  BY <1>a, <1>1 DEF MergeInv, IdsInOrder, tableVars
<1>3. SurvivorsLive'
  <2>1. merged' = merged
    BY DEF tableVars
  <2>2. QED BY <1>a, <1>1, <2>1 DEF SurvivorsLive
<1>4. Acyclic(merged') /\ \A e \in Entities : Replayed(e)'
  BY DEF MergeInv, Replayed, LastOn, OfTombstone, tableVars
<1>5. QED BY <1>2, <1>3, <1>4 DEF MergeInv

\* A merge into a live survivor makes no cycle, and nothing else could.
LEMMA CommitKeepsAcyclic ==
    ASSUME TrailInv, TypeShape, MergeInv, NEW a \in Adjudicators, AdjudicatorCommits(a)
    PROVE  Acyclic(merged')
<1> DEFINE j == job[a]
<1>1. /\ apc[a] = "written" /\ DecisionTyped(a) /\ Acyclic(merged)
      /\ merged \in [Entities -> Entities \cup {None}]
      /\ j.verb = "merge" => merged[j.target] = None
  BY DEF AdjudicatorCommits, TypeShape, MergeInv, SurvivorsLive
<1> SUFFICES ASSUME NEW S \in SUBSET Entities, S # {}
             PROVE  \E e \in S : merged'[e] \notin S
  BY DEF Acyclic
<1>2. PICK e \in S : merged[e] \notin S
  BY <1>1 DEF Acyclic
<1>3. CASE j.verb = "merge"
  <2>1. /\ j.subject \in Entities /\ j.target \in Entities /\ j.target # j.subject
        /\ merged' = [merged EXCEPT ![j.subject] = j.target]
    BY <1>1, <1>3, CommitMerges DEF DecisionTyped
  <2>2. CASE j.target \in S
    BY <1>1, <1>3, <2>1, <2>2
  <2>3. CASE j.target \notin S /\ j.subject \in S
    BY <1>1, <2>1, <2>3
  <2>4. CASE j.subject \notin S
    BY <1>1, <1>2, <2>1, <2>4
  <2>5. QED BY <2>2, <2>3, <2>4
<1>4. CASE j.verb = "unmerge"
  <2>1. j.subject \in Entities /\ merged' = [merged EXCEPT ![j.subject] = None]
    BY <1>1, <1>4, CommitMerges DEF DecisionTyped
  <2>2. QED BY <1>1, <1>2, <2>1
<1>5. CASE j.verb \in {"move", "register"}
  BY <1>2, <1>5, CommitMerges
<1>6. QED BY <1>3, <1>4, <1>5, CommitMerges

\* The decision that commits is the last on its entity, and the tombstone says
\* what it says.
LEMMA CommitIsReplayed ==
    ASSUME TrailInv, TypeShape, MergeInv, NEW a \in Adjudicators, AdjudicatorCommits(a),
           NEW e \in Entities
    PROVE  Replayed(e)'
<1> DEFINE j == job[a]
<1>1. /\ apc[a] = "written" /\ DecisionTyped(a)
      /\ merged \in [Entities -> Entities \cup {None}]
      /\ ledger' = ledger \cup {j}
      /\ j.id \in Ids /\ j.id = issued
      /\ \A r \in ledger : r.id \in Ids /\ r.id <= issued /\ r.id # j.id
  BY DEF AdjudicatorCommits, LedgerRow, TypeShape, TrailInv, LedgerShape, IdsShape,
     MergeInv, IdsInOrder, InFlight
<1>2. CASE j.verb \in {"merge", "unmerge"} /\ j.subject = e
  <2>1. OfTombstone(e)' = OfTombstone(e) \cup {j}
    BY <1>1, <1>2 DEF OfTombstone
  <2>2. \A q \in OfTombstone(e)' : q.id <= j.id /\ (q # j => q.id < j.id)
    BY <1>1, <2>1 DEF OfTombstone, Ids
  <2>3. LastOn(e)' = {j}
    <3>1. \A q \in OfTombstone(e)' : q.id \in Nat
      BY <1>1, <2>1 DEF OfTombstone, Ids
    <3>2. j \in OfTombstone(e)'
      BY <2>1
    <3>3. LastOn(e)' = {r \in OfTombstone(e)' : \A q \in OfTombstone(e)' : q.id <= r.id}
      BY DEF LastOn
    <3>4. QED BY <2>2, <3>1, <3>2, <3>3
  <2>4. merged'[e] = IF j.verb = "merge" THEN j.target ELSE None
    BY <1>1, <1>2, CommitMerges
  <2>5. QED BY <1>2, <2>3, <2>4 DEF Replayed
<1>3. CASE ~(j.verb \in {"merge", "unmerge"} /\ j.subject = e)
  <2>1. LastOn(e)' = LastOn(e)
    BY <1>1, <1>3 DEF LastOn, OfTombstone
  <2>2. merged'[e] = merged[e]
    BY <1>1, <1>3, CommitMerges DEF DecisionTyped
  <2>3. QED BY <2>1, <2>2 DEF MergeInv, Replayed
<1>4. QED BY <1>2, <1>3

LEMMA MergesHold ==
    ASSUME OneOperator PROVE Spec => []MergeInv
<1>1. Init => MergeInv
  <2> SUFFICES ASSUME Init PROVE MergeInv
    OBVIOUS
  <2>1. IdsInOrder /\ SurvivorsLive
    BY DEF Init, IdsInOrder, SurvivorsLive, InFlight
  <2>2. Acyclic(merged)
    BY DEF Init, Acyclic
  <2>3. \A e \in Entities : Replayed(e)
    BY DEF Init, Replayed, LastOn, OfTombstone
  <2>4. QED BY <2>1, <2>2, <2>3 DEF MergeInv
<1>2. TrailInv /\ TypeShape /\ MergeInv /\ [Next]_vars => MergeInv'
  <2> SUFFICES ASSUME TrailInv, TypeShape, MergeInv, [Next]_vars PROVE MergeInv'
    OBVIOUS
  <2>1. CASE UNCHANGED vars
    BY <2>1 DEF MergeInv, IdsInOrder, SurvivorsLive, Replayed, LastOn, OfTombstone,
       InFlight, vars, tableVars, operatorVars
  <2>2. ASSUME NEW a \in Adjudicators, Adjudicate(a) PROVE MergeInv'
    <3>1. CASE AdjudicatorCommits(a)
      <4>1. SurvivorsLive'
        BY <3>1 DEF AdjudicatorCommits, AdjudicatorEnds, SurvivorsLive, OneOperator,
           TrailInv, Tables, IsTable
      <4>2. IdsInOrder'
        <5>1. /\ ledger' = ledger \cup {job[a]}
              /\ \A r \in ledger : r.id # job[a].id
              /\ \A b \in Adjudicators : ~InFlight(b)'
          BY <3>1 DEF AdjudicatorCommits, AdjudicatorEnds, LedgerRow, TrailInv, IdsShape,
             InFlight, OneOperator, Tables, IsTable
        <5>2. QED BY <5>1 DEF MergeInv, IdsInOrder
      <4>3. QED BY <3>1, <4>1, <4>2, CommitKeepsAcyclic, CommitIsReplayed DEF MergeInv
    <3>2. QED BY <2>2, <3>1, AdjudicatorAlone, DecisionsKeepMerges
  <2>3. QED BY <2>1, <2>2, RegistrarKeepsMerges DEF Next
<1>3. QED BY <1>1, <1>2, TrailHolds, TypesHold, PTL DEF Spec

\* With one operator at a time tombstones never form a cycle: whoever was ever
\* published resolves to a live survivor. (Two operators can merge two entities
\* into each other.)
THEOREM EveryoneSurvives ==
    ASSUME OneOperator PROVE Spec => []EverySurvives
<1>1. TypeShape /\ MergeInv => EverySurvives
  BY ResolveEnds DEF TypeShape, MergeInv, EverySurvives
<1>2. QED BY <1>1, TypesHold, MergesHold, PTL

\* And the trail stays whole: replaying the ledger gives the tombstones.
THEOREM TrailReplays ==
    ASSUME OneOperator PROVE Spec => []TombstonesReplay
<1>1. TrailInv /\ TypeShape /\ MergeInv => TombstonesReplay
  <2> SUFFICES ASSUME TrailInv, TypeShape, MergeInv, NEW e \in minted
               PROVE  merged[e] = IF \E r \in LastOn(e) : r.verb = "merge"
                                  THEN (CHOOSE r \in LastOn(e) : TRUE).target
                                  ELSE None
    BY DEF TombstonesReplay
  <2>1. Replayed(e)
    BY DEF TypeShape, MergeInv
  <2>2. \A r, q \in LastOn(e) : r = q
    <3>1. ASSUME NEW r \in LastOn(e), NEW q \in LastOn(e) PROVE r.id = q.id
      BY DEF TrailInv, LedgerShape, Ids, LastOn, OfTombstone
    <3>2. QED BY <3>1 DEF MergeInv, IdsInOrder, LastOn, OfTombstone
  <2>3. QED BY <2>1, <2>2 DEF Replayed
<1>2. QED BY <1>1, TrailHolds, TypesHold, MergesHold, PTL
=============================================================================
