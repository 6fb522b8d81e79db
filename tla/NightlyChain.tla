---------------------------- MODULE NightlyChain ----------------------------
(***************************************************************************)
(* pipeline-nightly.sh: harvests, dbt build, build warnings, registrar,    *)
(* publish, serving load, coverage seed and probes, one job after another. *)
(* A failed build ends the night; every other failure is counted and the   *)
(* chain goes on with what the failed stage left.  A night that counted    *)
(* any exits 1, which is what mails the operator.  The same script runs    *)
(* the rollover rehearsal in a scratch directory.                          *)
(*                                                                         *)
(* What a stage produces is told by the nights its wires are of: for every *)
(* harvest, the last night it landed what it calls a good harvest.  One    *)
(* resource that failed among others that did not is within its counters,  *)
(* not its outcome, and is not followed here.                              *)
(***************************************************************************)
EXTENDS JobHarness

CONSTANTS Harvests,    \* how many harvests there are, in their order
          Probes,      \* how many probes
          Accepted,    \* the harvests with an outage accepted in their code
          MaxNights    \* bound: nights, and rehearsals as well

ASSUME ChainAssumption == /\ Harvests \in Nat \ {0} /\ Probes \in Nat \ {0}
                          /\ MaxNights \in Nat

VARIABLES night,       \* the last night that began
          rehearsals,  \* rehearsals begun
          stage,       \* the stage of the chain, "idle", or "by hand"
          turn,        \* which harvest or probe
          counted,     \* a stage of this night has failed
          rehearsing,
          env,         \* where this night's roots and its ledger are
          made,        \* what production holds
          verdict      \* how the last night ended: "none", "quiet" or "mailed"

chainVars == <<job, night, rehearsals, stage, turn, counted, rehearsing, env, made, verdict>>

Jobs == {"harvest", "warnings", "registrar", "publish", "load", "seed", "probe"}

(* The stages that write state no scratch root holds.                      *)
Writers == {"registrar", "load", "seed"}

Wires == [1..Harvests -> 0..MaxNights]

NoWires == [h \in 1..Harvests |-> 0]

(* What a build that was cut short leaves: models of two nights.           *)
Partial == [h \in {} |-> 0]

-----------------------------------------------------------------------------
(* The roots, and what lies under a directory: "home" holds the production *)
(* checkout and the scratch directory.                                     *)
Places == {"production", "scratch", "home"}

Under(dir) == IF dir = "home" THEN Places ELSE {dir}

Envs == [dir : Places, raw : Places, db : Places, datasets : Places, ledger : BOOLEAN]

Production(ledger) == [dir |-> "production", raw |-> "production", db |-> "production",
                       datasets |-> "production", ledger |-> ledger]

Roots(e) == {e.raw, e.db, e.datasets}

(* Mutant of Rehearsable: any root under the rehearsal's directory will do. *)
RehearsableAbove(e) == e.dir # "production" /\ Roots(e) \subseteq Under(e.dir) /\ ~e.ledger

(* The refusals a rehearsal has to pass before the first stage.            *)
Rehearsable(e) ==
    /\ e.dir # "production"
    /\ \A root \in Roots(e) : root \in Under(e.dir) /\ root # "production"
    /\ ~e.ledger

(* Where the running job, or the build, writes.                            *)
WritesTo(slug) ==
    CASE slug = "harvest" -> env.raw
      [] slug = "build"   -> env.db
      [] slug = "publish" -> env.datasets
      [] OTHER            -> "production"

-----------------------------------------------------------------------------
ChainInit ==
    /\ job = NoJob
    /\ night = 0 /\ rehearsals = 0 /\ stage = "idle" /\ turn = 1
    /\ counted = FALSE /\ rehearsing = FALSE /\ env = Production(TRUE)
    /\ made = [raw |-> NoWires, build |-> NoWires, registry |-> NoWires,
               catalog |-> NoWires, served |-> NoWires, seeded |-> 0]
    /\ verdict = "none"

(* The timer.  A ledger switch that leaked into production is counted.     *)
BeginNight ==
    /\ stage = "idle" /\ night < MaxNights
    /\ \E ledger \in BOOLEAN : env' = Production(ledger) /\ counted' = ~ledger
    /\ night' = night + 1 /\ stage' = "harvest" /\ turn' = 1
    /\ rehearsing' = FALSE /\ verdict' = "none"
    /\ UNCHANGED <<job, rehearsals, made>>

(* rollover-rehearsal.sh, never while the nightly runs; with whatever      *)
(* directory and roots its caller has set.                                 *)
BeginRehearsal ==
    /\ stage = "idle" /\ rehearsals < MaxNights
    /\ \E e \in Envs : Rehearsable(e) /\ env' = e
    /\ rehearsals' = rehearsals + 1 /\ stage' = "harvest" /\ turn' = 1
    /\ counted' = FALSE /\ rehearsing' = TRUE
    /\ UNCHANGED <<job, night, made, verdict>>

-----------------------------------------------------------------------------
Following == [warnings |-> "registrar", registrar |-> "publish", publish |-> "load",
              load |-> "seed", seed |-> "probe"]

(* Both loops, over the harvests and over the probes, and the straight line. *)
Advance ==
    IF \/ stage = "harvest" /\ turn < Harvests
       \/ stage = "probe" /\ turn < Probes
    THEN stage' = stage /\ turn' = turn + 1
    ELSE /\ turn' = 1
         /\ stage' = CASE stage = "harvest" -> "build"
                       [] stage = "probe"   -> "report"
                       [] stage = "by hand" -> "idle"
                       [] OTHER             -> Following[stage]

(* skipped: the writers in every rehearsal, a harvest where it is asked.   *)
SkipStage ==
    /\ job = NoJob /\ rehearsing /\ stage \in Writers \cup {"harvest"}
    /\ Advance
    /\ UNCHANGED <<job, night, rehearsals, counted, rehearsing, env, made, verdict>>

StartStage ==
    /\ stage \in Jobs /\ ~(rehearsing /\ stage \in Writers)
    /\ BeginRun(stage, stage \in {"harvest", "publish"}, FALSE, env.ledger)
    /\ UNCHANGED <<night, rehearsals, stage, turn, counted, rehearsing, env, made, verdict>>

(* An operator: a load, a seed, or an adjudication, a rehearsal of it or not. *)
StartByHand ==
    /\ stage = "idle"
    /\ \E slug \in {"load", "seed", "adjudicate"}, dry \in BOOLEAN : BeginRun(slug, FALSE, dry, TRUE)
    /\ stage' = "by hand"
    /\ UNCHANGED <<night, rehearsals, turn, counted, rehearsing, env, made, verdict>>

-----------------------------------------------------------------------------
(* What production holds once the running job's work has landed.           *)
Written ==
    IF WritesTo(job.slug) # "production" THEN made
    ELSE CASE job.slug = "harvest"   -> [made EXCEPT !.raw[turn] = night]
           [] job.slug = "registrar" -> [made EXCEPT !.registry = made.build]
           [] job.slug = "publish"   -> [made EXCEPT !.catalog = made.build]
           [] job.slug = "load"      -> [made EXCEPT !.served = made.catalog]
           [] job.slug = "seed"      -> [made EXCEPT !.seeded = night]
           [] OTHER                  -> made

Lands == job.work # "landed" /\ job'.work = "landed"

Lasting == made' = IF Lands THEN Written ELSE made

AcceptedOutage == job.slug = "harvest" /\ turn \in Accepted

(* A handler that reports ok did its work, but for an accepted outage; one *)
(* that does not may have done it, all the same.                           *)
Returns ==
    \E outcome \in Outcomes, did \in BOOLEAN :
        /\ outcome = "ok" => did \/ AcceptedOutage
        /\ HandlerReturns(outcome, did)

JobStep ==
    /\ \/ OpenRow \/ Returns \/ \E did \in BOOLEAN : HandlerRaises(did)
       \/ job.slug = "adjudicate" /\ HandlerExits
       \/ RollBack \/ CommitWork \/ CommitFails \/ CloseRow
    /\ Lasting
    /\ UNCHANGED <<night, rehearsals, stage, turn, counted, rehearsing, env, verdict>>

(* run_stage: an exit code other than 0 is counted.                        *)
EndStage ==
    /\ Reap
    /\ Advance
    /\ counted' = (counted \/ (job.code # 0 /\ stage # "by hand"))
    /\ UNCHANGED <<night, rehearsals, rehearsing, env, made, verdict>>

-----------------------------------------------------------------------------
BuildPasses ==
    /\ stage = "build"
    /\ made' = IF WritesTo("build") = "production" THEN [made EXCEPT !.build = made.raw] ELSE made
    /\ stage' = "warnings"
    /\ UNCHANGED <<job, night, rehearsals, turn, counted, rehearsing, env, verdict>>

(* Models rebuilt so far stay rebuilt.                                     *)
Halfway == IF WritesTo("build") = "production" THEN [made EXCEPT !.build = Partial] ELSE made

(* Mutant of BuildFails: counted like any other failure. *)
BuildContained ==
    /\ stage = "build"
    /\ made' \in {made, Halfway}
    /\ stage' = "warnings" /\ counted' = TRUE
    /\ UNCHANGED <<job, night, rehearsals, turn, rehearsing, env, verdict>>

(* The script is gone, and its environment with it.                        *)
Ended(mailed) ==
    /\ verdict' = IF rehearsing THEN verdict ELSE IF mailed THEN "mailed" ELSE "quiet"
    /\ stage' = "idle" /\ turn' = 1 /\ counted' = FALSE /\ rehearsing' = FALSE
    /\ env' = Production(TRUE)
    /\ UNCHANGED <<night, rehearsals>>

BuildFails ==
    /\ stage = "build"
    /\ made' \in {made, Halfway}
    /\ Ended(TRUE)
    /\ UNCHANGED job

Report ==
    /\ stage = "report"
    /\ Ended(counted)
    /\ UNCHANGED <<job, made>>

(* TimeoutStartSec, or a signal: the script and its job are gone, with     *)
(* their work or without it, and the unit has failed.                      *)
Kill ==
    /\ stage \notin {"idle", "by hand"}
    /\ made' \in {made} \cup
          (CASE stage = "build"                          -> {Halfway}
             [] job.step = "handling" /\ job.files       -> {Written}
             [] job.step = "ending" /\ job.work = "pending" /\ job.result # "failed" -> {Written}
             [] OTHER                                    -> {})
    /\ Ended(TRUE)
    /\ job' = NoJob

ChainNext ==
    \/ BeginNight \/ BeginRehearsal \/ SkipStage \/ StartStage \/ StartByHand
    \/ JobStep \/ EndStage \/ BuildPasses \/ BuildFails \/ Report \/ Kill

ChainSpec == ChainInit /\ [][ChainNext]_chainVars

-----------------------------------------------------------------------------
Stages == Jobs \cup {"idle", "by hand", "build", "report"}

Builds == Wires \cup {Partial}

Holdings == [raw : Wires, build : Builds, registry : Builds, catalog : Builds,
             served : Builds, seeded : 0..MaxNights]

ChainType ==
    /\ JobType
    /\ night \in 0..MaxNights /\ rehearsals \in 0..MaxNights
    /\ stage \in Stages /\ turn \in Nat
    /\ counted \in BOOLEAN /\ rehearsing \in BOOLEAN /\ env \in Envs
    /\ made \in Holdings
    /\ verdict \in {"none", "quiet", "mailed"}

(* A night nobody was mailed about served its own harvests: each of them   *)
(* landed that night, but for one whose outage is accepted, and the build, *)
(* the registry, the catalog and the tables the API reads are all of them. *)
QuietMeansFresh ==
    verdict = "quiet" =>
        /\ \A h \in (1..Harvests) \ Accepted : made.raw[h] = night
        /\ made.build = made.raw /\ made.registry = made.build
        /\ made.catalog = made.build /\ made.served = made.catalog
        /\ made.seeded = night

(* A build that failed or was killed halfway is behind none of what the    *)
(* registry, the catalog or the API's tables hold, that night or later.    *)
WholeBuildsOnly == Partial \notin {made.registry, made.catalog, made.served}

(* A ledger row says ok only of a run whose work landed, whether the       *)
(* commit failed, the row could not be opened or the process was killed.   *)
OkMeansLanded ==
    job.row = "ok" /\ ~job.dry /\ ~AcceptedOutage => job.work = "landed"

(* A rehearsal, whatever roots it was given, changes nothing of            *)
(* production's and leaves no row in the ledger.                           *)
RehearsalApart ==
    [][rehearsing /\ stage # "idle" => made' = made /\ job'.row = "none"]_chainVars
=============================================================================
