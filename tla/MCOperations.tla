---------------------------- MODULE MCOperations ----------------------------
(***************************************************************************)
(* What runs the system: the migrate unit and the nightly chain, each      *)
(* explored with the other at rest, since they share nothing the models    *)
(* follow; the chain on a database that is up to date.  Rehearsals come    *)
(* before the first night, jobs by hand between the two nights.            *)
(***************************************************************************)
EXTENDS Migrations, NightlyChain

ChainAtRest == night = 0 /\ rehearsals = 0 /\ stage = "idle" /\ job = NoJob

MigrationsAtRest == at = Latest /\ moves = 0 /\ unit = "off" /\ db.held = {} /\ db.granted = {}

ChainFocus == /\ rehearsing => night = 0
              /\ stage = "by hand" => night = 1

MCInit == Init /\ ChainInit

MCNext == \/ Next /\ ChainAtRest /\ UNCHANGED chainVars
          \/ ChainNext /\ ChainFocus' /\ MigrationsAtRest /\ UNCHANGED vars

MCSpec == MCInit /\ [][MCNext]_<<vars, chainVars>>
=============================================================================
